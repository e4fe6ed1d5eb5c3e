SPECIFICATION FairSpec
CONSTANTS
  Programs = {"once", "again", "struct2", "old", "echo", "oldecho", "xdr", "file"}
  Ids = {1, 2}
  Ops = {"a", "b"}
  Absent = {"b"}
  MAX_RETRANSMISSIONS = 3
  Networks <- SomeFaults
  MaxRuns = 2
  MaxCopies = 1
  MaxNoise = 1
INVARIANTS TypeOK ResultIsMine ExpiresOnlyByLoss
PROPERTIES RunEnds
CHECK_DEADLOCK FALSE
