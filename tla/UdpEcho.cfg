SPECIFICATION FairSpec
CONSTANTS
  c1 = c1
  c2 = c2
  maxDatagrams = 2
  maxClients = 2
  Procs = {s1, s2}
  OldProcs = {s2}
  Kinds <- TwoKinds
  Clients = {c1, c2}
  MAX_ATTEMPTS = 2
  MaxRounds <- TwoOne
  Networks <- OneFault
INVARIANTS TypeOK AnswersBounded RepliesAreFresh
PROPERTIES RoundsEnd
CHECK_DEADLOCK FALSE
