SPECIFICATION FairSpec
CONSTANTS
  Programs = {"iter", "usr1", "thread", "prefork", "chld"}
  Max = 2
  Permits = 1
  Workers = 2
  Pids = {1, 2, 3}
  Clients = {c1, c2}
  NoClient = NoClient
  ForksMayFail = TRUE
  CountBound = 2
INVARIANTS TypeOK CountNeverLow
PROPERTIES AdmitsInOrder QueuedClientAdmitted SigintEndsAll
CHECK_DEADLOCK FALSE
