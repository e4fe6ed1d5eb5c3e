SPECIFICATION FairSpec
CONSTANTS
  Programs = {"usr1"}
  Max = 2
  Permits = 1
  Workers = 2
  Pids = {1, 2, 3, 4}
  Clients = {c1, c2, c3, c4}
  NoClient = NoClient
  ForksMayFail = FALSE
  CountBound = 2
INVARIANT SessionsAtMostMax
CHECK_DEADLOCK FALSE
