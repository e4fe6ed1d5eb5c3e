SPECIFICATION FairSpec
CONSTANTS
  Entries = {"Simple", "OCPCMax", "Preforked", "MixedMax"}
  ChildCount = 2
  MaxChildCount = 1
  Pids = {p1, p2, p3, p4}
  Clients = {c1, c2}
  NoClient = NoClient
  AtomicIncrement = FALSE
  Faults <- FaultsOf
INVARIANTS TypeOK OcpcBound CounterNeverLow
PROPERTIES AdmitsInOrder SigintStopsServer ShutdownSparesOcpc QueuedClientServed
CHECK_DEADLOCK FALSE
