SPECIFICATION FairSpec
CONSTANTS
  Entries = {"Simple", "OCPC", "OCPCMax", "Preforked", "Mixed", "MixedMax"}
  ChildCount = 1
  MaxChildCount = 2
  Pids = {p1, p2, p3}
  Clients = {c1, c2, c3}
  NoClient = NoClient
  AtomicIncrement = TRUE
  Faults <- NoFaults
INVARIANTS CounterExact WaitHasChild
PROPERTIES AdmitsEventually ConnectionEnds ZombiesReaped
