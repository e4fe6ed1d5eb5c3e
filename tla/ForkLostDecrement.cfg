SPECIFICATION Spec
CONSTANTS
  Entries = {"OCPCMax"}
  ChildCount = 1
  MaxChildCount = 1
  Pids = {p1, p2}
  Clients = {c1}
  NoClient = NoClient
  AtomicIncrement = FALSE
  Faults <- NoFaults
INVARIANTS WaitHasChild
