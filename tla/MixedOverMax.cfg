SPECIFICATION Spec
CONSTANTS
  Entries = {"MixedMax"}
  ChildCount = 1
  MaxChildCount = 1
  Pids = {p1, p2, p3}
  Clients = {c1, c2, c3}
  NoClient = NoClient
  AtomicIncrement = TRUE
  Faults <- NoFaults
SYMMETRY Symmetry
INVARIANTS ServedAtMostMax
CHECK_DEADLOCK FALSE
