SPECIFICATION FairSpec
CONSTANTS
  MaxChildCount = 2
  Clients = {c1, c2, c3, c4}
  Listener = Listener
  MaxRequests = 1
INVARIANTS TypeOK ArrayMirrorsDescriptors
PROPERTIES AdmitsInOrder AcceptedServedUnlessFull
