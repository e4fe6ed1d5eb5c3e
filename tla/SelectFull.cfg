SPECIFICATION FairSpec
CONSTANTS
  MaxChildCount = 1
  Clients = {c1, c2}
  Listener = Listener
  MaxRequests = 1
PROPERTIES AcceptedClientServed
