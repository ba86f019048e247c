SPECIFICATION AsioSpec
CONSTANTS
  MaxEvents = 2
  MaxOps = 3
  MaxMessages = 2
  MaxReads = 2
  Armings = {TRUE, FALSE}
  Ports = {p, q}
  MaxFailures = 3
  Prompt = TRUE
  Clients = {c}
  MaxBlock = 30
INVARIANTS TimersInv ConnectionInv ServicesInv
PROPERTIES EventsEnd ImplementsLife SilentClientsGo ServerGoesOn BansAreFair
CHECK_DEADLOCK FALSE
