SPECIFICATION Spec
CONSTANTS
  Servers <- AllServers
  MaxConns = 2
  MaxTickets = 2
  MaxUpdates = 1
  MaxData = 1
INVARIANTS
  ResumptionSupported
