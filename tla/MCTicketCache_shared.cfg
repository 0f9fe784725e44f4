SPECIFICATION Spec
CONSTANTS
  Conns = {"c1", "c2", "c3"}
  Dialled = {"c3"}
  Ids = {"n1", "n2"}
  Lifetimes = {1}
  Limit = 1
  Loaded <- OneLoaded
  MaxTickets = 2
  MaxTime = 3
INVARIANTS
  TypeOK
  NoTicketLost
PROPERTIES
  ImplementsTicketStore
  EventuallyStored
  OnlyHolderChanges
