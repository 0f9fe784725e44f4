SPECIFICATION Spec
CONSTANTS
  Conns = {"c1", "c2"}
  Dialled = {"c2"}
  Ids = {"n1", "n2"}
  Lifetimes = {1, 5}
  Limit = 4
  Loaded <- TwoLoaded
  MaxTickets = 2
  MaxTime = 3
INVARIANTS
  CloneIntact
