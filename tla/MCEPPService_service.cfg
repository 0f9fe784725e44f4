SPECIFICATION Spec
CONSTANTS
  c1 = c1
  c2 = c2
  Clients <- TwoClients
  Backlog = 1
  Lengths = {22, 23, 24}
  Profiles <- Pairs
INVARIANTS
  TypeOK
  NoConnLeaked
  FailureExplained
PROPERTIES
  EveryRunEnds
  ImplementsDialog
CHECK_DEADLOCK FALSE
