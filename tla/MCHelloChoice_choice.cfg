SPECIFICATION Spec
CONSTANTS
  Hellos <- AllHellos
  Configs <- AllConfigs
INVARIANTS
  NoNeedlessRefusal
  ClientNeverAborts
  BestChoice
