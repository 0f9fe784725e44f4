SPECIFICATION Spec
CONSTANTS
  ClientConfigs <- AuthClients
  ServerConfigs <- AuthServers
  Capacity = 8
  MaxWrites = 0
  MaxFaults = 0
INVARIANTS
  TypeOK
  Agreement
  ScriptInv
  ClientAuthenticated
  ServerAuthenticatedFirst
  OnlyCompatible
