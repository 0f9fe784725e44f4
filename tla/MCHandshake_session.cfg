SPECIFICATION FairSpec
CONSTANTS
  ClientConfigs <- SessionClients
  ServerConfigs <- SessionServers
  Capacity = 2
  MaxWrites = 2
  MaxFaults = 1
INVARIANTS
  NoncesUnique
  DataUnderAppKeys
  NoProtocolError
PROPERTIES
  ImplementsSession
  HandshakeEnds
  CompatibleSucceeds
