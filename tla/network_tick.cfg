SPECIFICATION Spec
CONSTANTS
  c1 = c1
  c2 = c2
  a = a
  b = b
  Clients <- TwoClients
  Names <- TwoNames
  NoClient = NoClient
  NoName = NoName
  MaxPlayers = 2
  MaxRate = 1
  MaxBacklog = 2
INVARIANT TickFindsClient
