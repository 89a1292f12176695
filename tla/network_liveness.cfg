SPECIFICATION FairSpec
CONSTANTS
  c1 = c1
  c2 = c2
  a = a
  b = b
  Clients <- TwoClients
  Names <- TwoNames
  NoClient = NoClient
  NoName = NoName
  MaxPlayers = 1
  MaxRate = 1
  MaxBacklog = 1
INVARIANT SlotsExact
INVARIANT OwnersOnline
PROPERTY RejectedCloses
PROPERTY DisconnectedFreed
