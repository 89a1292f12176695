SPECIFICATION Spec
CONSTANTS
  c1 = c1
  c2 = c2
  a = a
  b = b
  Clients <- TwoClients
  Names <- TwoNames
  NoClient = NoClient
  NoName = NoName
  MaxPlayers = 2
  MaxRate = 1
  MaxBacklog = 2
SYMMETRY TwoClientsSymmetry
INVARIANT TypeOK
INVARIANT SlotsExact
INVARIANT OwnersOnline
INVARIANT SessionsExact
INVARIANT SingleWrite
INVARIANT CallbackTargetsAlive
PROPERTY OnlyOwnLogout
PROPERTY RejectionDelivered
PROPERTY AccountsSpec
