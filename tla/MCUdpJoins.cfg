\* One room, two players, two addresses, two join datagrams: duplicates of one
\* join, two joins of one address, joins around a start and around a deletion; a
\* ticket lasts for the second it was issued in, and the clock ticks once.
SPECIFICATION UdpSpec
CONSTANTS
  Matches = {m1}
  Players = {p1, p2}
  Addrs = {a1, a2}
  JoinTasks = {j1, j2}
  ParamTasks = {}
  Kinds <- NoKinds
  ChannelCapacity = 1
  Hangups = TRUE
  FailingAddrs = {a1, a2}
  Cooldown = 1
  MaxPlayers = 2
  TokenTTL = 0
  IdleTimeout = 9
  StagePool = 1
  StageOrderLen = 1
  StartTime = 1
  MaxTime = 2
  None = None
SYMMETRY Ids
INVARIANTS UdpTypeOK ClaimsHeld SessionsAreBacked LayoutAsAnnounced
PROPERTIES ImplementsControlPlane
