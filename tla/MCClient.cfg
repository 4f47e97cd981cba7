\* Two rooms that have started, one client in the first, a ticket for either; the
\* second client's join datagram arrives up to twice, one datagram is relayed.
SPECIFICATION GuestSpec
CONSTANTS
  Matches = {m1, m2}
  Players = {p1, p2}
  Addrs = {a1, a2}
  JoinTasks = {j1, j2}
  ParamTasks = {}
  RelayTasks = {r1}
  Kinds <- NoKinds
  ChannelCapacity = 1
  Hangups = FALSE
  FailingAddrs = {a1, a2}
  Cooldown = 1
  MaxPlayers = 2
  TokenTTL = 1
  IdleTimeout = 9
  StagePool = 1
  StageOrderLen = 1
  StartTime = 1
  MaxTime = 1
  None = None
INVARIANTS JoinedIsSeated RefusedIsOut RelayStaysInRoom SeatedIsAnswered
PROPERTIES JoinEnds
