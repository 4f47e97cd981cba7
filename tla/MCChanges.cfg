\* One room, one client that has joined, two changes of one or two parameters in
\* either direction, a cooldown and an idle timeout of one second.
SPECIFICATION TableSpec
CONSTANTS
  Matches = {m1}
  Players = {p1}
  Addrs = {a1}
  JoinTasks = {}
  ParamTasks = {c1, c2}
  RelayTasks = {}
  Kinds <- TwoKinds
  ChannelCapacity = 1
  Hangups = FALSE
  FailingAddrs = {a1}
  Cooldown = 1
  MaxPlayers = 1
  TokenTTL = 1
  IdleTimeout = 1
  StagePool = 1
  StageOrderLen = 1
  StartTime = 1
  MaxTime = 2
  None = None
INVARIANTS TypeOK ChangesInPace ObservationsSound
PROPERTIES ExpiredLobbySwept
