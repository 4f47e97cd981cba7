\* Two tickets used from one address at the same time.
SPECIFICATION UdpSpec
CONSTANTS
  Matches = {m1}
  Players = {p1, p2}
  Addrs = {a1}
  JoinTasks = {j1, j2}
  ParamTasks = {}
  Kinds <- NoKinds
  ChannelCapacity = 1
  Hangups = TRUE
  FailingAddrs = {}
  Cooldown = 1
  MaxPlayers = 2
  TokenTTL = 1
  IdleTimeout = 9
  StagePool = 1
  StageOrderLen = 1
  StartTime = 1
  MaxTime = 1
  None = None
INVARIANTS OnePlayerPerAddress
