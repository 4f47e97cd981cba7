\* The caller of start_room hangs up while match_started is being sent.
SPECIFICATION SeatedSpec
CONSTANTS
  Matches = {m1}
  Players = {p1}
  Addrs = {a1}
  JoinTasks = {}
  ParamTasks = {}
  Kinds <- NoKinds
  ChannelCapacity = 1
  Hangups = TRUE
  FailingAddrs = {}
  Cooldown = 1
  MaxPlayers = 2
  TokenTTL = 1
  IdleTimeout = 9
  StagePool = 1
  StageOrderLen = 1
  StartTime = 1
  MaxTime = 1
  None = None
PROPERTIES StartReachesSessions
