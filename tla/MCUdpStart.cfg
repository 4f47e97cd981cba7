\* One room, two clients, one parameter change, channels that hold one message:
\* a broadcast meets full channels; fairness of tasks and pump, no symmetry.
SPECIFICATION SeatedSpec
CONSTANTS
  Matches = {m1}
  Players = {p1, p2}
  Addrs = {a1, a2}
  JoinTasks = {}
  ParamTasks = {c1}
  Kinds <- OneKind
  ChannelCapacity = 1
  Hangups = FALSE
  FailingAddrs = {a2}
  Cooldown = 1
  MaxPlayers = 2
  TokenTTL = 1
  IdleTimeout = 9
  StagePool = 1
  StageOrderLen = 1
  StartTime = 1
  MaxTime = 1
  None = None
INVARIANTS StartNeverLost
PROPERTIES StartReachesSessions
