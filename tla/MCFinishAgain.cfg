\* A player finishes while the answer to the join fails to be sent.
SPECIFICATION UdpSpec
CONSTANTS
  Matches = {m1}
  Players = {p1}
  Addrs = {a1}
  JoinTasks = {j1}
  ParamTasks = {}
  Kinds <- NoKinds
  ChannelCapacity = 1
  Hangups = TRUE
  FailingAddrs = {a1}
  Cooldown = 1
  MaxPlayers = 2
  TokenTTL = 1
  IdleTimeout = 9
  StagePool = 1
  StageOrderLen = 1
  StartTime = 1
  MaxTime = 1
  None = None
INVARIANTS FinishIsRepeatable
