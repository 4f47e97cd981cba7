\* Two rooms of two places, three players: full rooms, over-issued tickets,
\* joins into closed rooms, expired tickets, cleanups that read an old clock.
SPECIFICATION Spec
CONSTANTS
  Matches = {m1, m2}
  Players = {p1, p2, p3}
  Kinds <- NoKinds
  Cooldown = 1
  MaxPlayers = 2
  TokenTTL = 1
  IdleTimeout = 1
  StagePool = 1
  StageOrderLen = 1
  StartTime = 1
  MaxTime = 3
SYMMETRY Ids
INVARIANTS TypeOK SingleAdmission TicketsNameLiveRooms Layout
PROPERTIES SweepSparesActive ImplementsLifecycle ImplementsAdmission RankIsFinal LayoutIsFinal
