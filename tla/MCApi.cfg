\* Two requests, and a third that was made and abandoned before them, around one room of
\* one place: whoever else joins has to wait for it; the clock ticks once; no
\* symmetry, because one property is a liveness property.
SPECIFICATION OneRoomSpec
CONSTANTS
  Matches = {m1}
  Players = {p1, p2}
  Requests = {r1, r2, r3}
  Kinds <- NoKinds
  Cooldown = 1
  MaxPlayers = 1
  TokenTTL = 1
  IdleTimeout = 1
  StagePool = 1
  StageOrderLen = 1
  StartTime = 1
  MaxTime = 2
  None = None
INVARIANTS ApiTypeOK AnswersAgree AnswersInOrder DeleteIsFinal HandlersNeverBlocked
PROPERTIES RestartsOnlyClose RequestsAnswered
