---------------------------- MODULE MCApiServer -----------------------------
(* Instances of ApiServer for TLC. *)
EXTENDS ApiServer

NoKinds == {}

\* One request belongs to the time before: it is over, or it was a start, or a finish,
\* whose client hung up, and its call is still on its way.
Earlier == CHOOSE r \in Requests : TRUE

LateCalls(m, S) ==
  IF Started(m) THEN {Fresh("gone", "finish", m, p, {}) : p \in S}
  ELSE {Fresh("gone", "start", m, None, {}) : p \in S}

Afterwards(late) ==
  /\ queue = <<>>
  /\ \E past \in {Gone} \cup late :
       /\ request = [r \in Requests |-> IF r = Earlier THEN past ELSE Unsent]
       /\ call = [r \in Requests |-> IF r # Earlier THEN "none"
                                     ELSE IF past \in late THEN "sent" ELSE "over"]

\* A state ApiSpec reaches: one room, a lobby or running, which the players of S have
\* joined.
RoomWith(S) ==
  \E m \in Matches, started \in BOOLEAN :
    /\ matches = {m} /\ drawnMatches = {m} /\ drawnPlayers = S
    /\ players = [n \in Matches |-> IF n = m THEN S ELSE {}]
    /\ startedAt = [n \in Matches |-> IF n = m /\ started THEN StartTime ELSE 0]
    /\ lastActivity = [n \in Matches |-> IF n = m THEN StartTime ELSE 0]
    /\ finished = [n \in Matches |-> <<>>]
    /\ tickets = {} /\ joining = {} /\ now = StartTime /\ sweepAt = 0
    /\ \E colouring \in Colourings(S), orders \in [S -> StageOrders] :
         handle = [n \in Matches |->
                     IF n = m /\ started THEN WithLayout(NoHandles, colouring, orders)
                     ELSE NoHandles]
    /\ Afterwards(LateCalls(m, S))

\* No room, or one that nobody has joined yet, or all but one have.
OneRoomInit ==
  \/ Init /\ Afterwards({})
  \/ RoomWith({})
  \/ RoomWith(Players \ {CHOOSE p \in Players : TRUE})

OneRoomSpec == OneRoomInit /\ [][ApiNext]_everything /\ ApiFairness
=============================================================================
