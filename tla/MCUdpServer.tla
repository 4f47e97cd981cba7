---------------------------- MODULE MCUdpServer -----------------------------
(* Instances of UdpServer for TLC. *)
EXTENDS UdpServer, TLC

Ids == Permutations(Players) \cup Permutations(Addrs) \cup Permutations(JoinTasks)
NoKinds == {}
OneKind == {"gravity"}

\* A state UdpSpec reaches: every room is a lobby in which every player has joined,
\* each from an address of its own, and heard so; no datagram is being handled.
SeatedInit ==
  \E m \in Matches, seat \in [Addrs -> Players] :
    /\ \A p \in Players : \E a \in Addrs : seat[a] = p
    /\ matches = {m} /\ drawnMatches = {m} /\ drawnPlayers = Players
    /\ players = [n \in Matches |-> IF n = m THEN Players ELSE {}]
    /\ handle = [n \in Matches |-> NoHandles]
    /\ startedAt = [n \in Matches |-> 0]
    /\ lastActivity = [n \in Matches |-> IF n = m THEN StartTime ELSE 0]
    /\ finished = [n \in Matches |-> <<>>]
    /\ tickets = {} /\ joining = {} /\ now = StartTime /\ sweepAt = 0
    /\ session = [a \in Addrs |-> [match |-> m, player |-> seat[a]]]
    /\ connection = [p \in Players |-> CHOOSE a \in Addrs : seat[a] = p]
    /\ channel = [p \in Players |-> <<>>]
    /\ joinTask = [j \in JoinTasks |-> IdleJoin]
    /\ paramTask = [c \in ParamTasks |-> IdleParam]
    /\ casts = {}
    /\ sent = [a \in Addrs |-> <<JoinOk(m, seat[a])>>]

SeatedSpec == SeatedInit /\ [][UdpNext]_allVars /\ UdpFairness
=============================================================================
