---------------------------- MODULE MCClientLink ----------------------------
(* Instances of ClientLink for TLC. *)
EXTENDS ClientLink, TLC

NoKinds == {}
TwoKinds == {"gravity", "friction"}

Joined(m, p) == [NoClient EXCEPT !.pc = "joined", !.player = p, !.match = m]

\* The rooms in S were started empty at start, or are lobbies (0); then the players of
\* seat[m] joined, player p from the address at[p], and know it.
SeatedState(S, start, seat, at) ==
  /\ matches = S /\ drawnMatches = S
  /\ players = [m \in Matches |-> IF m \in S THEN seat[m] ELSE {}]
  /\ handle = [m \in Matches |-> NoHandles]
  /\ startedAt = [m \in Matches |-> IF m \in S THEN start ELSE 0]
  /\ lastActivity = [m \in Matches |-> IF m \in S THEN StartTime ELSE 0]
  /\ finished = [m \in Matches |-> <<>>]
  /\ joining = {} /\ now = StartTime /\ sweepAt = 0
  /\ LET home(p) == CHOOSE m \in S : p \in seat[m]
         in == UNION {seat[m] : m \in S}
         owner(a) == {p \in in : at[p] = a} IN
     /\ session = [a \in Addrs |-> IF owner(a) = {} THEN None ELSE
                     LET p == CHOOSE p \in owner(a) : TRUE IN
                     [match |-> home(p), player |-> p]]
     /\ connection = [p \in Players |-> IF p \in in THEN at[p] ELSE None]
     /\ sent = [a \in Addrs |-> IF owner(a) = {} THEN <<>> ELSE
                  LET p == CHOOSE p \in owner(a) : TRUE IN <<JoinOk(home(p), p)>>]
     /\ client = [a \in Addrs |-> IF owner(a) = {} THEN NoClient ELSE
                    LET p == CHOOSE p \in owner(a) : TRUE IN Joined(home(p), p)]
  /\ channel = [p \in Players |-> <<>>]
  /\ joinTask = [j \in JoinTasks |-> IdleJoin]
  /\ paramTask = [c \in ParamTasks |-> IdleParam]
  /\ relayTask = [r \in RelayTasks |-> IdleRelay]
  /\ casts = {}

\* States LinkSpec reaches: rooms have started empty, one client has joined one of
\* them, and there is a ticket for the same room or for another one.
GuestInit ==
  LET m == CHOOSE m \in Matches : TRUE
      p == CHOOSE p \in Players : TRUE
      a == CHOOSE a \in Addrs : TRUE IN
  /\ SeatedState(Matches, StartTime, [k \in Matches |-> IF k = m THEN {p} ELSE {}],
                 [q \in Players |-> a])
  /\ drawnPlayers = Players
  /\ \E n \in Matches, q \in Players \ {p} : tickets = {NewTicket(n, q)}

GuestSpec == GuestInit /\ [][LinkNext]_linkVars /\ LinkFairness

\* A state LinkSpec reaches: all have joined one lobby, each from an address of its own.
TableInit ==
  \E m \in Matches :
    /\ SeatedState({m}, 0, [k \in Matches |-> IF k = m THEN Players ELSE {}],
                   CHOOSE at \in [Players -> Addrs] :
                     \A p, q \in Players : p # q => at[p] # at[q])
    /\ tickets = {} /\ drawnPlayers = Players

TableSpec == TableInit /\ [][LinkNext]_linkVars /\ LinkFairness
=============================================================================
