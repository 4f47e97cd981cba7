---------------------------- MODULE ControlPlane ----------------------------
(***************************************************************************)
(* The state behind the realtime server's one core mutex (types.rs,        *)
(* CoreState) and every critical section that changes it: the gRPC control *)
(* plane (grpc_service.rs), ticket consumption (ticket.rs), registration   *)
(* and removal of players (player.rs), parameter changes and the match     *)
(* lifecycle (room.rs), and the room cleanup task (cleanup.rs).            *)
(*                                                                         *)
(* One action is one critical section.  Two operations span several: a     *)
(* join consumes its ticket and registers its player under two locks, and  *)
(* in between only the task remembers the player (joining); the cleanup    *)
(* reads the clock before it asks for the lock (sweepAt).                  *)
(*                                                                         *)
(* Ids are uuids, so a model value is drawn once and never again.  A token *)
(* is drawn together with its player and is identified with it.            *)
(***************************************************************************)
EXTENDS Integers, Sequences, FiniteSets, Params

CONSTANTS
  Matches,        \* match ids that can be drawn
  Players,        \* player ids (and tokens) that can be drawn
  Kinds,          \* the parameters clients change, a subset of ParamKind
  MaxPlayers,     \* ROOM_MAX_PLAYERS
  TokenTTL,       \* TOKEN_TTL_SECS
  IdleTimeout,    \* ROOM_IDLE_TIMEOUT_SECS
  StagePool,      \* MATCH_STAGE_POOL_SIZE
  StageOrderLen,  \* MATCH_STAGE_ORDER_LEN
  StartTime,      \* the clock when the server comes up
  MaxTime         \* bound: the clock stops here

ASSUME RoomAssumption == MaxPlayers \in Nat \ {0}
ASSUME TimeoutAssumption == TokenTTL \in Nat /\ IdleTimeout \in Nat \ {0}
ASSUME StageAssumption == StagePool \in Nat /\ StageOrderLen \in Nat
ASSUME KindsAssumption == Kinds \subseteq ParamKind
\* started_at_unix = 0 stands for "not started", so the epoch is excluded.
ASSUME ClockAssumption == /\ StartTime \in Nat \ {0}
                          /\ MaxTime \in Nat
                          /\ StartTime <= MaxTime

VARIABLES
  matches,       \* ids of the rooms in the table
  players,       \* per room, the ids registered in it
  handle,        \* per room and player, the PlayerHandle
  startedAt,     \* per room, started_at_unix
  lastActivity,  \* per room, last_activity_unix
  finished,      \* per room, finished_player_ids
  tickets,       \* unconsumed tickets
  joining,       \* tickets consumed by a task that has not registered yet
  now,           \* now_unix()
  sweepAt,       \* clock reading of the cleanup in progress, 0 if none
  drawnMatches,  \* match ids drawn so far
  drawnPlayers   \* player ids drawn so far

roomVars == <<matches, players, handle, startedAt, lastActivity, finished>>
drawnVars == <<drawnMatches, drawnPlayers>>
vars == <<roomVars, tickets, joining, now, sweepAt, drawnVars>>

-----------------------------------------------------------------------------
(* Data *)

Time == 0 .. MaxTime
Colours == 0 .. MaxPlayers - 1
NoColour == -1                       \* color_index: None

\* A shuffled stage pool cut to the order's length; <<>> before the start.
OrderLen == IF StageOrderLen <= StagePool THEN StageOrderLen ELSE StagePool
StageOrders ==
  {order \in [1 .. OrderLen -> 0 .. StagePool - 1] :
     \A i, j \in 1 .. OrderLen : order[i] = order[j] => i = j}

PlayerHandle == [params     : PlayerParams,
                 nextChange : 0 .. MaxTime + Cooldown,
                 colour     : Colours \cup {NoColour},
                 stages     : StageOrders \cup {<<>>}]

NewHandle == [params     |-> DefaultParams,
              nextChange |-> 0,
              colour     |-> NoColour,
              stages     |-> <<>>]

NoHandles == [p \in Players |-> NewHandle]

Ticket == [player : Players, match : Matches, expires : 0 .. MaxTime + TokenTTL]
Claim == [player : Players, match : Matches]

NewTicket(m, p) == [player |-> p, match |-> m, expires |-> now + TokenTTL]

Started(m) == startedAt[m] # 0
Full(m) == Cardinality(players[m]) >= MaxPlayers

\* Mutant: the ranking is not searched.
FinishersIgnored(m) == {}

Finishers(m) == {finished[m][i] : i \in DOMAIN finished[m]}

\* Mutant: using a room is not recorded.
TouchNothing(m) == UNCHANGED lastActivity

Touch(m) == lastActivity' = [lastActivity EXCEPT ![m] = now]

\* u64::saturating_sub
SatSub(a, b) == IF a >= b THEN a - b ELSE 0

-----------------------------------------------------------------------------
(* Initial state: an empty table; nothing survives a restart. *)

Init ==
  /\ matches = {}
  /\ players = [m \in Matches |-> {}]
  /\ handle = [m \in Matches |-> NoHandles]
  /\ startedAt = [m \in Matches |-> 0]
  /\ lastActivity = [m \in Matches |-> 0]
  /\ finished = [m \in Matches |-> <<>>]
  /\ tickets = {}
  /\ joining = {}
  /\ now = StartTime
  /\ sweepAt = 0
  /\ drawnMatches = {}
  /\ drawnPlayers = {}

-----------------------------------------------------------------------------
(* gRPC control plane *)

\* create_room.  Entries of ids outside the table hold an empty room.
CreateRoom(m) ==
  /\ m \notin drawnMatches
  /\ drawnMatches' = drawnMatches \cup {m}
  /\ matches' = matches \cup {m}
  /\ Touch(m)
  /\ UNCHANGED <<players, handle, startedAt, finished, tickets, joining, now,
                 sweepAt, drawnPlayers>>

\* issue_join_ticket: the size check counts the registered players only.
IssueJoinTicket(m, p) ==
  /\ m \in matches
  /\ ~Full(m)
  /\ p \notin drawnPlayers
  /\ drawnPlayers' = drawnPlayers \cup {p}
  /\ tickets' = tickets \cup {NewTicket(m, p)}
  /\ Touch(m)
  /\ UNCHANGED <<matches, players, handle, startedAt, finished, joining, now,
                 sweepAt, drawnMatches>>

\* Mutant: each player gets a random colour.
IndependentColourings(S) == [S -> Colours]

\* Colours handed out from a shuffled list until it is exhausted.
Colourings(S) ==
  {colouring \in [S -> Colours \cup {NoColour}] :
     /\ \A p, q \in S : p # q /\ colouring[p] = colouring[q]
                           => colouring[p] = NoColour
     /\ (\E p \in S : colouring[p] = NoColour)
           => \A c \in Colours : \E p \in S : colouring[p] = c}

\* assign_randomized_layout
WithLayout(handles, colouring, orders) ==
  [p \in Players |->
     IF p \in DOMAIN colouring
     THEN [handles[p] EXCEPT !.colour = colouring[p], !.stages = orders[p]]
     ELSE handles[p]]

\* Mutant: every start deals the layout anew.
StartableAgain(m) == m \in matches

Startable(m) == m \in matches /\ ~Started(m)

\* start_match_and_snapshot_players; a second start changes nothing.
StartRoom(m) ==
  /\ Startable(m)
  /\ startedAt' = [startedAt EXCEPT ![m] = now]
  /\ Touch(m)
  /\ \E colouring \in Colourings(players[m]), orders \in [players[m] -> StageOrders] :
       handle' = [handle EXCEPT ![m] = WithLayout(@, colouring, orders)]
  /\ UNCHANGED <<matches, players, finished, tickets, joining, now, sweepAt,
                 drawnVars>>

\* finish_player; a player already ranked keeps the rank.
FinishRoom(m, p) ==
  /\ m \in matches
  /\ Started(m)
  /\ p \in players[m]
  /\ p \notin Finishers(m)
  /\ finished' = [finished EXCEPT ![m] = Append(@, p)]
  /\ Touch(m)
  /\ UNCHANGED <<matches, players, handle, startedAt, tickets, joining, now,
                 sweepAt, drawnVars>>

\* Mutant: rooms go, their tickets stay.
TicketsAll(S) == tickets

TicketsWithout(S) == {t \in tickets : t.match \notin S}

\* Rooms leave the table together with the tickets that name them.
DropRooms(S) ==
  /\ matches' = matches \ S
  /\ players' = [m \in Matches |-> IF m \in S THEN {} ELSE players[m]]
  /\ handle' = [m \in Matches |-> IF m \in S THEN NoHandles ELSE handle[m]]
  /\ startedAt' = [m \in Matches |-> IF m \in S THEN 0 ELSE startedAt[m]]
  /\ lastActivity' = [m \in Matches |-> IF m \in S THEN 0 ELSE lastActivity[m]]
  /\ finished' = [m \in Matches |-> IF m \in S THEN <<>> ELSE finished[m]]
  /\ tickets' = TicketsWithout(S)

\* delete_room
DeleteRoom(m) ==
  /\ m \in matches
  /\ DropRooms({m})
  /\ UNCHANGED <<joining, now, sweepAt, drawnVars>>

-----------------------------------------------------------------------------
(* Joins, as the UDP server performs them *)

\* Mutant: the ticket is looked up instead of taken out.
LookUpTicket(t) ==
  /\ t \in tickets
  /\ joining' = IF t.expires < now
                THEN joining
                ELSE joining \cup {[player |-> t.player, match |-> t.match]}
  /\ UNCHANGED <<roomVars, tickets, now, sweepAt, drawnVars>>

\* consume_ticket: an expired ticket is gone all the same.
ConsumeTicket(t) ==
  /\ t \in tickets
  /\ tickets' = tickets \ {t}
  /\ joining' = IF t.expires < now
                THEN joining
                ELSE joining \cup {[player |-> t.player, match |-> t.match]}
  /\ UNCHANGED <<roomVars, now, sweepAt, drawnVars>>

\* Mutants: the room is not looked up again; the size check is off by one.
AdmissibleAnywhere(m, p) == Full(m) => p \in players[m]
AdmissibleOneMore(m, p) ==
  m \in matches /\ (Cardinality(players[m]) > MaxPlayers => p \in players[m])

Admissible(m, p) == m \in matches /\ (Full(m) => p \in players[m])

\* register_player_udp: the room may have closed or filled up meanwhile, and
\* then the ticket is lost.  A player already there keeps the handle's data.
RegisterPlayer(c) ==
  /\ c \in joining
  /\ joining' = joining \ {c}
  /\ \/ /\ Admissible(c.match, c.player)
        /\ players' = [players EXCEPT ![c.match] = @ \cup {c.player}]
        /\ handle' = [handle EXCEPT ![c.match][c.player] =
                        IF c.player \in players[c.match] THEN @ ELSE NewHandle]
        /\ Touch(c.match)
     \/ /\ ~Admissible(c.match, c.player)
        /\ UNCHANGED <<players, handle, lastActivity>>
  /\ UNCHANGED <<matches, startedAt, finished, tickets, now, sweepAt, drawnVars>>

\* Mutant: whoever is removed from the room is taken out of the ranking, too.
RemovePlayerAndRank(m, p) ==
  /\ m \in matches
  /\ p \in players[m]
  /\ players' = [players EXCEPT ![m] = @ \ {p}]
  /\ handle' = [handle EXCEPT ![m][p] = NewHandle]
  /\ finished' = [finished EXCEPT ![m] = SelectSeq(@, LAMBDA q : q # p)]
  /\ Touch(m)
  /\ UNCHANGED <<matches, startedAt, tickets, joining, now, sweepAt, drawnVars>>

\* remove_player, called for a player whose JoinOk could not be sent.
RemovePlayer(m, p) ==
  /\ m \in matches
  /\ p \in players[m]
  /\ players' = [players EXCEPT ![m] = @ \ {p}]
  /\ handle' = [handle EXCEPT ![m][p] = NewHandle]
  /\ Touch(m)
  /\ UNCHANGED <<matches, startedAt, finished, tickets, joining, now, sweepAt,
                 drawnVars>>

\* update_player_params
UpdatePlayerParams(m, p, param, direction) ==
  LET h == handle[m][p] IN
  /\ m \in matches
  /\ p \in players[m]
  /\ ChangeAccepted(h.params, h.nextChange, param, direction, now)
  /\ handle' = [handle EXCEPT ![m][p].params = ChangedParams(@, param, direction),
                              ![m][p].nextChange = NextChangeAfter(now)]
  /\ Touch(m)
  /\ UNCHANGED <<matches, players, startedAt, finished, tickets, joining, now,
                 sweepAt, drawnVars>>

-----------------------------------------------------------------------------
(* The cleanup task and the clock *)

\* delete_stale_lobby_rooms reads the clock, then waits for the lock.
SweepBegin ==
  /\ sweepAt = 0
  /\ sweepAt' = now
  /\ UNCHANGED <<roomVars, tickets, joining, now, drawnVars>>

\* Mutant: a room idle for exactly the timeout is kept.
StaleLater(time) ==
  {m \in matches : ~Started(m) /\ SatSub(time, lastActivity[m]) > IdleTimeout}

Stale(time) ==
  {m \in matches : ~Started(m) /\ SatSub(time, lastActivity[m]) >= IdleTimeout}

SweepApply ==
  /\ sweepAt # 0
  /\ DropRooms(Stale(sweepAt))
  /\ sweepAt' = 0
  /\ UNCHANGED <<joining, now, drawnVars>>

Tick ==
  /\ now < MaxTime
  /\ now' = now + 1
  /\ UNCHANGED <<roomVars, tickets, joining, sweepAt, drawnVars>>

-----------------------------------------------------------------------------
Next ==
  \/ \E m \in Matches : CreateRoom(m) \/ StartRoom(m) \/ DeleteRoom(m)
  \/ \E m \in Matches, p \in Players :
        IssueJoinTicket(m, p) \/ FinishRoom(m, p) \/ RemovePlayer(m, p)
  \/ \E t \in tickets : ConsumeTicket(t)
  \/ \E c \in joining : RegisterPlayer(c)
  \/ \E m \in Matches, p \in Players, param \in Kinds, direction \in ParamDirection :
        UpdatePlayerParams(m, p, param, direction)
  \/ SweepBegin
  \/ SweepApply
  \/ Tick

Spec == Init /\ [][Next]_vars

\* The cleanup loop runs for ever and the core mutex is granted in order.
SweepFairness == WF_vars(SweepBegin) /\ WF_vars(SweepApply)
FairSpec == Spec /\ SweepFairness
-----------------------------------------------------------------------------
(* Safety *)

\* The type of every variable, and the shape of an id that is not in the
\* table: nothing of a closed room lingers.
TypeOK ==
  /\ matches \subseteq drawnMatches
  /\ drawnMatches \subseteq Matches
  /\ drawnPlayers \subseteq Players
  /\ players \in [Matches -> SUBSET drawnPlayers]
  /\ handle \in [Matches -> [Players -> PlayerHandle]]
  /\ startedAt \in [Matches -> Time]
  /\ lastActivity \in [Matches -> Time]
  /\ finished \in [Matches -> Seq(drawnPlayers)]
  /\ tickets \subseteq Ticket
  /\ joining \subseteq Claim
  /\ \A t \in tickets \cup joining : t.player \in drawnPlayers
  /\ now \in StartTime .. MaxTime
  /\ sweepAt \in 0 .. now
  /\ \A m \in Matches \ matches : /\ players[m] = {}
                                /\ startedAt[m] = 0
                                /\ finished[m] = <<>>

\* A player id is in one place only: in a ticket, in the hands of one joining
\* task, or in one room (or nowhere).  So a ticket admits at most once, however
\* its two critical sections interleave with everything else, and
\* register_player_udp never meets the id it is about to insert.
SingleAdmission ==
  /\ \A t, u \in tickets \cup joining : t.player = u.player => t = u
  /\ \A t \in tickets, c \in joining : t.player # c.player
  /\ \A t \in tickets \cup joining, m \in Matches : t.player \notin players[m]
  /\ \A m, n \in Matches : m # n => players[m] \cap players[n] = {}

\* No room holds more players than ROOM_MAX_PLAYERS, although tickets are issued
\* against the registered players and may outnumber the free places.
Capacity == \A m \in Matches : Cardinality(players[m]) <= MaxPlayers

\* Every unconsumed ticket names a room of the table: delete_room and the cleanup
\* take the tickets along with the rooms they remove.
TicketsNameLiveRooms == \A t \in tickets : t.match \in matches

\* Nobody in a lobby has a colour or a stage order, and two players of a room
\* never share a colour, whoever came after the start or left since.
Layout ==
  \A m \in Matches : \A p \in players[m] :
    LET h == handle[m][p] IN
    /\ ~Started(m) => h.colour = NoColour /\ h.stages = <<>>
    /\ h.colour # NoColour =>
         \A q \in players[m] \ {p} : handle[m][q].colour # h.colour

-----------------------------------------------------------------------------
(* Action properties *)

\* Starting a room gives a colour and a stage order to everyone in it, and what
\* the start fixed stays as it is for as long as the player is in the room: a
\* second start_room, or a late join, never deals the layout again.
LayoutIsFinal ==
  [][\A m \in matches \cap matches' : \A p \in players[m] \cap players'[m] :
       /\ ~Started(m) /\ Started(m)' => handle'[m][p].colour # NoColour
       /\ Started(m) => /\ startedAt'[m] = startedAt[m]
                        /\ handle'[m][p].colour = handle[m][p].colour
                        /\ handle'[m][p].stages = handle[m][p].stages]_vars

\* The cleanup removes a room only if it is a lobby that has been idle for the
\* whole timeout when it is removed, although the clock was read before the lock
\* was taken; in particular it revokes no ticket issued within the timeout.
SweepSparesActive ==
  [][sweepAt # 0 /\ sweepAt' = 0 =>
       /\ \A m \in matches \ matches' :
             ~Started(m) /\ now >= lastActivity[m] + IdleTimeout
       /\ \A t \in tickets \ tickets' :
             now >= (t.expires - TokenTTL) + IdleTimeout]_vars

\* At time t player p of room m had the parameters v.
Had(v, t, m, p) == p \in players[m] /\ handle[m][p].params = v /\ now = t

\* Between v and what p has now lie no more steps than cooldowns have ended since t,
\* and the one that may have been due then.
WithinPace(v, t, m, p) ==
  p \in players[m] =>
    (ParamDistance(v, handle[m][p].params) - 1) * Cooldown <= now - t

\* In no stretch of time does anybody move faster than a step per cooldown, whichever
\* of the parameters the steps are spread over, and whenever the player came: a client
\* cannot buy an extra step by changing another parameter, by a change that is refused,
\* or by asking twice at once (update_player_params, apply_param_change).
ParamRate ==
  \A v \in PlayerParams, t \in Time, m \in Matches, p \in Players :
    [](Had(v, t, m, p) => []WithinPace(v, t, m, p))

-----------------------------------------------------------------------------
(* Refinement of the abstract life of a match *)

PhaseOf(m) == CASE m \notin drawnMatches -> "unborn"
                [] m \in drawnMatches \ matches -> "closed"
                [] m \in matches /\ ~Started(m) -> "lobby"
                [] m \in matches /\ Started(m) -> "running"

Lifecycle == INSTANCE MatchLifecycle
               WITH phase <- [m \in Matches |-> PhaseOf(m)],
                    roster <- players,
                    ranking <- finished

\* The control plane implements the life of a match as MatchLifecycle states it.
ImplementsLifecycle == Lifecycle!Spec

\* finished_player_ids names nobody twice, although players leave and others take
\* their places, and a room that has not started has none (finish_player).
RankingSound == Lifecycle!RankingSound

\* The rank finish_player told a player stays that player's rank while the room
\* is there, whoever finishes, leaves or joins later.
RankIsFinal == Lifecycle!RankIsFinal

-----------------------------------------------------------------------------
(* Refinement of admission *)

\* Who holds a ticket, or has consumed it and is about to register, may come; a join
\* whose room has closed meanwhile has lost its invitation.
Invitations ==
  {<<t.player, t.match>> : t \in {u \in tickets \cup joining : u.match \in matches}}

Guests == INSTANCE Admission
            WITH open <- matches, known <- drawnPlayers,
                 invited <- Invitations, seated <- players

\* Rooms are entered with a ticket for them, once, while there is a place, and never
\* again by whoever has used or lost it, however the two critical sections of a join
\* interleave with expiry, deletion and the cleanup.
ImplementsAdmission == Guests!Spec

\* Whoever has lost the ticket, or the place, gets in nowhere any more: no join that
\* is still under way brings a removed player back (consume_ticket, remove_player).
OutForGood == Guests!OutForGood

-----------------------------------------------------------------------------
(* Liveness *)

LobbyExpired(m) ==
  m \in matches /\ ~Started(m) /\ now >= lastActivity[m] + IdleTimeout

\* Nothing keeps the cleanup from its next step.
CleanupCanStep ==
  /\ sweepAt = 0 => ENABLED <<SweepBegin>>_vars
  /\ ~(sweepAt = 0) => ENABLED <<SweepApply>>_vars

\* A lobby does not stay expired: the cleanup removes it, unless somebody uses it
\* or starts it first.
ExpiredLobbySwept == \A m \in Matches : LobbyExpired(m) ~> ~LobbyExpired(m)
=============================================================================
