------------------------- MODULE ControlPlaneProofs -------------------------
(***************************************************************************)
(* Theorems about ControlPlane, for every number of rooms and players and  *)
(* every value of the timeouts.                                            *)
(***************************************************************************)
EXTENDS ControlPlane, FiniteSetTheorems, FunctionTheorems, TLAPS

-----------------------------------------------------------------------------
(* Lemmas about the data *)

\* Constants that are numbers, collected once.
LEMMA ConstantTypes ==
  /\ Cooldown \in Nat /\ TokenTTL \in Nat /\ IdleTimeout \in Nat \ {0}
  /\ MaxPlayers \in Nat \ {0} /\ StartTime \in Nat \ {0} /\ MaxTime \in Nat
  /\ StartTime <= MaxTime /\ Kinds \subseteq ParamKind
BY CooldownAssumption, RoomAssumption, TimeoutAssumption, KindsAssumption,
   ClockAssumption

\* apply_param_change keeps every parameter within its bounds (params.rs).
LEMMA ChangeStaysInBounds ==
  ASSUME NEW params \in PlayerParams, NEW param \in ParamKind,
         NEW direction, NEW nextChange, NEW time,
         ChangeAccepted(params, nextChange, param, direction, time)
  PROVE  ChangedParams(params, param, direction) \in PlayerParams
<1>1. /\ Candidate(params[param], direction) \in Bounds(param)
      /\ Bounds(param) \subseteq 1 .. 3
  BY DEF ChangeAccepted, Bounds
<1> QED
  BY <1>1 DEF ChangedParams, PlayerParams

\* A freshly registered player's handle is a handle.
LEMMA NewHandleType == NewHandle \in PlayerHandle
<1>1. DefaultParams \in PlayerParams
  BY DEF DefaultParams, PlayerParams, Bounds, DefaultLevel, ParamKind
<1> QED
  BY <1>1, ConstantTypes DEF NewHandle, PlayerHandle

\* assign_randomized_layout touches colours and stage orders only.
LEMMA WithLayoutType ==
  ASSUME NEW S \in SUBSET Players, NEW colouring \in Colourings(S),
         NEW orders \in [S -> StageOrders],
         NEW handles \in [Players -> PlayerHandle]
  PROVE  WithLayout(handles, colouring, orders) \in [Players -> PlayerHandle]
<1>1. colouring \in [S -> Colours \cup {NoColour}]
  BY DEF Colourings
<1>2. ASSUME NEW p \in S
      PROVE  [handles[p] EXCEPT !.colour = colouring[p], !.stages = orders[p]]
                \in PlayerHandle
  BY <1>1 DEF PlayerHandle
<1> QED
  BY <1>1, <1>2 DEF WithLayout

\* So does a parameter change to the parameters and the cooldown.
LEMMA ChangeOfHandleType ==
  ASSUME NEW h \in PlayerHandle, NEW param, NEW direction, NEW time,
         ChangedParams(h.params, param, direction) \in PlayerParams,
         NextChangeAfter(time) \in 0 .. MaxTime + Cooldown
  PROVE  [h EXCEPT !.params = ChangedParams(@, param, direction),
                   !.nextChange = NextChangeAfter(time)] \in PlayerHandle
BY DEF PlayerHandle

-----------------------------------------------------------------------------
(* Type correctness *)

\* An empty table is well typed (CoreState::default, types.rs).
LEMMA TypeInit == Init => TypeOK
BY ConstantTypes, NewHandleType DEF Init, TypeOK, NoHandles, Time

\* Every critical section of the core mutex keeps the state well typed.
LEMMA TypeStep == TypeOK /\ [Next]_vars => TypeOK'
<1> SUFFICES ASSUME TypeOK, [Next]_vars PROVE TypeOK'
  OBVIOUS
<1> USE ConstantTypes DEF TypeOK, Time, roomVars, drawnVars, Touch
<1>1. ASSUME NEW m \in Matches, CreateRoom(m) PROVE TypeOK'
  BY <1>1 DEF CreateRoom
<1>2. ASSUME NEW m \in Matches, StartRoom(m) PROVE TypeOK'
  <2>1. PICK colouring \in Colourings(players[m]),
             orders \in [players[m] -> StageOrders] :
          handle' = [handle EXCEPT ![m] = WithLayout(@, colouring, orders)]
    BY <1>2 DEF StartRoom, Startable
  <2>2. WithLayout(handle[m], colouring, orders) \in [Players -> PlayerHandle]
    BY WithLayoutType
  <2>3. handle' \in [Matches -> [Players -> PlayerHandle]]
    BY <2>1, <2>2
  <2> QED
    BY <1>2, <2>3 DEF StartRoom, Startable
<1>3. ASSUME NEW S \in SUBSET matches, DropRooms(S),
             now' = now, sweepAt' \in {0, sweepAt},
             UNCHANGED <<joining, drawnVars>>
      PROVE  TypeOK'
  BY <1>3, NewHandleType DEF DropRooms, TicketsWithout, NoHandles
<1>4. ASSUME NEW m \in Matches, DeleteRoom(m) PROVE TypeOK'
  BY <1>3, <1>4 DEF DeleteRoom
<1>5. ASSUME NEW m \in Matches, NEW p \in Players, IssueJoinTicket(m, p)
      PROVE  TypeOK'
  BY <1>5 DEF IssueJoinTicket, NewTicket, Ticket
<1>6. ASSUME NEW m \in Matches, NEW p \in Players, FinishRoom(m, p)
      PROVE  TypeOK'
  BY <1>6 DEF FinishRoom
<1>7. ASSUME NEW m \in Matches, NEW p \in Players, RemovePlayer(m, p)
      PROVE  TypeOK'
  BY <1>7, NewHandleType DEF RemovePlayer
<1>8. ASSUME NEW t \in tickets, ConsumeTicket(t) PROVE TypeOK'
  BY <1>8 DEF ConsumeTicket, Ticket, Claim
<1>9. ASSUME NEW c \in joining, RegisterPlayer(c) PROVE TypeOK'
  <2>1. c \in Claim /\ c.match \in Matches /\ c.player \in drawnPlayers
    BY <1>9 DEF Claim
  <2>2. CASE Admissible(c.match, c.player)
    <3> DEFINE h == IF c.player \in players[c.match]
                    THEN handle[c.match][c.player] ELSE NewHandle
    <3>1. /\ c.match \in matches
          /\ joining' = joining \ {c}
          /\ players' = [players EXCEPT ![c.match] = @ \cup {c.player}]
          /\ handle' = [handle EXCEPT ![c.match][c.player] = h]
          /\ lastActivity' = [lastActivity EXCEPT ![c.match] = now]
          /\ UNCHANGED <<matches, startedAt, finished, tickets, now, sweepAt,
                         drawnMatches, drawnPlayers>>
      BY <1>9, <2>2 DEF RegisterPlayer, Admissible
    <3>2. h \in PlayerHandle
      BY <2>1, NewHandleType
    <3>3. handle' \in [Matches -> [Players -> PlayerHandle]]
      BY <3>1, <3>2
    <3>4. players' \in [Matches -> SUBSET drawnPlayers]
      BY <2>1, <3>1
    <3> HIDE DEF h
    <3> QED
      BY <2>1, <3>1, <3>3, <3>4
  <2>3. CASE ~Admissible(c.match, c.player)
    BY <1>9, <2>3 DEF RegisterPlayer
  <2> QED
    BY <2>2, <2>3
<1>10. ASSUME NEW m \in Matches, NEW p \in Players, NEW param \in Kinds,
              NEW direction \in ParamDirection,
              UpdatePlayerParams(m, p, param, direction)
       PROVE  TypeOK'
  <2> DEFINE h == handle[m][p]
             g == [h EXCEPT !.params = ChangedParams(@, param, direction),
                            !.nextChange = NextChangeAfter(now)]
  <2>1. ChangedParams(h.params, param, direction) \in PlayerParams
    BY <1>10, ChangeStaysInBounds DEF UpdatePlayerParams, PlayerHandle
  <2>2. g \in PlayerHandle
    <3>1. NextChangeAfter(now) \in 0 .. MaxTime + Cooldown
      BY DEF NextChangeAfter
    <3> HIDE DEF TypeOK
    <3>2. h \in PlayerHandle
      BY DEF TypeOK
    <3> QED
      BY <2>1, <3>1, <3>2, ChangeOfHandleType
  <2>3. handle' = [handle EXCEPT ![m][p] = g]
    BY <1>10 DEF UpdatePlayerParams
  <2>4. handle' \in [Matches -> [Players -> PlayerHandle]]
    BY <2>2, <2>3
  <2> QED
    BY <1>10, <2>4 DEF UpdatePlayerParams
<1>11. CASE SweepBegin
  BY <1>11 DEF SweepBegin
<1>12. CASE SweepApply
  BY <1>3, <1>12 DEF SweepApply, Stale
<1>13. CASE Tick
  BY <1>13 DEF Tick, Ticket
<1>14. CASE UNCHANGED vars
  BY <1>14 DEF vars
<1> QED
  BY <1>1, <1>2, <1>4, <1>5, <1>6, <1>7, <1>8, <1>9, <1>10, <1>11, <1>12,
     <1>13, <1>14 DEF Next, Ticket, Claim

\* Every reachable state has the declared type, and nothing of a closed room
\* lingers in the table (CoreState, types.rs).
THEOREM TypeCorrect == Spec => []TypeOK
BY TypeInit, TypeStep, PTL DEF Spec
-----------------------------------------------------------------------------
(* A ticket admits once *)

\* No critical section gives an id to a second ticket, claim or room.
LEMMA AdmissionStep == TypeOK /\ SingleAdmission /\ [Next]_vars => SingleAdmission'
<1> SUFFICES ASSUME TypeOK, SingleAdmission, [Next]_vars
             PROVE  SingleAdmission'
  OBVIOUS
<1> USE DEF SingleAdmission, roomVars, drawnVars
<1>1. ASSUME NEW S \in SUBSET matches, DropRooms(S), UNCHANGED joining
      PROVE  SingleAdmission'
  <2>1. tickets' \subseteq tickets /\ joining' = joining
    BY <1>1 DEF DropRooms, TicketsWithout
  <2>2. \A m \in Matches : players'[m] \subseteq players[m]
    BY <1>1 DEF DropRooms, TicketsWithout
  <2> QED
    BY <2>1, <2>2
<1>2. ASSUME NEW m \in Matches, NEW p \in Players, IssueJoinTicket(m, p)
      PROVE  SingleAdmission'
  <2>1. /\ tickets' = tickets \cup {NewTicket(m, p)}
        /\ UNCHANGED <<joining, players>>
        /\ p \notin drawnPlayers
        /\ NewTicket(m, p).player = p
    BY <1>2 DEF IssueJoinTicket, NewTicket
  <2>2. /\ \A t \in tickets \cup joining : t.player # p
        /\ \A n \in Matches : p \notin players[n]
    BY <2>1 DEF TypeOK
  <2> QED
    BY <2>1, <2>2
<1>3. ASSUME NEW m \in Matches, NEW p \in Players, RemovePlayer(m, p)
      PROVE  SingleAdmission'
  <2>1. \A n \in Matches : players'[n] \subseteq players[n]
    BY <1>3 DEF RemovePlayer, TypeOK
  <2> QED
    BY <1>3, <2>1 DEF RemovePlayer
<1>4. ASSUME NEW t \in tickets, ConsumeTicket(t) PROVE SingleAdmission'
  <2> DEFINE c == [player |-> t.player, match |-> t.match]
  <2>1. /\ tickets' = tickets \ {t}
        /\ joining' \subseteq joining \cup {c}
        /\ players' = players
    BY <1>4 DEF ConsumeTicket
  <2>2. c.player = t.player
    OBVIOUS
  <2> HIDE DEF c
  <2> QED
    BY <2>1, <2>2
<1>5. ASSUME NEW c \in joining, RegisterPlayer(c) PROVE SingleAdmission'
  <2>1. /\ tickets' = tickets
        /\ joining' = joining \ {c}
        /\ \/ players' = [players EXCEPT ![c.match] = @ \cup {c.player}]
           \/ players' = players
    BY <1>5 DEF RegisterPlayer
  <2>2. \A n \in Matches : players'[n] \subseteq players[n] \cup {c.player}
    BY <2>1 DEF TypeOK
  <2>3. \A n \in Matches : n # c.match => players'[n] = players[n]
    BY <2>1 DEF TypeOK
  <2>4. \A t \in tickets' \cup joining' : t.player # c.player
    BY <2>1
  <2>5. \A n \in Matches : c.player \notin players[n]
    OBVIOUS
  <2>6. \A m, n \in Matches : m # n => players'[m] \cap players'[n] = {}
    BY <2>2, <2>3, <2>5
  <2> QED
    BY <2>1, <2>2, <2>4, <2>6
<1>6. CASE UNCHANGED <<tickets, joining, players>>
  BY <1>6
<1>7. ASSUME NEW m \in Matches, DeleteRoom(m) PROVE SingleAdmission'
  BY <1>1, <1>7 DEF DeleteRoom
<1>8. CASE SweepApply
  BY <1>1, <1>8 DEF SweepApply, Stale
<1> HIDE DEF SingleAdmission
<1>9. ASSUME NEW m \in Matches, CreateRoom(m) PROVE SingleAdmission'
  BY <1>6, <1>9 DEF CreateRoom
<1>10. ASSUME NEW m \in Matches, StartRoom(m) PROVE SingleAdmission'
  BY <1>6, <1>10 DEF StartRoom, Startable
<1>11. ASSUME NEW m \in Matches, NEW p \in Players, FinishRoom(m, p)
      PROVE  SingleAdmission'
  BY <1>6, <1>11 DEF FinishRoom
<1>12. ASSUME NEW m \in Matches, NEW p \in Players, NEW param \in Kinds,
             NEW direction \in ParamDirection,
             UpdatePlayerParams(m, p, param, direction)
      PROVE  SingleAdmission'
  BY <1>6, <1>12 DEF UpdatePlayerParams
<1>13. CASE SweepBegin
  BY <1>6, <1>13 DEF SweepBegin
<1>14. CASE Tick
  BY <1>6, <1>14 DEF Tick
<1>15. CASE UNCHANGED vars
  BY <1>6, <1>15 DEF vars, roomVars, drawnVars
<1> QED
  BY <1>2, <1>3, <1>4, <1>5, <1>7, <1>8, <1>9, <1>10, <1>11, <1>12,
     <1>13, <1>14, <1>15 DEF Next

\* A player id is in one ticket, one joining task or one room: consume_ticket
\* takes the ticket out under the lock, and the id is registered at most once.
THEOREM AdmitsOnce == Spec => []SingleAdmission
<1>1. Init => SingleAdmission
  BY DEF Init, SingleAdmission
<1> QED
  BY <1>1, AdmissionStep, TypeCorrect, PTL DEF Spec

-----------------------------------------------------------------------------
(* Rooms never overfill *)

\* The size check of register_player_udp keeps a roster in bounds.
LEMMA RosterGrows ==
  ASSUME NEW S, IsFiniteSet(S), Cardinality(S) <= MaxPlayers,
         NEW p, p \in S \/ Cardinality(S) < MaxPlayers
  PROVE  IsFiniteSet(S \cup {p}) /\ Cardinality(S \cup {p}) <= MaxPlayers
<1>1. Cardinality(S) \in Nat
  BY FS_CardinalityType
<1>2. /\ IsFiniteSet(S \cup {p})
      /\ Cardinality(S \cup {p}) = IF p \in S THEN Cardinality(S)
                                             ELSE Cardinality(S) + 1
  BY FS_AddElement
<1> QED
  BY <1>1, <1>2, ConstantTypes

\* A removal keeps a roster finite and within its bound (remove_player).
LEMMA RosterShrinks ==
  ASSUME NEW S, IsFiniteSet(S), Cardinality(S) <= MaxPlayers, NEW p
  PROVE  IsFiniteSet(S \ {p}) /\ Cardinality(S \ {p}) <= MaxPlayers
<1>1. Cardinality(S) \in Nat
  BY FS_CardinalityType
<1>2. /\ IsFiniteSet(S \ {p})
      /\ Cardinality(S \ {p}) = IF p \in S THEN Cardinality(S) - 1
                                          ELSE Cardinality(S)
  BY FS_RemoveElement
<1> QED
  BY <1>1, <1>2, ConstantTypes

\* Capacity, of rosters whose cardinality means something.
RostersFit ==
  \A m \in Matches : /\ IsFiniteSet(players[m])
                    /\ Cardinality(players[m]) <= MaxPlayers

\* The inductive form of Capacity: cardinalities mean something only for finite
\* sets, and register_player_udp is the one place where a roster grows.
LEMMA RostersStep == TypeOK /\ RostersFit /\ [Next]_vars => RostersFit'
<1> SUFFICES ASSUME TypeOK, RostersFit, [Next]_vars PROVE RostersFit'
  OBVIOUS
<1> USE ConstantTypes DEF RostersFit, roomVars, drawnVars
<1>1. ASSUME NEW S \in SUBSET matches, DropRooms(S) PROVE RostersFit'
  BY <1>1, FS_EmptySet DEF DropRooms, TicketsWithout
<1>2. ASSUME NEW m \in Matches, NEW p \in Players, RemovePlayer(m, p)
      PROVE  RostersFit'
  <2>1. players' = [players EXCEPT ![m] = @ \ {p}]
    BY <1>2 DEF RemovePlayer
  <2>2. /\ IsFiniteSet(players[m] \ {p})
        /\ Cardinality(players[m] \ {p}) <= MaxPlayers
    BY RosterShrinks
  <2> QED
    BY <2>1, <2>2 DEF TypeOK
<1>3. ASSUME NEW c \in joining, RegisterPlayer(c) PROVE RostersFit'
  <2> DEFINE m == c.match
             p == c.player
  <2>1. CASE players' = players
    BY <2>1
  <2>2. CASE /\ players' = [players EXCEPT ![m] = @ \cup {p}]
             /\ Admissible(m, p)
    <3>1. m \in Matches
      BY <2>2 DEF Admissible, TypeOK
    <3>2. IsFiniteSet(players[m]) /\ Cardinality(players[m]) \in Nat
      BY <3>1, FS_CardinalityType
    <3>3. p \in players[m] \/ Cardinality(players[m]) < MaxPlayers
      BY <2>2, <3>2 DEF Admissible, Full
    <3>4. /\ IsFiniteSet(players[m] \cup {p})
          /\ Cardinality(players[m] \cup {p}) <= MaxPlayers
      BY <3>1, <3>2, <3>3, RosterGrows
    <3> QED
      BY <2>2, <3>4 DEF TypeOK
  <2> QED
    BY <1>3, <2>1, <2>2 DEF RegisterPlayer
<1>4. CASE UNCHANGED players
  BY <1>4
<1> HIDE DEF RostersFit
<1>5. ASSUME NEW m \in Matches, DeleteRoom(m) PROVE RostersFit'
  BY <1>1, <1>5 DEF DeleteRoom
<1>6. CASE SweepApply
  BY <1>1, <1>6 DEF SweepApply, Stale
<1>7. ASSUME NEW m \in Matches, CreateRoom(m) PROVE RostersFit'
  BY <1>4, <1>7 DEF CreateRoom
<1>8. ASSUME NEW m \in Matches, NEW p \in Players, IssueJoinTicket(m, p)
      PROVE  RostersFit'
  BY <1>4, <1>8 DEF IssueJoinTicket
<1>9. ASSUME NEW t \in tickets, ConsumeTicket(t) PROVE RostersFit'
  BY <1>4, <1>9 DEF ConsumeTicket
<1>10. ASSUME NEW m \in Matches, StartRoom(m) PROVE RostersFit'
  BY <1>4, <1>10 DEF StartRoom, Startable
<1>11. ASSUME NEW m \in Matches, NEW p \in Players, FinishRoom(m, p)
      PROVE  RostersFit'
  BY <1>4, <1>11 DEF FinishRoom
<1>12. ASSUME NEW m \in Matches, NEW p \in Players, NEW param \in Kinds,
             NEW direction \in ParamDirection,
             UpdatePlayerParams(m, p, param, direction)
      PROVE  RostersFit'
  BY <1>4, <1>12 DEF UpdatePlayerParams
<1>13. CASE SweepBegin
  BY <1>4, <1>13 DEF SweepBegin
<1>14. CASE Tick
  BY <1>4, <1>14 DEF Tick
<1>15. CASE UNCHANGED vars
  BY <1>4, <1>15 DEF vars, roomVars, drawnVars
<1> QED
  BY <1>2, <1>3, <1>5, <1>6, <1>7, <1>8, <1>9, <1>10, <1>11, <1>12,
     <1>13, <1>14, <1>15 DEF Next

\* So rosters stay finite and within their bound.
LEMMA RostersAlwaysFit == Spec => []RostersFit
<1>1. Init => RostersFit
  BY FS_EmptySet, ConstantTypes DEF Init, RostersFit
<1> QED
  BY <1>1, RostersStep, TypeCorrect, PTL DEF Spec

\* register_player_udp checks the size and inserts under one lock, so no
\* interleaving of joins fills a room beyond ROOM_MAX_PLAYERS.
THEOREM NeverOverfull == Spec => []Capacity
<1>1. RostersFit => Capacity
  BY DEF RostersFit, Capacity
<1> QED
  BY <1>1, RostersAlwaysFit, PTL

-----------------------------------------------------------------------------
(* Tickets and the cleanup *)

\* Whatever removes a room removes its tickets in the same critical section.
LEMMA TicketsStep == TicketsNameLiveRooms /\ [Next]_vars => TicketsNameLiveRooms'
<1> SUFFICES ASSUME TicketsNameLiveRooms, [Next]_vars
             PROVE  TicketsNameLiveRooms'
  OBVIOUS
<1> USE DEF TicketsNameLiveRooms, roomVars, drawnVars
<1>1. ASSUME NEW S \in SUBSET matches, DropRooms(S)
      PROVE  TicketsNameLiveRooms'
  BY <1>1 DEF DropRooms, TicketsWithout
<1>2. ASSUME NEW m \in Matches, NEW p \in Players, IssueJoinTicket(m, p)
      PROVE  TicketsNameLiveRooms'
  BY <1>2 DEF IssueJoinTicket, NewTicket
<1>3. CASE matches \subseteq matches' /\ tickets' \subseteq tickets
  BY <1>3
<1> HIDE DEF TicketsNameLiveRooms
<1>4. ASSUME NEW m \in Matches, DeleteRoom(m) PROVE TicketsNameLiveRooms'
  BY <1>1, <1>4 DEF DeleteRoom
<1>5. CASE SweepApply
  BY <1>1, <1>5 DEF SweepApply, Stale
<1>6. ASSUME NEW m \in Matches, CreateRoom(m) PROVE TicketsNameLiveRooms'
  BY <1>3, <1>6 DEF CreateRoom
<1>7. ASSUME NEW m \in Matches, StartRoom(m) PROVE TicketsNameLiveRooms'
  BY <1>3, <1>7 DEF StartRoom, Startable
<1>8. ASSUME NEW m \in Matches, NEW p \in Players, FinishRoom(m, p)
      PROVE  TicketsNameLiveRooms'
  BY <1>3, <1>8 DEF FinishRoom
<1>9. ASSUME NEW m \in Matches, NEW p \in Players, RemovePlayer(m, p)
      PROVE  TicketsNameLiveRooms'
  BY <1>3, <1>9 DEF RemovePlayer
<1>10. ASSUME NEW t \in tickets, ConsumeTicket(t) PROVE TicketsNameLiveRooms'
  BY <1>3, <1>10 DEF ConsumeTicket
<1>11. ASSUME NEW c \in joining, RegisterPlayer(c) PROVE TicketsNameLiveRooms'
  BY <1>3, <1>11 DEF RegisterPlayer
<1>12. ASSUME NEW m \in Matches, NEW p \in Players, NEW param \in Kinds,
             NEW direction \in ParamDirection,
             UpdatePlayerParams(m, p, param, direction)
      PROVE  TicketsNameLiveRooms'
  BY <1>3, <1>12 DEF UpdatePlayerParams
<1>13. CASE SweepBegin
  BY <1>3, <1>13 DEF SweepBegin
<1>14. CASE Tick
  BY <1>3, <1>14 DEF Tick
<1>15. CASE UNCHANGED vars
  BY <1>3, <1>15 DEF vars, roomVars, drawnVars
<1> QED
  BY <1>2, <1>4, <1>5, <1>6, <1>7, <1>8, <1>9, <1>10, <1>11, <1>12,
     <1>13, <1>14, <1>15 DEF Next

\* No unconsumed ticket names a room that is gone (delete_room, the cleanup).
THEOREM TicketsFollowRooms == Spec => []TicketsNameLiveRooms
<1>1. Init => TicketsNameLiveRooms
  BY DEF Init, TicketsNameLiveRooms
<1> QED
  BY <1>1, TicketsStep, PTL DEF Spec

\* No activity lies in the future, and issuing a ticket counts as activity.
ActivityCovers ==
  /\ \A m \in Matches : lastActivity[m] <= now
  /\ \A t \in tickets : t.expires <= lastActivity[t.match] + TokenTTL

\* issue_join_ticket touches the room it issues for, so an unconsumed ticket is
\* never younger than the room's last activity.
LEMMA ActivityCoversTickets == Spec => []ActivityCovers
<1>1. Init => ActivityCovers
  BY ConstantTypes DEF Init, ActivityCovers
<1>2. TypeOK /\ ActivityCovers /\ [Next]_vars => ActivityCovers'
  <2> SUFFICES ASSUME TypeOK, ActivityCovers, [Next]_vars
               PROVE  ActivityCovers'
    OBVIOUS
  <2>0. /\ now \in Nat /\ TokenTTL \in Nat
        /\ \A m \in Matches : lastActivity[m] \in Nat
        /\ \A t \in tickets : t.match \in Matches /\ t.expires \in Nat
    BY ConstantTypes DEF TypeOK, Time, Ticket
  <2> USE DEF ActivityCovers
  <2>1. ASSUME NEW S \in SUBSET matches, DropRooms(S), now' = now
        PROVE  ActivityCovers'
    BY <2>0, <2>1 DEF DropRooms, TicketsWithout
  <2>2. ASSUME NEW m \in Matches, NEW p \in Players, IssueJoinTicket(m, p)
        PROVE  ActivityCovers'
    <3>1. /\ tickets' = tickets \cup {NewTicket(m, p)}
          /\ lastActivity' = [lastActivity EXCEPT ![m] = now]
          /\ now' = now
      BY <2>2 DEF IssueJoinTicket, Touch
    <3>2. NewTicket(m, p).match = m /\ NewTicket(m, p).expires = now + TokenTTL
      BY DEF NewTicket
    <3>3. lastActivity \in [Matches -> Time]
      BY DEF TypeOK
    <3> QED
      BY <2>0, <3>1, <3>2, <3>3
  <2>3. ASSUME NEW m \in Matches, Touch(m), tickets' \subseteq tickets, now' = now
        PROVE  ActivityCovers'
    BY <2>0, <2>3 DEF Touch, TypeOK
  <2>4. ASSUME lastActivity' = lastActivity, tickets' \subseteq tickets,
               now' \in {now, now + 1}
        PROVE  ActivityCovers'
    BY <2>0, <2>4
  <2>5. ASSUME NEW c \in joining, RegisterPlayer(c) PROVE ActivityCovers'
    BY <2>3, <2>4, <2>5 DEF RegisterPlayer, TypeOK, Claim
  <2> HIDE DEF ActivityCovers
  <2>6. ASSUME NEW m \in Matches, DeleteRoom(m) PROVE ActivityCovers'
    BY <2>1, <2>6 DEF DeleteRoom
  <2>7. CASE SweepApply
    BY <2>1, <2>7 DEF SweepApply, Stale
  <2>8. ASSUME NEW m \in Matches, CreateRoom(m) PROVE ActivityCovers'
    BY <2>3, <2>8 DEF CreateRoom
  <2>9. ASSUME NEW m \in Matches, StartRoom(m) PROVE ActivityCovers'
    BY <2>3, <2>9 DEF StartRoom, Startable
  <2>10. ASSUME NEW m \in Matches, NEW p \in Players, FinishRoom(m, p)
        PROVE  ActivityCovers'
    BY <2>3, <2>10 DEF FinishRoom
  <2>11. ASSUME NEW m \in Matches, NEW p \in Players, RemovePlayer(m, p)
        PROVE  ActivityCovers'
    BY <2>3, <2>11 DEF RemovePlayer
  <2>12. ASSUME NEW m \in Matches, NEW p \in Players, NEW param \in Kinds,
               NEW direction \in ParamDirection,
               UpdatePlayerParams(m, p, param, direction)
        PROVE  ActivityCovers'
    BY <2>3, <2>12 DEF UpdatePlayerParams
  <2>13. ASSUME NEW t \in tickets, ConsumeTicket(t) PROVE ActivityCovers'
    BY <2>4, <2>13 DEF ConsumeTicket, roomVars
  <2>14. CASE SweepBegin
    BY <2>4, <2>14 DEF SweepBegin, roomVars
  <2>15. CASE Tick
    BY <2>4, <2>15 DEF Tick, roomVars
  <2>16. CASE UNCHANGED vars
    BY <2>4, <2>16 DEF vars, roomVars, drawnVars
  <2> QED
    BY <2>2, <2>5, <2>6, <2>7, <2>8, <2>9, <2>10, <2>11, <2>12, <2>13,
       <2>14, <2>15, <2>16 DEF Next
<1> QED
  BY <1>1, <1>2, TypeCorrect, PTL DEF Spec

\* The cleanup task removes lobbies that are idle at the moment they are removed
\* and revokes no young ticket, whatever happened between its clock reading and
\* its lock.
THEOREM CleanupSparesActive == Spec => SweepSparesActive
<1> DEFINE Spared ==
      sweepAt # 0 /\ sweepAt' = 0 =>
        /\ \A m \in matches \ matches' :
              ~Started(m) /\ now >= lastActivity[m] + IdleTimeout
        /\ \A t \in tickets \ tickets' :
              now >= (t.expires - TokenTTL) + IdleTimeout
<1>1. TypeOK /\ ActivityCovers /\ [Next]_vars => [Spared]_vars
  <2> SUFFICES ASSUME TypeOK, ActivityCovers, Next, sweepAt # 0, sweepAt' = 0
               PROVE  Spared
    BY DEF vars
  <2>1. SweepApply
    <3>1. ASSUME NEW m \in Matches, CreateRoom(m) \/ StartRoom(m) \/ DeleteRoom(m)
          PROVE  FALSE
      BY <3>1 DEF CreateRoom, StartRoom, Startable, DeleteRoom
    <3>2. ASSUME NEW m \in Matches, NEW p \in Players,
                 IssueJoinTicket(m, p) \/ FinishRoom(m, p) \/ RemovePlayer(m, p)
          PROVE  FALSE
      BY <3>2 DEF IssueJoinTicket, FinishRoom, RemovePlayer
    <3>3. ASSUME NEW t \in tickets, ConsumeTicket(t) PROVE FALSE
      BY <3>3 DEF ConsumeTicket
    <3>4. ASSUME NEW c \in joining, RegisterPlayer(c) PROVE FALSE
      BY <3>4 DEF RegisterPlayer
    <3>5. ASSUME NEW m \in Matches, NEW p \in Players, NEW param \in Kinds,
                 NEW direction \in ParamDirection,
                 UpdatePlayerParams(m, p, param, direction)
          PROVE  FALSE
      BY <3>5 DEF UpdatePlayerParams
    <3>6. ASSUME SweepBegin \/ Tick PROVE FALSE
      BY <3>6 DEF SweepBegin, Tick
    <3> HIDE DEF Spared
    <3> QED
      BY <3>1, <3>2, <3>3, <3>4, <3>5, <3>6 DEF Next
  <2>2. /\ now \in Nat /\ sweepAt \in Nat /\ sweepAt <= now
        /\ IdleTimeout \in Nat \ {0} /\ TokenTTL \in Nat
        /\ \A m \in Matches : lastActivity[m] \in Nat
        /\ \A t \in tickets : t.match \in Matches /\ t.expires \in Nat
    BY ConstantTypes DEF TypeOK, Time, Ticket
  <2>3. \A m \in Stale(sweepAt) :
          ~Started(m) /\ now >= lastActivity[m] + IdleTimeout
    BY <2>2 DEF Stale, SatSub, TypeOK
  <2>4. /\ matches \ matches' \subseteq Stale(sweepAt)
        /\ \A t \in tickets \ tickets' : t.match \in Stale(sweepAt)
    BY <2>1 DEF SweepApply, DropRooms, TicketsWithout
  <2> QED
    BY <2>2, <2>3, <2>4 DEF ActivityCovers
<1> QED
  BY <1>1, TypeCorrect, ActivityCoversTickets, PTL DEF Spec, SweepSparesActive

-----------------------------------------------------------------------------
(* Parameters drift at the pace of the cooldown *)

\* Three parameters, each at most two levels from any other (params.rs).
LEMMA DistanceRange ==
  ASSUME NEW v \in PlayerParams, NEW params \in PlayerParams
  PROVE  ParamDistance(v, params) \in 0 .. 6
<1>1. \A param \in ParamKind : Apart(v[param], params[param]) \in 0 .. 2
  BY DEF PlayerParams, Apart
<1> QED
  BY <1>1 DEF ParamDistance, ParamKind

LEMMA NoDistance ==
  ASSUME NEW v \in PlayerParams
  PROVE  ParamDistance(v, v) = 0
<1>1. \A param \in ParamKind : Apart(v[param], v[param]) = 0
  BY DEF PlayerParams, Apart
<1> QED
  BY <1>1 DEF ParamDistance, ParamKind

\* One accepted change is one step away from anywhere at most.
LEMMA DistanceStep ==
  ASSUME NEW v \in PlayerParams, NEW params \in PlayerParams, NEW param \in ParamKind,
         NEW direction \in ParamDirection, NEW nextChange, NEW time,
         ChangeAccepted(params, nextChange, param, direction, time)
  PROVE  ParamDistance(v, ChangedParams(params, param, direction))
            <= ParamDistance(v, params) + 1
<1> DEFINE changed == ChangedParams(params, param, direction)
<1>1. /\ params \in [ParamKind -> 1 .. 3]
      /\ changed = [params EXCEPT ![param] = Candidate(params[param], direction)]
  BY DEF PlayerParams, ChangedParams
<1>2. Candidate(params[param], direction) \in
        {params[param] - 1, params[param] + 1}
  <2>1. params[param] \in 1 .. 3
    BY <1>1
  <2> QED
    BY <2>1 DEF Candidate, ParamDirection
<1>3. changed \in PlayerParams
  BY ChangeStaysInBounds
<1>4. Apart(v[param], changed[param]) <= Apart(v[param], params[param]) + 1
  <2>1. v[param] \in Int /\ params[param] \in Int
    BY DEF PlayerParams
  <2>2. changed[param] \in {params[param] - 1, params[param] + 1}
    BY <1>1, <1>2
  <2> HIDE DEF changed
  <2> QED
    BY <2>1, <2>2 DEF Apart
<1>5. \A other \in ParamKind \ {param} : changed[other] = params[other]
  BY <1>1
<1>6. \A any \in ParamKind : /\ Apart(v[any], params[any]) \in 0 .. 2
                             /\ Apart(v[any], changed[any]) \in 0 .. 2
  <2> HIDE DEF changed
  <2> QED
    BY <1>3 DEF PlayerParams, Apart
<1> SUFFICES ParamDistance(v, changed) <= ParamDistance(v, params) + 1
  OBVIOUS
<1> HIDE DEF changed
<1>7. CASE param = "gravity"
  BY <1>4, <1>5, <1>6, <1>7 DEF ParamDistance, ParamKind
<1>8. CASE param = "friction"
  BY <1>4, <1>5, <1>6, <1>8 DEF ParamDistance, ParamKind
<1>9. CASE param = "speed"
  BY <1>4, <1>5, <1>6, <1>9 DEF ParamDistance, ParamKind
<1> QED
  BY <1>7, <1>8, <1>9 DEF ParamKind

\* The two fields of a handle that apply_param_change reads and writes.
SameParams(g, h) == g.params = h.params /\ g.nextChange = h.nextChange

\* A change that was accepted takes h to g.
ChangedTo(h, g) ==
  \E param \in ParamKind, direction \in ParamDirection :
    /\ ChangeAccepted(h.params, h.nextChange, param, direction, now)
    /\ g.params = ChangedParams(h.params, param, direction)
    /\ g.nextChange = NextChangeAfter(now)

\* p has just come into room m, by a claim.
Enters(m, p) ==
  /\ p \notin players[m]
  /\ \E c \in joining : c.player = p
  /\ SameParams(handle'[m][p], NewHandle)

\* Whoever is in a room after a step was there before, with the same parameters or an
\* accepted change of them, or has just come.
Moved(m, p) ==
  \/ p \in players[m] /\ SameParams(handle'[m][p], handle[m][p]) /\ now <= now'
  \/ p \in players[m] /\ ChangedTo(handle[m][p], handle'[m][p]) /\ now' = now
  \/ Enters(m, p) /\ now' = now

LEMMA HandleStep ==
  ASSUME TypeOK, [Next]_vars, NEW n \in Matches, NEW q \in players'[n]
  PROVE  Moved(n, q)
<1>0. /\ now \in Nat
      /\ handle \in [Matches -> [Players -> PlayerHandle]]
      /\ players \in [Matches -> SUBSET drawnPlayers]
      /\ \A m \in Matches : players[m] \subseteq Players
  BY ConstantTypes DEF TypeOK
<1>1. ASSUME now <= now', q \in players[n],
             SameParams(handle'[n][q], handle[n][q])
      PROVE  Moved(n, q)
  BY <1>1 DEF Moved
<1>2. ASSUME UNCHANGED <<players, handle, now>> PROVE Moved(n, q)
  BY <1>0, <1>1, <1>2 DEF SameParams
<1>3. ASSUME NEW m \in Matches, StartRoom(m) PROVE Moved(n, q)
  <2>1. PICK colouring \in Colourings(players[m]),
             orders \in [players[m] -> StageOrders] :
          handle' = [handle EXCEPT ![m] = WithLayout(@, colouring, orders)]
    BY <1>3 DEF StartRoom, Startable
  <2>2. \A p \in Players :
          SameParams(WithLayout(handle[m], colouring, orders)[p], handle[m][p])
    BY <1>0 DEF WithLayout, PlayerHandle, SameParams
  <2>3. players' = players /\ now' = now /\ q \in Players
    BY <1>0, <1>3 DEF StartRoom, Startable
  <2>4. SameParams(handle'[n][q], handle[n][q])
    BY <1>0, <2>1, <2>2, <2>3 DEF SameParams
  <2> QED
    BY <1>0, <1>1, <2>3, <2>4
<1>4. ASSUME NEW S \in SUBSET matches, DropRooms(S), now' = now PROVE Moved(n, q)
  BY <1>0, <1>1, <1>4 DEF DropRooms, TicketsWithout, SameParams
<1>5. ASSUME NEW m \in Matches, NEW p \in Players, RemovePlayer(m, p) PROVE Moved(n, q)
  BY <1>0, <1>1, <1>5 DEF RemovePlayer, SameParams
<1>6. ASSUME NEW c \in joining, RegisterPlayer(c) PROVE Moved(n, q)
  <2>1. now' = now /\ c.match \in Matches /\ c.player \in Players
    BY <1>6 DEF RegisterPlayer, TypeOK, Claim
  <2>2. CASE UNCHANGED <<players, handle>>
    BY <1>2, <2>1, <2>2
  <2>3. CASE /\ players' = [players EXCEPT ![c.match] = @ \cup {c.player}]
             /\ handle' = [handle EXCEPT ![c.match][c.player] =
                             IF c.player \in players[c.match] THEN @ ELSE NewHandle]
    <3>1. CASE q \in players[n]
      <4>1. handle'[n][q] = handle[n][q]
        BY <1>0, <2>1, <2>3, <3>1
      <4> QED
        BY <1>0, <1>1, <2>1, <3>1, <4>1 DEF SameParams
    <3>2. CASE q \notin players[n]
      <4>1. n = c.match /\ q = c.player
        BY <1>0, <2>1, <2>3, <3>2
      <4>2. handle'[n][q] = NewHandle
        BY <1>0, <2>1, <2>3, <3>2, <4>1
      <4> QED
        BY <2>1, <3>2, <4>1, <4>2 DEF Moved, Enters, SameParams
    <3> QED
      BY <3>1, <3>2
  <2> QED
    BY <1>6, <2>2, <2>3 DEF RegisterPlayer
<1>7. ASSUME NEW m \in Matches, NEW p \in Players, NEW param \in Kinds,
             NEW direction \in ParamDirection,
             UpdatePlayerParams(m, p, param, direction)
      PROVE  Moved(n, q)
  <2> DEFINE h == handle[m][p]
             g == [h EXCEPT !.params = ChangedParams(@, param, direction),
                            !.nextChange = NextChangeAfter(now)]
  <2>1. /\ handle' = [handle EXCEPT ![m][p] = g]
        /\ players' = players /\ now' = now
        /\ ChangeAccepted(h.params, h.nextChange, param, direction, now)
    BY <1>7 DEF UpdatePlayerParams
  <2>2. /\ g.params = ChangedParams(h.params, param, direction)
        /\ g.nextChange = NextChangeAfter(now)
        /\ param \in ParamKind
    BY <1>0, KindsAssumption DEF PlayerHandle
  <2> HIDE DEF g
  <2>3. CASE n = m /\ q = p
    <3>1. handle'[n][q] = g
      BY <1>0, <2>1, <2>3
    <3>2. ChangedTo(handle[n][q], handle'[n][q])
      BY <2>1, <2>2, <2>3, <3>1 DEF ChangedTo
    <3> QED
      BY <2>1, <3>2 DEF Moved
  <2>4. CASE ~(n = m /\ q = p)
    <3>1. handle'[n][q] = handle[n][q] /\ q \in players[n]
      BY <1>0, <2>1, <2>4
    <3> QED
      BY <1>0, <1>1, <2>1, <3>1 DEF SameParams
  <2> QED
    BY <2>3, <2>4
<1>8. CASE Tick
  BY <1>0, <1>1, <1>8 DEF Tick, roomVars, SameParams
<1>9. ASSUME NEW m \in Matches, DeleteRoom(m) PROVE Moved(n, q)
  BY <1>4, <1>9 DEF DeleteRoom
<1>10. CASE SweepApply
  BY <1>4, <1>10 DEF SweepApply, Stale
<1>11. ASSUME NEW m \in Matches, CreateRoom(m) PROVE Moved(n, q)
  BY <1>2, <1>11 DEF CreateRoom
<1>12. ASSUME NEW m \in Matches, NEW p \in Players, IssueJoinTicket(m, p)
       PROVE  Moved(n, q)
  BY <1>2, <1>12 DEF IssueJoinTicket
<1>13. ASSUME NEW t \in tickets, ConsumeTicket(t) PROVE Moved(n, q)
  BY <1>2, <1>13 DEF ConsumeTicket, roomVars
<1>14. ASSUME NEW m \in Matches, NEW p \in Players, FinishRoom(m, p) PROVE Moved(n, q)
  BY <1>2, <1>14 DEF FinishRoom
<1>15. CASE SweepBegin
  BY <1>2, <1>15 DEF SweepBegin, roomVars
<1>16. CASE UNCHANGED vars
  BY <1>2, <1>16 DEF vars, roomVars, drawnVars
<1> QED
  BY <1>3, <1>5, <1>6, <1>7, <1>8, <1>9, <1>10, <1>11, <1>12, <1>13, <1>14, <1>15,
     <1>16 DEF Next

\* Nobody waits longer than a cooldown.
SoonAllowed ==
  \A m \in Matches : \A p \in players[m] : handle[m][p].nextChange <= now + Cooldown

\* Whoever has registered is not on the way in, and never will be again.
OnTheWay(p) == \E t \in tickets \cup joining : t.player = p
HasCome(p) == p \in drawnPlayers /\ ~OnTheWay(p)

\* What handle h has paid for its distance from v, where it was at time t: a cooldown for
\* every step.
Paid(v, t, h) ==
  \/ ParamDistance(v, h.params) = 0
  \/ ParamDistance(v, h.params) * Cooldown <= h.nextChange - t

Pace(v, t, m, p) ==
  /\ t <= now
  /\ HasCome(p)
  /\ p \in players[m] => Paid(v, t, handle[m][p])

\* A change accepted by apply_param_change is paid for by the cooldown it waited.
LEMMA ChangePays ==
  ASSUME NEW v \in PlayerParams, NEW t \in Nat, NEW h \in PlayerHandle, NEW g,
         now \in Nat, t <= now, Paid(v, t, h), ChangedTo(h, g)
  PROVE  Paid(v, t, g) /\ g.nextChange = now + Cooldown
<1>0. PICK param \in ParamKind, direction \in ParamDirection :
        /\ ChangeAccepted(h.params, h.nextChange, param, direction, now)
        /\ g.params = ChangedParams(h.params, param, direction)
        /\ g.nextChange = NextChangeAfter(now)
  BY DEF ChangedTo
<1> DEFINE d == ParamDistance(v, h.params)
           e == ParamDistance(v, g.params)
<1>1. h.params \in PlayerParams /\ h.nextChange \in Nat
  BY ConstantTypes DEF PlayerHandle
<1>2. g.params \in PlayerParams
  BY <1>0, <1>1, ChangeStaysInBounds
<1>3. d \in 0 .. 6 /\ e \in 0 .. 6
  BY <1>1, <1>2, DistanceRange
<1>9. e <= d + 1
  BY <1>0, <1>1, DistanceStep
<1>4. h.nextChange <= now /\ g.nextChange = now + Cooldown
  BY <1>0 DEF ChangeAccepted, NextChangeAfter
<1>5. d = 0 \/ d * Cooldown <= h.nextChange - t
  BY DEF Paid
<1> HIDE DEF d, e
<1>6. e * Cooldown <= d * Cooldown + Cooldown
  BY <1>3, <1>9, ConstantTypes
<1>7. d * Cooldown <= now - t
  <2>1. CASE d = 0
    BY <2>1, ConstantTypes
  <2>2. CASE d * Cooldown <= h.nextChange - t
    <3>1. d * Cooldown \in Int
      BY <1>3, ConstantTypes
    <3> QED
      BY <3>1, <2>2, <1>1, <1>4, ConstantTypes
  <2> QED
    BY <1>5, <2>1, <2>2
<1>8. e * Cooldown <= g.nextChange - t
  <2>1. d * Cooldown \in Int /\ e * Cooldown \in Int
    BY <1>3, ConstantTypes
  <2> QED
    BY <2>1, <1>4, <1>6, <1>7, ConstantTypes
<1> QED
  BY <1>4, <1>8, ConstantTypes DEF Paid, e

LEMMA SoonStep == TypeOK /\ SoonAllowed /\ [Next]_vars => SoonAllowed'
<1> SUFFICES ASSUME TypeOK, SoonAllowed, [Next]_vars, NEW m \in Matches, NEW p \in players'[m]
             PROVE  handle'[m][p].nextChange <= now' + Cooldown
  BY DEF SoonAllowed
<1>1. Moved(m, p)
  BY HandleStep
<1>2. now \in Nat /\ now' \in Nat
  BY TypeStep, ConstantTypes DEF TypeOK
<1>3. CASE p \in players[m] /\ SameParams(handle'[m][p], handle[m][p]) /\ now <= now'
  <2>1. handle[m][p].nextChange \in Nat
    BY <1>3, ConstantTypes DEF TypeOK, PlayerHandle
  <2>2. handle[m][p].nextChange <= now + Cooldown
    BY <1>3 DEF SoonAllowed
  <2> QED
    BY <1>2, <1>3, <2>1, <2>2, ConstantTypes DEF SameParams
<1>4. CASE ChangedTo(handle[m][p], handle'[m][p]) /\ now' = now
  BY <1>2, <1>4, ConstantTypes DEF ChangedTo, NextChangeAfter
<1>5. CASE Enters(m, p) /\ now' = now
  BY <1>2, <1>5, ConstantTypes DEF Enters, SameParams, NewHandle
<1> QED
  BY <1>1, <1>3, <1>4, <1>5 DEF Moved

\* A player id that has registered is not drawn again, and its ticket is gone.
LEMMA ArrivedStays ==
  ASSUME TypeOK, [Next]_vars, NEW p, HasCome(p)
  PROVE  HasCome(p)'
<1>1. ASSUME drawnPlayers \subseteq drawnPlayers',
             \A t \in tickets' \cup joining' : t \in tickets \cup joining
      PROVE  HasCome(p)'
  BY <1>1 DEF HasCome, OnTheWay
<1>2. ASSUME NEW m \in Matches, NEW q \in Players, IssueJoinTicket(m, q)
      PROVE  HasCome(p)'
  BY <1>2 DEF IssueJoinTicket, HasCome, OnTheWay, NewTicket
<1>3. ASSUME NEW t \in tickets, ConsumeTicket(t) PROVE HasCome(p)'
  BY <1>3 DEF ConsumeTicket, HasCome, OnTheWay, drawnVars
<1>4. ASSUME NEW m \in Matches, CreateRoom(m) \/ StartRoom(m) \/ DeleteRoom(m)
      PROVE  HasCome(p)'
  BY <1>1, <1>4 DEF CreateRoom, StartRoom, Startable, DeleteRoom, DropRooms,
     TicketsWithout, drawnVars
<1>8. ASSUME NEW m \in Matches, NEW q \in Players, RemovePlayer(m, q) \/ FinishRoom(m, q)
      PROVE  HasCome(p)'
  BY <1>1, <1>8 DEF RemovePlayer, FinishRoom, drawnVars
<1>5. ASSUME NEW c \in joining, RegisterPlayer(c) PROVE HasCome(p)'
  BY <1>1, <1>5 DEF RegisterPlayer, drawnVars
<1>6. ASSUME NEW m \in Matches, NEW q \in Players, NEW param \in Kinds,
             NEW direction \in ParamDirection, UpdatePlayerParams(m, q, param, direction)
      PROVE  HasCome(p)'
  BY <1>1, <1>6 DEF UpdatePlayerParams, drawnVars
<1>7. CASE SweepBegin \/ SweepApply \/ Tick \/ UNCHANGED vars
  BY <1>1, <1>7 DEF SweepBegin, SweepApply, DropRooms, TicketsWithout, Tick, vars,
     drawnVars
<1> QED
  BY <1>2, <1>3, <1>4, <1>5, <1>6, <1>7, <1>8 DEF Next

LEMMA PaceKept ==
  ASSUME NEW v \in PlayerParams, NEW t \in Nat, NEW m \in Matches, NEW p,
         TypeOK, [Next]_vars, Pace(v, t, m, p)
  PROVE  Pace(v, t, m, p)'
<1>1. now \in Nat /\ now' \in Nat /\ now <= now'
  <2>1. now \in Nat /\ now' \in Nat
    BY TypeStep, ConstantTypes DEF TypeOK
  <2>2. now' = now \/ now' = now + 1
    BY DEF Next, CreateRoom, IssueJoinTicket, StartRoom, Startable, FinishRoom, DeleteRoom,
       DropRooms, ConsumeTicket, RegisterPlayer, RemovePlayer, UpdatePlayerParams,
       SweepBegin, SweepApply, Tick, vars
  <2> QED
    BY <2>1, <2>2
<1>2. HasCome(p)'
  BY ArrivedStays DEF Pace
<1>3. t <= now'
  BY <1>1 DEF Pace
<1>4. ASSUME p \in players'[m] PROVE Paid(v, t, handle'[m][p])
  <2>1. Moved(m, p)
    BY <1>4, HandleStep
  <2>2. ~Enters(m, p)
    BY DEF Pace, HasCome, OnTheWay, Enters
  <2>3. p \in players[m] /\ Paid(v, t, handle[m][p]) /\ t <= now
    BY <2>1, <2>2 DEF Moved, Pace
  <2>4. handle[m][p] \in PlayerHandle
    BY <2>3 DEF TypeOK
  <2>5. CASE SameParams(handle'[m][p], handle[m][p])
    BY <2>3, <2>5 DEF SameParams, Paid
  <2>6. CASE ChangedTo(handle[m][p], handle'[m][p])
    BY <1>1, <2>3, <2>4, <2>6, ChangePays
  <2> QED
    BY <2>1, <2>2, <2>5, <2>6 DEF Moved
<1> QED
  BY <1>2, <1>3, <1>4 DEF Pace, Paid

\* Between any two moments a player's parameters move by a step per cooldown, and one
\* more, at most: whoever it is, whenever the player came and whichever parameters the
\* steps are spread over (update_player_params, room.rs; apply_param_change, params.rs).
THEOREM ParamsDriftSlowly == Spec => ParamRate
<1> SUFFICES ASSUME NEW v \in PlayerParams, NEW t \in Time, NEW m \in Matches,
                    NEW p \in Players
             PROVE  Spec => [](Had(v, t, m, p) => []WithinPace(v, t, m, p))
  BY DEF ParamRate
<1>0. t \in Nat
  BY ConstantTypes DEF Time
<1>1. Init => SoonAllowed
  BY DEF Init, SoonAllowed
<1>2. TypeOK /\ SingleAdmission /\ Had(v, t, m, p) => Pace(v, t, m, p)
  <2> SUFFICES ASSUME TypeOK, SingleAdmission, Had(v, t, m, p) PROVE Pace(v, t, m, p)
    OBVIOUS
  <2>1. p \in players[m] /\ handle[m][p].params = v /\ now = t
    BY DEF Had
  <2>2. HasCome(p)
    BY <2>1 DEF HasCome, OnTheWay, SingleAdmission, TypeOK
  <2>3. Paid(v, t, handle[m][p])
    BY <2>1, NoDistance DEF Paid
  <2> QED
    BY <1>0, <2>1, <2>2, <2>3 DEF Pace
<1>3. TypeOK /\ Pace(v, t, m, p) /\ [Next]_vars => Pace(v, t, m, p)'
  BY <1>0, PaceKept
<1>4. TypeOK /\ SoonAllowed /\ Pace(v, t, m, p) => WithinPace(v, t, m, p)
  <2> SUFFICES ASSUME TypeOK, SoonAllowed, Pace(v, t, m, p), p \in players[m]
               PROVE  (ParamDistance(v, handle[m][p].params) - 1) * Cooldown <= now - t
    BY DEF WithinPace
  <2> DEFINE h == handle[m][p]
             d == ParamDistance(v, h.params)
  <2>1. h \in PlayerHandle /\ now \in Nat
    BY ConstantTypes DEF TypeOK
  <2>2. d \in 0 .. 6 /\ h.nextChange \in Nat
    BY <2>1, DistanceRange, ConstantTypes DEF PlayerHandle
  <2>3. /\ h.nextChange <= now + Cooldown
        /\ d = 0 \/ d * Cooldown <= h.nextChange - t
        /\ t <= now
    BY DEF SoonAllowed, Pace, Paid
  <2> HIDE DEF h, d
  <2>4. d * Cooldown \in Int /\ (d = 0 => d * Cooldown = 0)
    BY <2>2, ConstantTypes
  <2>5. d * Cooldown - Cooldown <= now - t
    BY <1>0, <2>1, <2>2, <2>3, <2>4, ConstantTypes
  <2>6. (d - 1) * Cooldown = d * Cooldown - Cooldown
    BY <2>2, ConstantTypes
  <2> QED
    BY <2>5, <2>6 DEF d, h
<1> QED
  BY <1>1, <1>2, <1>3, <1>4, SoonStep, TypeCorrect, AdmitsOnce, PTL DEF Spec
-----------------------------------------------------------------------------
(* Colours are distinct and final *)

\* Dealing the layout changes colours and stage orders of the players in S.
LEMMA Dealt ==
  ASSUME NEW S \in SUBSET Players, NEW colouring \in Colourings(S),
         NEW orders \in [S -> StageOrders],
         NEW handles \in [Players -> PlayerHandle]
  PROVE  \A p \in S : WithLayout(handles, colouring, orders)[p].colour = colouring[p]
<1>1. /\ DOMAIN colouring = S
      /\ \A p \in Players : handles[p] \in PlayerHandle
  BY DEF Colourings
<1> QED
  BY <1>1 DEF WithLayout, PlayerHandle

\* ROOM_MAX_PLAYERS colours are enough for a room that is not overfull.
LEMMA EveryoneIsColoured ==
  ASSUME NEW S, IsFiniteSet(S), Cardinality(S) <= MaxPlayers,
         NEW colouring \in Colourings(S), NEW p \in S
  PROVE  colouring[p] # NoColour
<1> SUFFICES ASSUME colouring[p] = NoColour PROVE FALSE
  OBVIOUS
<1>1. \A c \in Colours : \E q \in S : colouring[q] = c
  BY DEF Colourings
<1> DEFINE holder == [c \in Colours |-> CHOOSE q \in S : colouring[q] = c]
<1>2. \A c \in Colours : holder[c] \in S /\ colouring[holder[c]] = c
  BY <1>1
<1>3. \A c \in Colours : c # NoColour
  BY ConstantTypes DEF Colours, NoColour
<1>4. holder \in Injection(Colours, S \ {p})
  BY <1>2, <1>3, Fun_IsInj
<1>5. IsFiniteSet(S \ {p}) /\ Cardinality(S \ {p}) = Cardinality(S) - 1
  BY FS_RemoveElement
<1>6. Cardinality(Colours) = MaxPlayers
  <2>1. Cardinality(0 .. MaxPlayers - 1) =
          IF 0 > MaxPlayers - 1 THEN 0 ELSE (MaxPlayers - 1) - 0 + 1
    BY FS_Interval, ConstantTypes
  <2> QED
    BY <2>1, ConstantTypes DEF Colours
<1>7. Cardinality(Colours) <= Cardinality(S \ {p})
  BY <1>4, <1>5, FS_Injection
<1>8. Cardinality(S) \in Nat
  BY FS_CardinalityType
<1> QED
  BY <1>5, <1>6, <1>7, <1>8, ConstantTypes

\* A step that deals no layout and admits nobody leaves the layout as it was.
LEMMA LayoutKept ==
  ASSUME TypeOK, Layout, startedAt' = startedAt,
         \A m \in Matches : players'[m] \subseteq players[m],
         \A m \in Matches : \A p \in players'[m] :
            /\ handle'[m][p].colour = handle[m][p].colour
            /\ handle'[m][p].stages = handle[m][p].stages
  PROVE  Layout'
BY DEF Layout, Started

\* In a room nobody shares a colour, and nobody in a lobby has one
\* (assign_randomized_layout, room.rs; register_player_udp, player.rs).
THEOREM ColoursDiffer == Spec => []Layout
<1>1. Init => Layout
  BY DEF Init, Layout
<1>2. TypeOK /\ Layout /\ [Next]_vars => Layout'
  <2> SUFFICES ASSUME TypeOK, Layout, [Next]_vars PROVE Layout'
    OBVIOUS
  <2>0. /\ handle \in [Matches -> [Players -> PlayerHandle]]
        /\ players \in [Matches -> SUBSET drawnPlayers]
        /\ drawnPlayers \subseteq Players
        /\ startedAt \in [Matches -> Time]
        /\ \A m \in Matches : players[m] \in SUBSET Players
    BY DEF TypeOK
  <2>1. ASSUME NEW m \in Matches, StartRoom(m) PROVE Layout'
    <3>1. PICK colouring \in Colourings(players[m]),
               orders \in [players[m] -> StageOrders] :
            handle' = [handle EXCEPT ![m] = WithLayout(@, colouring, orders)]
      BY <2>1 DEF StartRoom, Startable
    <3>2. \A p \in players[m] : handle'[m][p].colour = colouring[p]
      <4>1. handle'[m] = WithLayout(handle[m], colouring, orders)
        BY <2>0, <3>1
      <4>2. handle[m] \in [Players -> PlayerHandle] /\ players[m] \in SUBSET Players
        BY <2>0
      <4> QED
        BY <4>1, <4>2, Dealt
    <3>3. \A p, q \in players[m] : p # q /\ colouring[p] = colouring[q]
                                    => colouring[p] = NoColour
      BY DEF Colourings
    <3>4. /\ players' = players
          /\ startedAt' = [startedAt EXCEPT ![m] = now]
          /\ now # 0
      BY <2>1, ConstantTypes DEF StartRoom, Startable, TypeOK
    <3>5. \A n \in Matches \ {m} : handle'[n] = handle[n] /\ startedAt'[n] = startedAt[n]
      BY <2>0, <3>1, <3>4
    <3>6. startedAt'[m] # 0
      BY <2>0, <3>4
    <3> QED
      BY <3>2, <3>3, <3>4, <3>5, <3>6 DEF Layout, Started
  <2>2. ASSUME NEW S \in SUBSET matches, DropRooms(S) PROVE Layout'
    <3>1. \A n \in Matches : players'[n] = {} \/ n \notin S
      BY <2>2 DEF DropRooms, TicketsWithout
    <3>2. \A n \in Matches \ S : /\ players'[n] = players[n]
                               /\ handle'[n] = handle[n]
                               /\ startedAt'[n] = startedAt[n]
      BY <2>2 DEF DropRooms, TicketsWithout
    <3> QED
      BY <3>1, <3>2 DEF Layout, Started
  <2>3. ASSUME NEW m \in Matches, NEW p \in Players, RemovePlayer(m, p)
        PROVE  Layout'
    <3>1. /\ players' = [players EXCEPT ![m] = @ \ {p}]
          /\ handle' = [handle EXCEPT ![m][p] = NewHandle]
          /\ startedAt' = startedAt
      BY <2>3 DEF RemovePlayer
    <3>2. \A n \in Matches : \A q \in players'[n] :
            q \in players[n] /\ handle'[n][q] = handle[n][q]
      BY <2>0, <3>1
    <3> QED
      BY <3>1, <3>2, LayoutKept
  <2>4. ASSUME NEW c \in joining, RegisterPlayer(c) PROVE Layout'
    <3>1. CASE UNCHANGED <<players, handle>>
      BY <2>4, <3>1, LayoutKept DEF RegisterPlayer
    <3>2. CASE /\ players' = [players EXCEPT ![c.match] = @ \cup {c.player}]
               /\ handle' = [handle EXCEPT ![c.match][c.player] =
                               IF c.player \in players[c.match] THEN @ ELSE NewHandle]
      <4> DEFINE m == c.match
                 p == c.player
      <4>1. m \in Matches /\ p \in Players
        BY DEF TypeOK, Claim
      <4>2. startedAt' = startedAt
        BY <2>4 DEF RegisterPlayer
      <4>3. \A n \in Matches : \A q \in players'[n] :
              /\ ~(n = m /\ q = p) => q \in players[n] /\ handle'[n][q] = handle[n][q]
              /\ n = m /\ q = p /\ q \in players[n] => handle'[n][q] = handle[n][q]
              /\ n = m /\ q = p /\ q \notin players[n] => handle'[n][q] = NewHandle
        BY <2>0, <3>2, <4>1
      <4>4. NewHandle.colour = NoColour /\ NewHandle.stages = <<>>
        BY DEF NewHandle
      <4> HIDE DEF m, p
      <4> QED
        BY <4>2, <4>3, <4>4 DEF Layout, Started
    <3> QED
      BY <2>4, <3>1, <3>2 DEF RegisterPlayer
  <2>5. ASSUME NEW m \in Matches, NEW p \in Players, NEW param \in Kinds,
               NEW direction \in ParamDirection,
               UpdatePlayerParams(m, p, param, direction)
        PROVE  Layout'
    <3> DEFINE h == handle[m][p]
               g == [h EXCEPT !.params = ChangedParams(@, param, direction),
                              !.nextChange = NextChangeAfter(now)]
    <3>1. /\ UNCHANGED <<players, startedAt>>
          /\ handle' = [handle EXCEPT ![m][p] = g]
      BY <2>5 DEF UpdatePlayerParams
    <3>2. g.colour = h.colour /\ g.stages = h.stages
      BY <2>0 DEF PlayerHandle
    <3>3. \A n \in Matches, q \in Players :
            /\ handle'[n][q].colour = handle[n][q].colour
            /\ handle'[n][q].stages = handle[n][q].stages
      BY <2>0, <3>1, <3>2
    <3> QED
      BY <2>0, <3>1, <3>3, LayoutKept
  <2>6. CASE UNCHANGED <<players, handle, startedAt>>
    BY <2>6, LayoutKept
  <2>7. ASSUME NEW m \in Matches, DeleteRoom(m) PROVE Layout'
    BY <2>2, <2>7 DEF DeleteRoom
  <2>8. CASE SweepApply
    BY <2>2, <2>8 DEF SweepApply, Stale
  <2>9. ASSUME NEW m \in Matches, CreateRoom(m) PROVE Layout'
    BY <2>6, <2>9 DEF CreateRoom
  <2>10. ASSUME NEW m \in Matches, NEW p \in Players, IssueJoinTicket(m, p)
        PROVE  Layout'
    BY <2>6, <2>10 DEF IssueJoinTicket
  <2>11. ASSUME NEW t \in tickets, ConsumeTicket(t) PROVE Layout'
    BY <2>6, <2>11 DEF ConsumeTicket, roomVars
  <2>12. ASSUME NEW m \in Matches, NEW p \in Players, FinishRoom(m, p)
        PROVE  Layout'
    BY <2>6, <2>12 DEF FinishRoom
  <2>13. CASE SweepBegin
    BY <2>6, <2>13 DEF SweepBegin, roomVars
  <2>14. CASE Tick
    BY <2>6, <2>14 DEF Tick, roomVars
  <2>15. CASE UNCHANGED vars
    BY <2>6, <2>15 DEF vars, roomVars, drawnVars
  <2> QED
    BY <2>1, <2>3, <2>4, <2>5, <2>7, <2>8, <2>9, <2>10, <2>11, <2>12,
       <2>13, <2>14, <2>15 DEF Next
<1> QED
  BY <1>1, <1>2, TypeCorrect, PTL DEF Spec

\* Starting a room gives a colour to everyone in it, there being as many colours
\* as places, and nothing deals the layout again (start_match_and_snapshot_players
\* and assign_randomized_layout, room.rs; register_player_udp, player.rs).
THEOREM LayoutNeverRedealt == Spec => LayoutIsFinal
<1> DEFINE Kept ==
      \A m \in matches \cap matches' : \A p \in players[m] \cap players'[m] :
        /\ ~Started(m) /\ Started(m)' => handle'[m][p].colour # NoColour
        /\ Started(m) => /\ startedAt'[m] = startedAt[m]
                         /\ handle'[m][p].colour = handle[m][p].colour
                         /\ handle'[m][p].stages = handle[m][p].stages
<1>1. TypeOK /\ RostersFit /\ [Next]_vars => [Kept]_vars
  <2> SUFFICES ASSUME TypeOK, RostersFit, Next PROVE Kept
    BY DEF vars
  <2>0. /\ handle \in [Matches -> [Players -> PlayerHandle]]
        /\ players \in [Matches -> SUBSET drawnPlayers]
        /\ startedAt \in [Matches -> Time]
        /\ matches \subseteq Matches
        /\ \A m \in Matches : players[m] \in SUBSET Players
    BY DEF TypeOK
  <2>1. ASSUME \A m \in matches \cap matches' :
                  /\ startedAt'[m] = startedAt[m]
                  /\ \A p \in players[m] \cap players'[m] :
                        /\ handle'[m][p].colour = handle[m][p].colour
                        /\ handle'[m][p].stages = handle[m][p].stages
        PROVE  Kept
    BY <2>1 DEF Started
  <2>2. ASSUME NEW m \in Matches, StartRoom(m) PROVE Kept
    <3>1. PICK colouring \in Colourings(players[m]),
               orders \in [players[m] -> StageOrders] :
            handle' = [handle EXCEPT ![m] = WithLayout(@, colouring, orders)]
      BY <2>2 DEF StartRoom, Startable
    <3>2. \A p \in players[m] : handle'[m][p].colour = colouring[p]
      <4>1. handle'[m] = WithLayout(handle[m], colouring, orders)
        BY <2>0, <3>1
      <4>2. handle[m] \in [Players -> PlayerHandle] /\ players[m] \in SUBSET Players
        BY <2>0
      <4> QED
        BY <4>1, <4>2, Dealt
    <3>3. \A p \in players[m] : handle'[m][p].colour # NoColour
      BY <3>2, EveryoneIsColoured DEF RostersFit
    <3>4. ~Started(m) /\ startedAt' = [startedAt EXCEPT ![m] = now]
      BY <2>2 DEF StartRoom, Startable
    <3>5. \A n \in Matches \ {m} : handle'[n] = handle[n] /\ startedAt'[n] = startedAt[n]
      BY <2>0, <3>1, <3>4
    <3> QED
      BY <2>0, <3>3, <3>4, <3>5 DEF Started
  <2>3. ASSUME NEW S \in SUBSET matches, DropRooms(S) PROVE Kept
    <3>1. \A m \in matches \cap matches' :
            startedAt'[m] = startedAt[m] /\ handle'[m] = handle[m]
      BY <2>0, <2>3 DEF DropRooms, TicketsWithout
    <3> HIDE DEF Kept
    <3> QED
      BY <2>1, <3>1
  <2>4. ASSUME NEW m \in Matches, NEW p \in Players, RemovePlayer(m, p)
        PROVE  Kept
    <3>1. /\ players' = [players EXCEPT ![m] = @ \ {p}]
          /\ handle' = [handle EXCEPT ![m][p] = NewHandle]
          /\ startedAt' = startedAt
      BY <2>4 DEF RemovePlayer
    <3>2. \A n \in Matches : \A q \in players'[n] : handle'[n][q] = handle[n][q]
      BY <2>0, <3>1
    <3> HIDE DEF Kept
    <3> QED
      BY <2>0, <2>1, <3>1, <3>2
  <2>5. ASSUME NEW c \in joining, RegisterPlayer(c) PROVE Kept
    <3>1. /\ startedAt' = startedAt
          /\ \/ handle' = handle
             \/ handle' = [handle EXCEPT ![c.match][c.player] =
                             IF c.player \in players[c.match] THEN @ ELSE NewHandle]
      BY <2>5 DEF RegisterPlayer
    <3>2. \A n \in Matches : \A q \in players[n] : handle'[n][q] = handle[n][q]
      BY <2>0, <3>1
    <3> HIDE DEF Kept
    <3> QED
      BY <2>0, <2>1, <3>1, <3>2
  <2>6. ASSUME NEW m \in Matches, NEW p \in Players, NEW param \in Kinds,
               NEW direction \in ParamDirection,
               UpdatePlayerParams(m, p, param, direction)
        PROVE  Kept
    <3> DEFINE h == handle[m][p]
               g == [h EXCEPT !.params = ChangedParams(@, param, direction),
                              !.nextChange = NextChangeAfter(now)]
    <3>1. /\ UNCHANGED <<players, startedAt>>
          /\ handle' = [handle EXCEPT ![m][p] = g]
      BY <2>6 DEF UpdatePlayerParams
    <3>2. g.colour = h.colour /\ g.stages = h.stages
      BY <2>0 DEF PlayerHandle
    <3>3. \A n \in Matches, q \in Players :
            /\ handle'[n][q].colour = handle[n][q].colour
            /\ handle'[n][q].stages = handle[n][q].stages
      BY <2>0, <3>1, <3>2
    <3> HIDE DEF Kept
    <3> QED
      BY <2>0, <2>1, <3>1, <3>3
  <2>7. CASE UNCHANGED <<handle, startedAt>>
    BY <2>1, <2>7
  <2>8. ASSUME NEW m \in Matches, DeleteRoom(m) PROVE Kept
    BY <2>3, <2>8 DEF DeleteRoom
  <2>9. CASE SweepApply
    BY <2>3, <2>9 DEF SweepApply, Stale
  <2> HIDE DEF Kept
  <2>10. ASSUME NEW m \in Matches, CreateRoom(m) PROVE Kept
    BY <2>7, <2>10 DEF CreateRoom
  <2>11. ASSUME NEW m \in Matches, NEW p \in Players, IssueJoinTicket(m, p)
        PROVE  Kept
    BY <2>7, <2>11 DEF IssueJoinTicket
  <2>12. ASSUME NEW t \in tickets, ConsumeTicket(t) PROVE Kept
    BY <2>7, <2>12 DEF ConsumeTicket, roomVars
  <2>13. ASSUME NEW m \in Matches, NEW p \in Players, FinishRoom(m, p)
        PROVE  Kept
    BY <2>7, <2>13 DEF FinishRoom
  <2>14. CASE SweepBegin
    BY <2>7, <2>14 DEF SweepBegin, roomVars
  <2>15. CASE Tick
    BY <2>7, <2>15 DEF Tick, roomVars
  <2> QED
    BY <2>2, <2>4, <2>5, <2>6, <2>8, <2>9, <2>10, <2>11, <2>12, <2>13,
       <2>14, <2>15 DEF Next
<1> QED
  BY <1>1, TypeCorrect, RostersAlwaysFit, PTL DEF Spec, LayoutIsFinal
-----------------------------------------------------------------------------
(* The cleanup gets round to every expired lobby *)

\* The cleanup in progress has read a clock by which the lobby is idle.
Doomed(m) == sweepAt # 0 /\ sweepAt >= lastActivity[m] + IdleTimeout

\* The activity of a lobby that stays idle for the timeout is not touched.
LEMMA IdleStays ==
  ASSUME TypeOK, [Next]_vars, NEW m \in Matches, LobbyExpired(m), LobbyExpired(m)'
  PROVE  lastActivity'[m] = lastActivity[m]
<1> USE DEF roomVars, drawnVars
<1>0. now \in Nat /\ IdleTimeout \in Nat \ {0} /\ lastActivity \in [Matches -> Time]
  BY ClockAssumption, TimeoutAssumption DEF TypeOK
<1>1. ASSUME NEW n \in Matches, Touch(n), now' = now PROVE lastActivity'[m] = lastActivity[m]
  BY <1>0, <1>1 DEF Touch, LobbyExpired
<1>2. ASSUME NEW S \in SUBSET Matches, DropRooms(S) PROVE lastActivity'[m] = lastActivity[m]
  BY <1>2 DEF DropRooms, TicketsWithout, LobbyExpired
<1>3. ASSUME NEW n \in Matches, CreateRoom(n) \/ StartRoom(n) \/ DeleteRoom(n)
      PROVE  lastActivity'[m] = lastActivity[m]
  BY <1>1, <1>2, <1>3 DEF CreateRoom, StartRoom, Startable, DeleteRoom
<1>4. ASSUME NEW n \in Matches, NEW p \in Players,
             IssueJoinTicket(n, p) \/ FinishRoom(n, p) \/ RemovePlayer(n, p)
      PROVE  lastActivity'[m] = lastActivity[m]
  BY <1>1, <1>4 DEF IssueJoinTicket, FinishRoom, RemovePlayer
<1>5. ASSUME NEW t \in tickets, ConsumeTicket(t) PROVE lastActivity'[m] = lastActivity[m]
  BY <1>5 DEF ConsumeTicket
<1>6. ASSUME NEW c \in joining, RegisterPlayer(c) PROVE lastActivity'[m] = lastActivity[m]
  <2>1. c.match \in Matches
    BY DEF TypeOK, Claim
  <2> QED
    BY <1>1, <1>6, <2>1 DEF RegisterPlayer
<1>7. ASSUME NEW n \in Matches, NEW p \in Players, NEW param \in Kinds,
             NEW direction \in ParamDirection, UpdatePlayerParams(n, p, param, direction)
      PROVE  lastActivity'[m] = lastActivity[m]
  BY <1>1, <1>7 DEF UpdatePlayerParams
<1>8. CASE SweepBegin \/ Tick \/ UNCHANGED vars
  BY <1>8 DEF SweepBegin, Tick, vars
<1>9. CASE SweepApply
  <2>1. Stale(sweepAt) \in SUBSET Matches
    BY DEF Stale, TypeOK
  <2> QED
    BY <1>2, <1>9, <2>1 DEF SweepApply
<1> QED
  BY <1>3, <1>4, <1>5, <1>6, <1>7, <1>8, <1>9 DEF Next

\* Only the cleanup reads or forgets the clock.
LEMMA SweepMoves ==
  ASSUME [Next]_vars
  PROVE  sweepAt' = sweepAt \/ SweepBegin \/ SweepApply
<1>1. ASSUME NEW m \in Matches, CreateRoom(m) \/ StartRoom(m) \/ DeleteRoom(m)
      PROVE  sweepAt' = sweepAt
  BY <1>1 DEF CreateRoom, StartRoom, DeleteRoom
<1>2. ASSUME NEW m \in Matches, NEW p \in Players,
             IssueJoinTicket(m, p) \/ FinishRoom(m, p) \/ RemovePlayer(m, p)
      PROVE  sweepAt' = sweepAt
  BY <1>2 DEF IssueJoinTicket, FinishRoom, RemovePlayer
<1>3. ASSUME NEW t \in tickets, ConsumeTicket(t) PROVE sweepAt' = sweepAt
  BY <1>3 DEF ConsumeTicket
<1>4. ASSUME NEW c \in joining, RegisterPlayer(c) PROVE sweepAt' = sweepAt
  BY <1>4 DEF RegisterPlayer
<1>5. ASSUME NEW m \in Matches, NEW p \in Players, NEW param \in Kinds,
             NEW direction \in ParamDirection, UpdatePlayerParams(m, p, param, direction)
      PROVE  sweepAt' = sweepAt
  BY <1>5 DEF UpdatePlayerParams
<1>6. ASSUME Tick \/ UNCHANGED vars PROVE sweepAt' = sweepAt
  BY <1>6 DEF Tick, vars
<1> QED
  BY <1>1, <1>2, <1>3, <1>4, <1>5, <1>6 DEF Next

\* The cleanup removes every lobby that has expired, unless somebody uses or starts it
\* first (cleanup.rs, delete_stale_lobby_rooms), if the cleanup is given its turns
\* and nothing blocks it.
THEOREM LobbiesAreSwept == Spec /\ SweepFairness /\ []CleanupCanStep => ExpiredLobbySwept
<1> SUFFICES ASSUME NEW m \in Matches
             PROVE  Spec /\ SweepFairness /\ []CleanupCanStep => (LobbyExpired(m) ~> ~LobbyExpired(m))
  BY DEF ExpiredLobbySwept
<1>0. TypeOK => /\ now \in Nat \ {0} /\ IdleTimeout \in Nat \ {0} /\ sweepAt \in Nat
                /\ lastActivity[m] \in Nat
  BY ClockAssumption, TimeoutAssumption DEF TypeOK, Time
<1>1. TypeOK /\ [Next]_vars /\ LobbyExpired(m) /\ LobbyExpired(m)' /\ Doomed(m) => Doomed(m)'
  <2> SUFFICES ASSUME TypeOK, [Next]_vars, LobbyExpired(m), LobbyExpired(m)', Doomed(m)
               PROVE  Doomed(m)'
    OBVIOUS
  <2>1. CASE SweepApply
    <3>1. m \in Stale(sweepAt)
      BY <1>0 DEF Stale, SatSub, LobbyExpired, Doomed
    <3> QED
      BY <2>1, <3>1 DEF SweepApply, DropRooms, TicketsWithout, LobbyExpired
  <2>2. CASE sweepAt' = sweepAt
    BY <2>2, IdleStays DEF Doomed
  <2> QED
    BY <2>1, <2>2, SweepMoves DEF SweepBegin, Doomed
<1>2. /\ TypeOK /\ [Next]_vars /\ LobbyExpired(m) /\ LobbyExpired(m)' /\ sweepAt = 0
      => (sweepAt = 0)' \/ Doomed(m)'
  <2> SUFFICES ASSUME TypeOK, [Next]_vars, LobbyExpired(m), LobbyExpired(m)', sweepAt = 0
               PROVE  (sweepAt = 0)' \/ Doomed(m)'
    OBVIOUS
  <2>1. CASE SweepBegin
    BY <1>0, <2>1, IdleStays DEF SweepBegin, LobbyExpired, Doomed
  <2> QED
    BY <2>1, SweepMoves DEF SweepApply
<1>3. TypeOK /\ <<SweepBegin>>_vars => ~(sweepAt = 0)'
  BY <1>0 DEF SweepBegin
<1>4. <<SweepApply>>_vars => (sweepAt = 0)'
  BY DEF SweepApply
<1>5. Doomed(m) => ~(sweepAt = 0)
  BY DEF Doomed
<1> QED
  BY <1>1, <1>2, <1>3, <1>4, <1>5, TypeCorrect, PTL DEF Spec, SweepFairness, CleanupCanStep
=============================================================================
