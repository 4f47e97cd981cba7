----------------------------- MODULE UdpProofs ------------------------------
(***************************************************************************)
(* The UDP tasks change the core state in ControlPlane's steps only, so    *)
(* what ControlPlaneProofs shows of the core holds of the whole server.    *)
(* From there: a player whose ticket is consumed is in the hands of one    *)
(* join task or one session, until the room has the player; and what is    *)
(* under way to the clients is well typed and stays true.                  *)
(***************************************************************************)
EXTENDS UdpServer, ControlPlaneProofs

-----------------------------------------------------------------------------
(* Every step of the server is a step of the core or leaves it alone *)

\* What update_player_params is called with has been parsed.
ParamTasksTyped ==
  \A c \in ParamTasks : paramTask[c].pc = "received" =>
    paramTask[c].param \in Kinds /\ paramTask[c].direction \in ParamDirection

\* Every step of a UDP task is one control-plane critical section or none.
LEMMA CoreStep ==
  ASSUME TypeOK, ParamTasksTyped, [UdpNext]_allVars
  PROVE  [Next]_vars
<1>1. CASE OtherCore
  BY <1>1 DEF OtherCore, Next
<1>2. ASSUME NEW m \in Matches, StartStep(m) PROVE Next
  BY <1>2 DEF StartStep, Next
<1>3. ASSUME NEW j \in JoinTasks, ConsumeStep(j) PROVE [Next]_vars
  BY <1>3 DEF ConsumeStep, Next
<1>4. ASSUME NEW j \in JoinTasks, RegisterStep(j) PROVE Next
  <2> DEFINE c == [player |-> joinTask[j].player, match |-> joinTask[j].match]
  <2>1. RegisterPlayer(c)
    BY <1>4 DEF RegisterStep
  <2>2. c \in joining
    BY <2>1 DEF RegisterPlayer
  <2> QED
    BY <2>1, <2>2 DEF Next
<1>5. ASSUME NEW j \in JoinTasks, RemoveStep(j) PROVE [Next]_vars
  <2> DEFINE p == joinTask[j].player
             m == joinTask[j].match
  <2>1. CASE RemovePlayer(m, p)
    <3>1. m \in Matches /\ p \in Players
      BY <2>1 DEF RemovePlayer, TypeOK
    <3> QED
      BY <2>1, <3>1 DEF Next
  <2>2. CASE UNCHANGED vars
    BY <2>2
  <2> QED
    BY <1>5, <2>1, <2>2 DEF RemoveStep
<1>6. ASSUME NEW c \in ParamTasks, UpdateStep(c) PROVE [Next]_vars
  <2> DEFINE task == paramTask[c]
  <2>1. CASE UpdatePlayerParams(task.match, task.player, task.param, task.direction)
    <3>1. task.match \in Matches /\ task.player \in Players
      BY <2>1 DEF UpdatePlayerParams, TypeOK
    <3>2. task.param \in Kinds /\ task.direction \in ParamDirection
      BY <1>6 DEF UpdateStep, ParamTasksTyped
    <3> QED
      BY <2>1, <3>1, <3>2 DEF Next
  <2>2. CASE UNCHANGED vars
    BY <2>2
  <2> QED
    BY <1>6, <2>1, <2>2 DEF UpdateStep
<1>7. ASSUME NEW j \in JoinTasks,
             InsertSession(j) \/ SendJoinOk(j) \/ RemoveSession(j)
      PROVE  UNCHANGED vars
  BY <1>7 DEF InsertSession, SessionOf, SendJoinOk, RemoveSession
<1>8. ASSUME NEW j \in JoinTasks, NEW a \in Addrs, NEW p \in Players,
             ReceiveJoin(j, a, p)
      PROVE  UNCHANGED vars
  BY <1>8 DEF ReceiveJoin
<1>9. ASSUME NEW c \in ParamTasks, NEW a \in Addrs, NEW param \in Kinds,
             NEW direction \in ParamDirection,
             ReceiveParamChange(c, a, param, direction)
      PROVE  UNCHANGED vars
  BY <1>9 DEF ReceiveParamChange
<1>10. ASSUME CastProgress PROVE UNCHANGED vars
  BY <1>10 DEF CastProgress, ReadTargets, CastOn
<1>11. ASSUME NEW a \in Addrs, Pump(a) PROVE UNCHANGED vars
  BY <1>11 DEF Pump
<1>12. ASSUME UNCHANGED allVars PROVE UNCHANGED vars
  BY <1>12 DEF allVars
<1>14. ASSUME NEW b \in casts, AbandonCast(b) PROVE UNCHANGED vars
  BY <1>14 DEF AbandonCast
<1>15. ASSUME NEW c \in ParamTasks, ReplyError(c) PROVE UNCHANGED vars
  BY <1>15 DEF ReplyError
<1>13. ASSUME NEW j \in JoinTasks, JoinProgress(j) PROVE [Next]_vars
  BY <1>3, <1>4, <1>5, <1>7, <1>13 DEF JoinProgress
<1> QED
  BY <1>1, <1>2, <1>6, <1>8, <1>9, <1>10, <1>11, <1>12, <1>13, <1>14, <1>15
     DEF UdpNext, ServerStep

\* What a param_change datagram asked for stays as it was read.
LEMMA ParamTaskStep ==
  ASSUME ParamTasksTyped, [UdpNext]_allVars
  PROVE  ParamTasksTyped'
<1>1. ASSUME UNCHANGED paramTask PROVE ParamTasksTyped'
  BY <1>1 DEF ParamTasksTyped
<1>2. ASSUME NEW c \in ParamTasks, NEW a \in Addrs, NEW param \in Kinds,
             NEW direction \in ParamDirection,
             ReceiveParamChange(c, a, param, direction)
      PROVE  ParamTasksTyped'
  BY <1>2 DEF ReceiveParamChange, ParamTasksTyped
<1>3. ASSUME NEW c \in ParamTasks, UpdateStep(c) \/ ReplyError(c) PROVE ParamTasksTyped'
  <2>1. CASE ReplyError(c)
    BY <2>1 DEF ReplyError, ParamTasksTyped
  <2>2. CASE UpdateStep(c) /\ paramTask' = [paramTask EXCEPT ![c].pc = "done"]
    BY <2>2 DEF ParamTasksTyped
  <2>3. ASSUME UpdateStep(c), NEW e,
               paramTask' = [paramTask EXCEPT ![c].pc = "refused", ![c].error = e]
        PROVE  ParamTasksTyped'
    <3> DEFINE r == [paramTask[c] EXCEPT !.pc = "refused", !.error = e]
    <3>1. r.pc = "refused"
      OBVIOUS
    <3>2. paramTask' = [paramTask EXCEPT ![c] = r]
      BY <2>3
    <3> HIDE DEF r
    <3> QED
      BY <3>1, <3>2 DEF ParamTasksTyped
  <2>4. UpdateStep(c) => \/ paramTask' = [paramTask EXCEPT ![c].pc = "done"]
                         \/ \E e : paramTask' = [paramTask EXCEPT ![c].pc = "refused",
                                                                 ![c].error = e]
    BY DEF UpdateStep
  <2> QED
    BY <1>3, <2>1, <2>2, <2>3, <2>4
<1>4. ASSUME OtherCore PROVE ParamTasksTyped'
  BY <1>1, <1>4 DEF OtherCore, udpVars, taskVars
<1>5. ASSUME NEW m \in Matches, StartStep(m) PROVE ParamTasksTyped'
  BY <1>1, <1>5 DEF StartStep
<1>6. ASSUME NEW j \in JoinTasks, NEW a \in Addrs, NEW p \in Players,
             ReceiveJoin(j, a, p)
      PROVE  ParamTasksTyped'
  BY <1>1, <1>6 DEF ReceiveJoin
<1>7. ASSUME NEW j \in JoinTasks, JoinProgress(j) PROVE ParamTasksTyped'
  BY <1>1, <1>7 DEF JoinProgress, ConsumeStep, RegisterStep, InsertSession, SessionOf,
     SendJoinOk, RemoveSession, RemoveStep
<1>8. ASSUME CastProgress PROVE ParamTasksTyped'
  BY <1>1, <1>8 DEF CastProgress, ReadTargets, CastOn
<1>9. ASSUME NEW a \in Addrs, Pump(a) PROVE ParamTasksTyped'
  BY <1>1, <1>9 DEF Pump
<1>10. ASSUME UNCHANGED allVars PROVE ParamTasksTyped'
  BY <1>1, <1>10 DEF allVars, udpVars, taskVars
<1>11. ASSUME NEW b \in casts, AbandonCast(b) PROVE ParamTasksTyped'
  BY <1>1, <1>11 DEF AbandonCast
<1> QED
  BY <1>2, <1>3, <1>4, <1>5, <1>6, <1>7, <1>8, <1>9, <1>10, <1>11 DEF UdpNext, ServerStep

\* The server with its UDP side implements the control plane
\* (udp_connection.rs calls consume_ticket, register_player_udp, remove_player and
\* update_player_params, each once and under the core lock).
THEOREM UdpImplementsControlPlane == UdpSpec => ImplementsControlPlane
<1>1. UdpInit => Init /\ TypeOK /\ ParamTasksTyped
  BY TypeInit DEF UdpInit, ParamTasksTyped, IdleParam
<1>2. TypeOK /\ ParamTasksTyped /\ [UdpNext]_allVars
        => [Next]_vars /\ TypeOK' /\ ParamTasksTyped'
  BY CoreStep, ParamTaskStep, TypeStep
<1> QED
  BY <1>1, <1>2, PTL DEF UdpSpec, Spec, ImplementsControlPlane

-----------------------------------------------------------------------------
(* What join tasks and sessions remember *)

JoinTask == [pc : {"idle", "checked", "claimed", "registered", "inserted", "failed",
                   "removing", "done"},
             addr : Addrs \cup {None}, player : Players \cup {None},
             match : Matches \cup {None}]

\* A task knows its address and player once it has begun, and its room once it has
\* consumed the ticket.
WellFilled(task) ==
  /\ task.pc = "idle" => task = IdleJoin
  /\ task.pc # "idle" => task.addr \in Addrs /\ task.player \in Players
  /\ task.pc \notin {"idle", "checked", "done"} => task.match \in Matches

TasksTyped ==
  /\ session \in [Addrs -> Session \cup {None}]
  /\ joinTask \in [JoinTasks -> JoinTask]
  /\ \A j \in JoinTasks : WellFilled(joinTask[j])

\* One task moves on and the others stand still.
Moves(j, task) ==
  joinTask' = [k \in JoinTasks |-> IF k = j THEN task ELSE joinTask[k]]

LEMMA MovesTyped ==
  ASSUME TasksTyped, NEW j \in JoinTasks, NEW task \in JoinTask, WellFilled(task),
         Moves(j, task), session' \in [Addrs -> Session \cup {None}]
  PROVE  TasksTyped'
<1>1. joinTask' \in [JoinTasks -> JoinTask]
  BY DEF TasksTyped, Moves
<1>2. \A k \in JoinTasks : WellFilled(joinTask'[k])
  BY DEF TasksTyped, Moves
<1>3. \A k \in JoinTasks : WellFilled(joinTask[k])'
  BY <1>2 DEF WellFilled, IdleJoin
<1> QED
  BY <1>1, <1>3 DEF TasksTyped

\* A step of a join task changes pc, and what else it learns.
LEMMA PcMoves ==
  ASSUME TasksTyped, NEW j \in JoinTasks, NEW pc, JoinStep(j, pc)
  PROVE  Moves(j, [joinTask[j] EXCEPT !.pc = pc])
BY DEF TasksTyped, Moves, JoinStep

\* What each step of handle_join and remove_client does to its task.
LEMMA JoinMoves ==
  ASSUME TasksTyped, TypeOK, NEW j \in JoinTasks, JoinProgress(j)
  PROVE  \E task \in JoinTask :
           /\ WellFilled(task)
           /\ Moves(j, task)
           /\ session' \in [Addrs -> Session \cup {None}]
<1> DEFINE mine == joinTask[j]
           To(pc) == [mine EXCEPT !.pc = pc]
<1>1. mine \in JoinTask /\ WellFilled(mine) /\ joinTask \in [JoinTasks -> JoinTask]
  BY DEF TasksTyped
<1>2. ASSUME mine.pc # "idle", JoinStep(j, "done"), UNCHANGED session
      PROVE  \E task \in JoinTask :
               WellFilled(task) /\ Moves(j, task) /\ session' \in [Addrs -> Session \cup {None}]
  <2>1. To("done") \in JoinTask /\ WellFilled(To("done"))
    BY <1>1, <1>2 DEF JoinTask, WellFilled
  <2> QED
    BY <1>2, <2>1, PcMoves DEF TasksTyped
<1>3. CASE ConsumeStep(j)
  <2>1. CASE Refuse(j, "auth_failed")
    BY <1>2, <1>3, <2>1 DEF ConsumeStep, Refuse, JoinAt
  <2>2. ASSUME NEW t \in tickets, t.player = mine.player,
               joinTask' = [joinTask EXCEPT ![j].pc = "claimed", ![j].match = t.match]
        PROVE  \E task \in JoinTask :
                 WellFilled(task) /\ Moves(j, task) /\ session' \in [Addrs -> Session \cup {None}]
    <3> DEFINE task == [mine EXCEPT !.pc = "claimed", !.match = t.match]
    <3>1. t.match \in Matches
      BY DEF TypeOK, Ticket
    <3>2. mine.pc = "checked" /\ UNCHANGED session
      BY <1>3 DEF ConsumeStep, JoinAt
    <3>3. task \in JoinTask /\ WellFilled(task)
      BY <1>1, <3>1, <3>2 DEF JoinTask, WellFilled
    <3>4. Moves(j, task)
      BY <1>1, <2>2 DEF Moves
    <3> QED
      BY <3>2, <3>3, <3>4 DEF TasksTyped
  <2> QED
    BY <1>3, <2>1, <2>2 DEF ConsumeStep
<1>4. CASE RegisterStep(j)
  <2>1. mine.pc = "claimed" /\ UNCHANGED session
    BY <1>4 DEF RegisterStep, JoinAt
  <2>2. CASE Refuse(j, "join_failed")
    BY <1>2, <2>1, <2>2 DEF Refuse
  <2>3. CASE JoinStep(j, "registered")
    <3>1. To("registered") \in JoinTask /\ WellFilled(To("registered"))
      BY <1>1, <2>1 DEF JoinTask, WellFilled
    <3> QED
      BY <2>1, <2>3, <3>1, PcMoves DEF TasksTyped
  <2> QED
    BY <1>4, <2>2, <2>3 DEF RegisterStep
<1>5. CASE InsertSession(j)
  <2>1. mine.pc = "registered" /\ JoinStep(j, "inserted")
    BY <1>5 DEF InsertSession, SessionOf, JoinAt
  <2>2. To("inserted") \in JoinTask /\ WellFilled(To("inserted"))
    BY <1>1, <2>1 DEF JoinTask, WellFilled
  <2>3. [match |-> mine.match, player |-> mine.player] \in Session
    BY <1>1, <2>1 DEF WellFilled, Session
  <2>4. session' \in [Addrs -> Session \cup {None}]
    BY <1>5, <2>3 DEF InsertSession, SessionOf, TasksTyped
  <2> QED
    BY <2>1, <2>2, <2>4, PcMoves
<1>6. CASE SendJoinOk(j)
  <2>1. mine.pc = "inserted" /\ UNCHANGED session
    BY <1>6 DEF SendJoinOk, JoinAt
  <2>2. CASE JoinStep(j, "done")
    BY <1>2, <2>1, <2>2
  <2>3. CASE JoinStep(j, "failed")
    <3>1. To("failed") \in JoinTask /\ WellFilled(To("failed"))
      BY <1>1, <2>1 DEF JoinTask, WellFilled
    <3> QED
      BY <2>1, <2>3, <3>1, PcMoves DEF TasksTyped
  <2> QED
    BY <1>6, <2>2, <2>3 DEF SendJoinOk
<1>7. CASE RemoveSession(j)
  <2> DEFINE s == session[mine.addr]
  <2>1. mine.pc = "failed" /\ mine.addr \in Addrs
    BY <1>1, <1>7 DEF RemoveSession, JoinAt, WellFilled
  <2>2. session' \in [Addrs -> Session \cup {None}]
    BY <1>7 DEF RemoveSession, TasksTyped
  <2>3. CASE s = None
    <3>1. JoinStep(j, "done")
      BY <1>7, <2>3 DEF RemoveSession
    <3>2. To("done") \in JoinTask /\ WellFilled(To("done"))
      BY <1>1, <2>1 DEF JoinTask, WellFilled
    <3> QED
      BY <2>2, <3>1, <3>2, PcMoves
  <2>4. CASE s # None
    <3> DEFINE task == [mine EXCEPT !.pc = "removing", !.match = s.match, !.player = s.player]
    <3>1. s.match \in Matches /\ s.player \in Players
      BY <2>1, <2>4 DEF TasksTyped, Session
    <3>2. task \in JoinTask /\ WellFilled(task)
      BY <1>1, <2>1, <3>1 DEF JoinTask, WellFilled
    <3>3. Moves(j, task)
      BY <1>1, <1>7, <2>4 DEF RemoveSession, Moves
    <3> QED
      BY <2>2, <3>2, <3>3
  <2> QED
    BY <2>3, <2>4
<1>8. CASE RemoveStep(j)
  BY <1>2, <1>8 DEF RemoveStep, JoinAt
<1> QED
  BY <1>3, <1>4, <1>5, <1>6, <1>7, <1>8 DEF JoinProgress

LEMMA TasksTypedStep == TasksTyped /\ TypeOK /\ [UdpNext]_allVars => TasksTyped'
<1> SUFFICES ASSUME TasksTyped, TypeOK, [UdpNext]_allVars PROVE TasksTyped'
  OBVIOUS
<1>1. ASSUME UNCHANGED <<session, joinTask>> PROVE TasksTyped'
  BY <1>1 DEF TasksTyped, WellFilled, IdleJoin
<1>2. ASSUME NEW j \in JoinTasks, JoinProgress(j) PROVE TasksTyped'
  BY <1>2, JoinMoves, MovesTyped
<1>3. ASSUME NEW j \in JoinTasks, NEW a \in Addrs, NEW p \in Players, ReceiveJoin(j, a, p)
      PROVE  TasksTyped'
  <2> DEFINE task == [pc |-> "checked", addr |-> a, player |-> p, match |-> None]
  <2>1. task \in JoinTask /\ WellFilled(task)
    BY DEF JoinTask, WellFilled
  <2>2. Moves(j, task) /\ UNCHANGED session
    BY <1>3 DEF ReceiveJoin, Moves, TasksTyped
  <2> QED
    BY <2>1, <2>2, MovesTyped DEF TasksTyped
<1>4. ASSUME ~\E j \in JoinTasks : JoinProgress(j),
             ~\E j \in JoinTasks, a \in Addrs, p \in Players : ReceiveJoin(j, a, p)
      PROVE  UNCHANGED <<session, joinTask>>
  BY <1>4 DEF UdpNext, ServerStep, OtherCore, udpVars, taskVars, allVars, StartStep,
              UpdateStep, ReplyError, CastProgress, ReadTargets, CastOn, AbandonCast, Pump,
              ReceiveParamChange
<1> QED
  BY <1>1, <1>2, <1>3, <1>4

-----------------------------------------------------------------------------
(* A place in a room has one keeper *)

\* A task that has consumed a ticket, or has taken a session out, and has not yet
\* passed the player on.
Keeps(j) == joinTask[j].pc \in {"claimed", "registered", "removing"}

\* A task whose player is in the room, if the room is still there.
Placed(j) == joinTask[j].pc \in {"registered", "removing"}

\* Nobody else has p: no other task, no ticket, no session.
Kept(j) ==
  LET p == joinTask[j].player IN
  /\ p \in drawnPlayers /\ joinTask[j].match \in drawnMatches
  /\ \A t \in tickets : t.player # p
  /\ \A a \in Addrs : session[a] # None => session[a].player # p
  /\ \A k \in JoinTasks : k # j /\ Keeps(k) => joinTask[k].player # p

\* The player of a session is drawn, has no ticket any more, and is in the room.
Backed(a) ==
  session[a] # None =>
    /\ session[a].player \in drawnPlayers /\ session[a].match \in drawnMatches
    /\ \A t \in tickets : t.player # session[a].player
    /\ session[a].match \in matches => session[a].player \in players[session[a].match]
    /\ \A b \in Addrs : a # b /\ session[b] # None => session[a].player # session[b].player

Claims == {[player |-> joinTask[j].player, match |-> joinTask[j].match] :
              j \in {k \in JoinTasks : JoinAt(k, "claimed")}}

Keepers ==
  /\ joining = Claims
  /\ \A j \in JoinTasks : Keeps(j) => Kept(j)
  /\ \A j \in JoinTasks : Placed(j) /\ joinTask[j].match \in matches
                             => joinTask[j].player \in players[joinTask[j].match]
  /\ \A a \in Addrs : Backed(a)

\* Steps that leave tasks, sessions and claims alone, take nobody out of a room that
\* stays, issue tickets to new players only and open new rooms only.
LEMMA KeepersQuiet ==
  ASSUME Keepers, UNCHANGED <<session, joinTask, joining>>,
         matches' \cap drawnMatches \subseteq matches,
         drawnMatches \subseteq drawnMatches', drawnPlayers \subseteq drawnPlayers',
         \A t \in tickets' \ tickets : t.player \notin drawnPlayers,
         \A m \in matches \cap matches' : players[m] \subseteq players'[m]
  PROVE  Keepers'
<1>1. joining' = Claims'
  BY DEF Keepers, Claims, JoinAt
<1>2. ASSUME NEW j \in JoinTasks, Keeps(j)' PROVE Kept(j)'
  <2>1. Keeps(j) /\ Kept(j)
    BY <1>2 DEF Keeps, Keepers
  <2> QED
    BY <2>1 DEF Kept, Keeps
<1>3. ASSUME NEW j \in JoinTasks, Placed(j)', joinTask'[j].match \in matches'
      PROVE  joinTask'[j].player \in players'[joinTask'[j].match]
  <2>1. joinTask[j].match \in drawnMatches
    BY <1>3 DEF Keepers, Keeps, Kept, JoinAt, Placed
  <2> QED
    BY <1>3, <2>1 DEF Keepers, JoinAt, Placed
<1>4. ASSUME NEW a \in Addrs PROVE Backed(a)'
  BY DEF Keepers, Backed
<1> QED
  BY <1>1, <1>2, <1>3, <1>4 DEF Keepers

\* What happens beside the joins is quiet in this sense.
LEMMA KeepersBeside ==
  ASSUME Keepers, TypeOK, TypeOK', [UdpNext]_allVars,
         ~\E j \in JoinTasks : JoinProgress(j),
         ~\E j \in JoinTasks, a \in Addrs, p \in Players : ReceiveJoin(j, a, p)
  PROVE  Keepers'
<1> USE DEF roomVars, drawnVars
<1>1. ASSUME UNCHANGED <<session, joinTask, joining, matches, drawnVars, tickets, players>>
      PROVE  Keepers'
  BY <1>1, KeepersQuiet
<1>2. CASE OtherCore
  <2>0. UNCHANGED <<session, joinTask>>
    BY <1>2 DEF OtherCore, udpVars, taskVars
  <2>1. ASSUME NEW m \in Matches, CreateRoom(m) PROVE Keepers'
    BY <2>0, <2>1, KeepersQuiet DEF CreateRoom, TypeOK
  <2>2. ASSUME NEW S \in SUBSET matches, DropRooms(S), UNCHANGED <<joining, drawnVars>>
        PROVE  Keepers'
    <3>1. matches' \subseteq matches /\ tickets' \subseteq tickets
      BY <2>2 DEF DropRooms, TicketsWithout
    <3>2. \A m \in matches' : players'[m] = players[m]
      BY <2>2 DEF DropRooms, TicketsWithout, TypeOK
    <3> QED
      BY <2>0, <2>2, <3>1, <3>2, KeepersQuiet
  <2>3. ASSUME NEW m \in Matches, DeleteRoom(m) PROVE Keepers'
    BY <2>2, <2>3 DEF DeleteRoom
  <2>4. CASE SweepApply
    BY <2>2, <2>4 DEF SweepApply, Stale
  <2>5. ASSUME NEW m \in Matches, NEW p \in Players, IssueJoinTicket(m, p) PROVE Keepers'
    <3>1. /\ tickets' = tickets \cup {NewTicket(m, p)} /\ NewTicket(m, p).player = p
          /\ p \notin drawnPlayers /\ drawnPlayers \subseteq drawnPlayers'
          /\ UNCHANGED <<joining, matches, players, drawnMatches>>
      BY <2>5 DEF IssueJoinTicket, NewTicket
    <3> QED
      BY <2>0, <3>1, KeepersQuiet
  <2>6. ASSUME NEW m \in Matches, NEW p \in Players, FinishRoom(m, p) PROVE Keepers'
    BY <1>1, <2>0, <2>6 DEF FinishRoom
  <2>7. CASE SweepBegin
    BY <1>1, <2>0, <2>7 DEF SweepBegin
  <2>8. CASE Tick
    BY <1>1, <2>0, <2>8 DEF Tick
  <2> QED
    BY <1>2, <2>1, <2>3, <2>4, <2>5, <2>6, <2>7, <2>8 DEF OtherCore
<1>3. ASSUME NEW m \in Matches, StartStep(m) PROVE Keepers'
  BY <1>1, <1>3 DEF StartStep, StartRoom, Startable
<1>4. ASSUME NEW c \in ParamTasks, UpdateStep(c) \/ ReplyError(c) PROVE Keepers'
  BY <1>1, <1>4 DEF UpdateStep, ReplyError, UpdatePlayerParams, vars
<1>5. CASE CastProgress
  BY <1>1, <1>5 DEF CastProgress, ReadTargets, CastOn, vars
<1>6. ASSUME NEW b \in casts, AbandonCast(b) PROVE Keepers'
  BY <1>1, <1>6 DEF AbandonCast, vars
<1>7. ASSUME NEW a \in Addrs, Pump(a) PROVE Keepers'
  BY <1>1, <1>7 DEF Pump, vars
<1>8. ASSUME NEW c \in ParamTasks, NEW a \in Addrs, NEW param \in Kinds,
             NEW direction \in ParamDirection, ReceiveParamChange(c, a, param, direction)
      PROVE  Keepers'
  BY <1>1, <1>8 DEF ReceiveParamChange, vars
<1>9. CASE UNCHANGED allVars
  BY <1>1, <1>9 DEF allVars, udpVars, taskVars, vars
<1> QED
  BY <1>2, <1>3, <1>4, <1>5, <1>6, <1>7, <1>8, <1>9 DEF UdpNext, ServerStep

\* A task that keeps nobody before and after, while nothing else moves.
LEMMA KeepersIdle ==
  ASSUME Keepers, TasksTyped, NEW j \in JoinTasks, NEW task \in JoinTask, Moves(j, task),
         ~Keeps(j), task.pc \notin {"claimed", "registered", "removing"},
         UNCHANGED <<session, joining, matches, players, drawnVars>>,
         tickets' \subseteq tickets
  PROVE  Keepers'
<1> USE DEF drawnVars
<1>1. ~Keeps(j)' /\ \A k \in JoinTasks : k # j => joinTask'[k] = joinTask[k]
  BY DEF Moves, Keeps
<1>2. joining' = Claims'
  <2>1. {k \in JoinTasks : joinTask'[k].pc = "claimed"} = {k \in JoinTasks : joinTask[k].pc = "claimed"}
    BY <1>1 DEF Keeps
  <2>2. \A k \in {l \in JoinTasks : joinTask[l].pc = "claimed"} : joinTask'[k] = joinTask[k]
    BY <1>1 DEF Keeps
  <2>3. Claims' = Claims
    BY <2>1, <2>2 DEF Claims, JoinAt
  <2> QED
    BY <2>3 DEF Keepers
<1>3. ASSUME NEW k \in JoinTasks, Keeps(k)' PROVE Kept(k)'
  <2>1. k # j /\ Keeps(k) /\ Kept(k)
    BY <1>1, <1>3 DEF Keeps, Keepers
  <2> QED
    BY <1>1, <2>1 DEF Kept, Keeps
<1>4. ASSUME NEW k \in JoinTasks, Placed(k)', joinTask'[k].match \in matches'
      PROVE  joinTask'[k].player \in players'[joinTask'[k].match]
  BY <1>1, <1>4 DEF Keepers, JoinAt, Keeps, Placed
<1>5. \A a \in Addrs : Backed(a)'
  BY DEF Keepers, Backed
<1> QED
  BY <1>2, <1>3, <1>4, <1>5 DEF Keepers

\* The task that consumes a ticket is the only one to have its player.
LEMMA KeepersConsume ==
  ASSUME Keepers, TasksTyped, TypeOK, SingleAdmission, TicketsNameLiveRooms,
         NEW j \in JoinTasks, ConsumeStep(j)
  PROVE  Keepers'
<1> USE DEF roomVars, drawnVars
<1> DEFINE mine == joinTask[j]
<1>0. mine.pc = "checked" /\ mine \in JoinTask /\ UNCHANGED session
  BY DEF ConsumeStep, JoinAt, TasksTyped
<1>1. ASSUME Refuse(j, "auth_failed"), UNCHANGED joining, tickets' \subseteq tickets,
             UNCHANGED <<matches, players, drawnVars>>
      PROVE  Keepers'
  <2>1. Moves(j, [mine EXCEPT !.pc = "done"])
    BY <1>1, PcMoves DEF Refuse
  <2>2. [mine EXCEPT !.pc = "done"] \in JoinTask
    BY <1>0 DEF JoinTask
  <2> QED
    BY <1>0, <1>1, <2>1, <2>2, KeepersIdle DEF Keeps, JoinTask
<1>2. ASSUME NEW t \in tickets, t.player = mine.player, ConsumeTicket(t), t.expires >= now,
             joinTask' = [joinTask EXCEPT ![j].pc = "claimed", ![j].match = t.match]
      PROVE  Keepers'
  <2> DEFINE p == mine.player
             c == [player |-> p, match |-> t.match]
  <2>1. /\ joinTask'[j].pc = "claimed" /\ joinTask'[j].player = p
        /\ joinTask'[j].match = t.match
        /\ \A k \in JoinTasks : k # j => joinTask'[k] = joinTask[k]
    BY <1>0, <1>2 DEF TasksTyped, JoinTask
  <2>2. /\ joining' = joining \cup {c}
        /\ tickets' = tickets \ {t}
        /\ UNCHANGED <<matches, players, drawnVars>>
    <3>1. ~(t.expires < now)
      BY <1>2 DEF TypeOK, Ticket
    <3> QED
      BY <1>2, <3>1 DEF ConsumeTicket
  <2>3. \A u \in tickets' : u.player # p
    BY <1>2, <2>2 DEF SingleAdmission
  <2>4. p \in drawnPlayers /\ t.match \in drawnMatches
    BY <1>2 DEF TypeOK, TicketsNameLiveRooms
  <2>5. \A k \in JoinTasks : Keeps(k) => joinTask[k].player # p
    BY <1>2 DEF Keepers, Kept
  <2>6. \A a \in Addrs : session[a] # None => session[a].player # p
    BY <1>2 DEF Keepers, Backed
  <2>7. joining' = Claims'
    <3>1. {k \in JoinTasks : joinTask'[k].pc = "claimed"}
            = {k \in JoinTasks : joinTask[k].pc = "claimed"} \cup {j}
      BY <1>0, <2>1
    <3>2. \A k \in {l \in JoinTasks : joinTask[l].pc = "claimed"} : joinTask'[k] = joinTask[k]
      BY <1>0, <2>1
    <3>3. Claims' = Claims \cup {c}
      BY <2>1, <3>1, <3>2 DEF Claims, JoinAt
    <3> QED
      BY <2>2, <3>3 DEF Keepers
  <2>8. ASSUME NEW k \in JoinTasks, Keeps(k)' PROVE Kept(k)'
    <3>1. CASE k = j
      BY <1>0, <2>1, <2>2, <2>3, <2>4, <2>5, <2>6, <3>1 DEF Kept, Keeps
    <3>2. CASE k # j
      <4>1. Keeps(k) /\ Kept(k)
        BY <2>1, <2>8, <3>2 DEF Keeps, Keepers
      <4>2. ASSUME NEW l \in JoinTasks, l # k, Keeps(l)'
            PROVE  joinTask'[l].player # joinTask'[k].player
        <5>1. CASE l = j
          BY <2>1, <2>5, <3>2, <4>1, <5>1
        <5>2. CASE l # j
          BY <2>1, <3>2, <4>1, <4>2, <5>2 DEF Kept, Keeps
        <5> QED
          BY <5>1, <5>2
      <4> QED
        BY <1>0, <2>1, <2>2, <3>2, <4>1, <4>2 DEF Kept
    <3> QED
      BY <3>1, <3>2
  <2>9. ASSUME NEW k \in JoinTasks, Placed(k)', joinTask'[k].match \in matches'
        PROVE  joinTask'[k].player \in players'[joinTask'[k].match]
    <3>1. k # j
      BY <2>1, <2>9 DEF Placed
    <3> QED
      BY <2>1, <2>2, <2>9, <3>1 DEF Keepers, JoinAt, Placed
  <2>10. \A a \in Addrs : Backed(a)'
    BY <1>0, <2>2 DEF Keepers, Backed
  <2> QED
    BY <2>7, <2>8, <2>9, <2>10 DEF Keepers
<1>3. ASSUME NEW t \in tickets, ConsumeTicket(t), t.expires < now, Refuse(j, "auth_failed")
      PROVE  Keepers'
  BY <1>1, <1>3 DEF ConsumeTicket
<1>4. ASSUME Refuse(j, "auth_failed"), UNCHANGED vars PROVE Keepers'
  BY <1>1, <1>4 DEF vars
<1> QED
  BY <1>2, <1>3, <1>4 DEF ConsumeStep

\* Registration passes the player on to the room, or to nobody.
LEMMA KeepersRegister ==
  ASSUME Keepers, TasksTyped, TypeOK, NEW j \in JoinTasks, RegisterStep(j)
  PROVE  Keepers'
<1> USE DEF roomVars, drawnVars
<1> DEFINE mine == joinTask[j]
           p == mine.player
           m == mine.match
           c == [player |-> p, match |-> m]
<1>1. /\ mine.pc = "claimed" /\ mine \in JoinTask /\ p \in Players /\ m \in Matches
      /\ Keeps(j) /\ Kept(j) /\ UNCHANGED session
  BY DEF RegisterStep, JoinAt, TasksTyped, WellFilled, Keeps, Keepers, Placed
<1>2. PICK pc \in {"registered", "done"} :
        JoinStep(j, pc) /\ (pc = "registered" <=> Admissible(m, p))
  BY DEF RegisterStep, Refuse
<1>3. /\ joinTask'[j].pc = pc /\ joinTask'[j].player = p /\ joinTask'[j].match = m
      /\ \A k \in JoinTasks : k # j => joinTask'[k] = joinTask[k]
  BY <1>1, <1>2, PcMoves DEF Moves, JoinTask
<1>4. /\ joining' = joining \ {c}
      /\ UNCHANGED <<matches, tickets, drawnVars>>
      /\ pc = "registered" => players' = [players EXCEPT ![m] = @ \cup {p}]
      /\ pc = "done" => players' = players
  BY <1>2 DEF RegisterStep, RegisterPlayer
<1>5. /\ \A n \in Matches : players[n] \subseteq players'[n]
      /\ pc = "registered" => p \in players'[m]
  <2>1. DOMAIN players = Matches
    BY DEF TypeOK
  <2>2. CASE pc = "registered"
    <3>1. players' = [players EXCEPT ![m] = @ \cup {p}]
      BY <1>4, <2>2
    <3> HIDE DEF m, p
    <3> QED
      BY <1>1, <2>1, <3>1
  <2>3. CASE pc = "done"
    <3>1. players' = players
      BY <1>4, <2>3
    <3> QED
      BY <2>3, <3>1
  <2> QED
    BY <1>2, <2>2, <2>3
<1>6. joining' = Claims'
  <2>1. \A k \in JoinTasks : k # j /\ JoinAt(k, "claimed") => joinTask[k].player # p
    BY <1>1 DEF Kept, Keeps, JoinAt
  <2>2. {k \in JoinTasks : joinTask'[k].pc = "claimed"}
          = {k \in JoinTasks : joinTask[k].pc = "claimed"} \ {j}
    BY <1>2, <1>3
  <2>3. Claims' = {[player |-> joinTask[k].player, match |-> joinTask[k].match] :
                      k \in {l \in JoinTasks : joinTask[l].pc = "claimed"} \ {j}}
    BY <1>3, <2>2 DEF Claims, JoinAt
  <2>4. Claims = {[player |-> joinTask[k].player, match |-> joinTask[k].match] :
                      k \in {l \in JoinTasks : joinTask[l].pc = "claimed"} \ {j}} \cup {c}
    BY <1>1 DEF Claims, JoinAt
  <2>5. Claims' = Claims \ {c}
    BY <2>1, <2>3, <2>4 DEF JoinAt
  <2> QED
    BY <1>4, <2>5 DEF Keepers
<1>7. ASSUME NEW k \in JoinTasks, Keeps(k)' PROVE Kept(k)'
  <2>1. Keeps(k) /\ Kept(k) /\ joinTask'[k].player = joinTask[k].player
        /\ joinTask'[k].match = joinTask[k].match
    BY <1>1, <1>3, <1>7 DEF Keeps, Keepers
  <2>2. ASSUME NEW l \in JoinTasks, l # k, Keeps(l)'
        PROVE  joinTask'[l].player # joinTask'[k].player
    BY <1>1, <1>3, <2>1, <2>2 DEF Kept, Keeps
  <2> QED
    BY <1>1, <1>4, <2>1, <2>2 DEF Kept
<1>8. ASSUME NEW k \in JoinTasks, Placed(k)', joinTask'[k].match \in matches'
      PROVE  joinTask'[k].player \in players'[joinTask'[k].match]
  <2>1. CASE k = j
    BY <1>3, <1>5, <1>8, <2>1 DEF Placed
  <2>2. CASE k # j
    <3>1. joinTask[k].match \in Matches
      BY <1>4, <1>3, <1>8, <2>2 DEF TypeOK
    <3> QED
      BY <1>3, <1>4, <1>5, <1>8, <2>2, <3>1 DEF Keepers, JoinAt, Placed
  <2> QED
    BY <2>1, <2>2
<1>9. ASSUME NEW a \in Addrs PROVE Backed(a)'
  <2>1. session[a] # None => session[a].match \in Matches
    BY DEF TasksTyped, Session
  <2> QED
    BY <1>1, <1>4, <1>5, <2>1 DEF Keepers, Backed
<1> QED
  BY <1>6, <1>7, <1>8, <1>9 DEF Keepers

\* The insertion passes the player on to the session.
LEMMA KeepersInsert ==
  ASSUME Keepers, TasksTyped, TypeOK, NEW j \in JoinTasks, InsertSession(j)
  PROVE  Keepers'
<1> USE DEF roomVars, drawnVars
<1> DEFINE mine == joinTask[j]
           p == mine.player
           m == mine.match
           a == mine.addr
<1>1. /\ mine.pc = "registered" /\ mine \in JoinTask /\ a \in Addrs
      /\ Keeps(j) /\ Kept(j) /\ (m \in matches => p \in players[m])
  BY DEF InsertSession, SessionOf, JoinAt, TasksTyped, WellFilled, Keeps, Keepers, Placed
<1>2. UNCHANGED <<joining, matches, players, tickets, drawnVars>>
  BY DEF InsertSession, SessionOf, vars
<1>3. /\ joinTask'[j].pc = "inserted"
      /\ \A k \in JoinTasks : k # j => joinTask'[k] = joinTask[k]
  BY <1>1, PcMoves DEF InsertSession, SessionOf, Moves, JoinTask
<1>4. /\ session'[a].player = p /\ session'[a].match = m
      /\ \A b \in Addrs : b # a => session'[b] = session[b]
  BY <1>1 DEF InsertSession, SessionOf, TasksTyped
<1>5. joining' = Claims'
  <2>1. {k \in JoinTasks : joinTask'[k].pc = "claimed"} = {k \in JoinTasks : joinTask[k].pc = "claimed"}
    BY <1>1, <1>3
  <2>2. \A k \in {l \in JoinTasks : joinTask[l].pc = "claimed"} : joinTask'[k] = joinTask[k]
    BY <1>1, <1>3
  <2>3. Claims' = Claims
    BY <2>1, <2>2 DEF Claims, JoinAt
  <2> QED
    BY <1>2, <2>3 DEF Keepers
<1>6. ASSUME NEW k \in JoinTasks, Keeps(k)' PROVE Kept(k)'
  <2>1. k # j /\ Keeps(k) /\ Kept(k) /\ joinTask'[k] = joinTask[k]
    BY <1>3, <1>6 DEF Keeps, Keepers
  <2>2. joinTask[k].player # p
    BY <1>1, <2>1 DEF Kept
  <2>3. ASSUME NEW l \in JoinTasks, l # k, Keeps(l)'
        PROVE  joinTask'[l].player # joinTask'[k].player
    BY <1>3, <2>1, <2>3 DEF Kept, Keeps
  <2> QED
    BY <1>2, <1>4, <2>1, <2>2, <2>3 DEF Kept
<1>7. ASSUME NEW k \in JoinTasks, Placed(k)', joinTask'[k].match \in matches'
      PROVE  joinTask'[k].player \in players'[joinTask'[k].match]
  BY <1>2, <1>3, <1>7 DEF Keepers, JoinAt, Placed
<1>8. ASSUME NEW b \in Addrs PROVE Backed(b)'
  <2>1. CASE b = a
    BY <1>1, <1>2, <1>4, <2>1 DEF Kept, Backed
  <2>2. CASE b # a
    BY <1>1, <1>2, <1>4, <2>2 DEF Kept, Keepers, Backed
  <2> QED
    BY <2>1, <2>2
<1> QED
  BY <1>5, <1>6, <1>7, <1>8 DEF Keepers

\* remove_client takes a session, or finds none.
LEMMA KeepersRemoveSession ==
  ASSUME Keepers, TasksTyped, TypeOK, NEW j \in JoinTasks, RemoveSession(j)
  PROVE  Keepers'
<1> USE DEF roomVars, drawnVars
<1> DEFINE mine == joinTask[j]
           a == mine.addr
           s == session[a]
<1>1. mine.pc = "failed" /\ mine \in JoinTask /\ a \in Addrs
  BY DEF RemoveSession, JoinAt, TasksTyped, WellFilled
<1>2. UNCHANGED <<joining, matches, players, tickets, drawnVars>>
  BY DEF RemoveSession, vars
<1>3. CASE s = None
  <2>1. Moves(j, [mine EXCEPT !.pc = "done"])
    BY <1>3, PcMoves DEF RemoveSession
  <2>2. [mine EXCEPT !.pc = "done"] \in JoinTask
    BY <1>1 DEF JoinTask
  <2>3. UNCHANGED session
    BY <1>1, <1>3 DEF RemoveSession, TasksTyped
  <2> QED
    BY <1>1, <1>2, <2>1, <2>2, <2>3, KeepersIdle DEF Keeps, JoinTask
<1>4. CASE s # None
  <2> DEFINE p == s.player
  <2>1. /\ joinTask'[j].pc = "removing" /\ joinTask'[j].player = p
        /\ joinTask'[j].match = s.match
        /\ \A k \in JoinTasks : k # j => joinTask'[k] = joinTask[k]
    BY <1>1, <1>4 DEF RemoveSession, TasksTyped, JoinTask
  <2>2. session'[a] = None /\ \A b \in Addrs : b # a => session'[b] = session[b]
    BY <1>1 DEF RemoveSession, TasksTyped
  <2>3. Backed(a)
    BY <1>1 DEF Keepers
  <2>4. \A k \in JoinTasks : Keeps(k) => joinTask[k].player # p
    BY <1>1, <1>4 DEF Keepers, Kept
  <2>5. \A b \in Addrs : session'[b] # None => session'[b].player # p
    BY <1>4, <2>2, <2>3 DEF Backed
  <2>6. joining' = Claims'
    <3>1. {k \in JoinTasks : joinTask'[k].pc = "claimed"} = {k \in JoinTasks : joinTask[k].pc = "claimed"}
      BY <1>1, <2>1
    <3>2. \A k \in {l \in JoinTasks : joinTask[l].pc = "claimed"} : joinTask'[k] = joinTask[k]
      BY <1>1, <2>1
    <3>3. Claims' = Claims
      BY <3>1, <3>2 DEF Claims, JoinAt
    <3> QED
      BY <1>2, <3>3 DEF Keepers
  <2>7. ASSUME NEW k \in JoinTasks, Keeps(k)' PROVE Kept(k)'
    <3>1. CASE k = j
      BY <1>2, <1>4, <2>1, <2>3, <2>4, <2>5, <3>1 DEF Kept, Keeps, Backed
    <3>2. CASE k # j
      <4>1. Keeps(k) /\ Kept(k) /\ joinTask'[k] = joinTask[k]
        BY <2>1, <2>7, <3>2 DEF Keeps, Keepers
      <4>2. ASSUME NEW l \in JoinTasks, l # k, Keeps(l)'
            PROVE  joinTask'[l].player # joinTask'[k].player
        <5>1. CASE l = j
          BY <2>1, <2>4, <4>1, <5>1
        <5>2. CASE l # j
          BY <2>1, <4>1, <4>2, <5>2 DEF Kept, Keeps
        <5> QED
          BY <5>1, <5>2
      <4> QED
        BY <1>2, <2>2, <4>1, <4>2 DEF Kept
    <3> QED
      BY <3>1, <3>2
  <2>8. ASSUME NEW k \in JoinTasks, Placed(k)', joinTask'[k].match \in matches'
        PROVE  joinTask'[k].player \in players'[joinTask'[k].match]
    BY <1>2, <1>4, <2>1, <2>3, <2>8 DEF Keepers, Backed, Placed
  <2>9. ASSUME NEW b \in Addrs PROVE Backed(b)'
    BY <1>2, <2>2 DEF Keepers, Backed
  <2> QED
    BY <2>6, <2>7, <2>8, <2>9 DEF Keepers
<1> QED
  BY <1>3, <1>4

\* Whoever remove_client takes out of a room has no session and no task any more.
LEMMA KeepersRemove ==
  ASSUME Keepers, TasksTyped, TypeOK, NEW j \in JoinTasks, RemoveStep(j)
  PROVE  Keepers'
<1> USE DEF roomVars, drawnVars
<1> DEFINE mine == joinTask[j]
           p == mine.player
           m == mine.match
<1>1. mine.pc = "removing" /\ mine \in JoinTask /\ Kept(j) /\ UNCHANGED session
  BY DEF RemoveStep, JoinAt, TasksTyped, Keeps, Keepers
<1>2. /\ joinTask'[j].pc = "done"
      /\ \A k \in JoinTasks : k # j => joinTask'[k] = joinTask[k]
  BY <1>1, PcMoves DEF RemoveStep, Moves, JoinTask
<1>3. /\ UNCHANGED <<joining, matches, tickets, drawnVars>>
      /\ \A n \in Matches : players[n] \ {p} \subseteq players'[n]
  <2>1. CASE RemovePlayer(m, p)
    <3>1. UNCHANGED <<joining, matches, tickets, drawnVars>>
      BY <2>1 DEF RemovePlayer
    <3>2. players' = [players EXCEPT ![m] = @ \ {p}]
      BY <2>1 DEF RemovePlayer
    <3>3. players \in [Matches -> SUBSET Players]
      BY DEF TypeOK
    <3> QED
      BY <3>1, <3>2, <3>3
  <2>2. CASE UNCHANGED vars
    BY <2>2 DEF vars
  <2> QED
    BY <2>1, <2>2 DEF RemoveStep
<1>4. joining' = Claims'
  <2>1. {k \in JoinTasks : joinTask'[k].pc = "claimed"} = {k \in JoinTasks : joinTask[k].pc = "claimed"}
    BY <1>1, <1>2
  <2>2. \A k \in {l \in JoinTasks : joinTask[l].pc = "claimed"} : joinTask'[k] = joinTask[k]
    BY <1>1, <1>2
  <2>3. Claims' = Claims
    BY <2>1, <2>2 DEF Claims, JoinAt
  <2> QED
    BY <1>3, <2>3 DEF Keepers
<1>5. ASSUME NEW k \in JoinTasks, Keeps(k)' PROVE Kept(k)'
  <2>1. k # j /\ Keeps(k) /\ Kept(k) /\ joinTask'[k] = joinTask[k]
    BY <1>2, <1>5 DEF Keeps, Keepers
  <2>2. ASSUME NEW l \in JoinTasks, l # k, Keeps(l)'
        PROVE  joinTask'[l].player # joinTask'[k].player
    BY <1>2, <2>1, <2>2 DEF Kept, Keeps
  <2> QED
    BY <1>1, <1>3, <2>1, <2>2 DEF Kept
<1>6. ASSUME NEW k \in JoinTasks, Placed(k)', joinTask'[k].match \in matches'
      PROVE  joinTask'[k].player \in players'[joinTask'[k].match]
  <2>1. k # j /\ joinTask'[k] = joinTask[k] /\ Placed(k)
    BY <1>2, <1>6 DEF Placed
  <2>2. joinTask[k].player # p
    BY <1>1, <2>1 DEF Kept, Keeps, Placed
  <2>3. joinTask[k].match \in Matches /\ joinTask[k].player \in players[joinTask[k].match]
    BY <1>3, <1>6, <2>1 DEF Keepers, JoinAt, Placed, TypeOK
  <2> QED
    BY <1>3, <2>1, <2>2, <2>3
<1>7. ASSUME NEW a \in Addrs PROVE Backed(a)'
  <2>1. session[a] # None => session[a].match \in Matches /\ session[a].player # p
    BY <1>1 DEF TasksTyped, Session, Kept
  <2> QED
    BY <1>1, <1>3, <2>1 DEF Keepers, Backed
<1> QED
  BY <1>4, <1>5, <1>6, <1>7 DEF Keepers

\* Every step of the server leaves each place with its one keeper.
LEMMA KeepersStep ==
  Keepers /\ TasksTyped /\ TypeOK /\ TypeOK' /\ SingleAdmission /\ TicketsNameLiveRooms
    /\ [UdpNext]_allVars => Keepers'
<1> SUFFICES ASSUME Keepers, TasksTyped, TypeOK, TypeOK', SingleAdmission,
                    TicketsNameLiveRooms, [UdpNext]_allVars
             PROVE  Keepers'
  OBVIOUS
<1> USE DEF roomVars, drawnVars
<1>1. ASSUME NEW j \in JoinTasks, NEW a \in Addrs, NEW p \in Players, ReceiveJoin(j, a, p)
      PROVE  Keepers'
  <2> DEFINE task == [pc |-> "checked", addr |-> a, player |-> p, match |-> None]
  <2>1. task \in JoinTask /\ task.pc = "checked"
    BY DEF JoinTask
  <2>2. Moves(j, task) /\ ~Keeps(j)
    BY <1>1 DEF ReceiveJoin, Moves, TasksTyped, JoinAt, Keeps
  <2>3. UNCHANGED <<session, joining, matches, players, drawnVars, tickets>>
    BY <1>1 DEF ReceiveJoin, vars
  <2> HIDE DEF task
  <2> QED
    BY <2>1, <2>2, <2>3, KeepersIdle
<1>2. ASSUME NEW j \in JoinTasks, SendJoinOk(j) PROVE Keepers'
  <2>1. PICK pc \in {"done", "failed"} : JoinStep(j, pc)
    BY <1>2 DEF SendJoinOk
  <2> DEFINE task == [joinTask[j] EXCEPT !.pc = pc]
  <2>2. task \in JoinTask /\ task.pc = pc
    BY DEF TasksTyped, JoinTask
  <2>3. Moves(j, task) /\ ~Keeps(j)
    BY <1>2, <2>1, PcMoves DEF SendJoinOk, JoinAt, Keeps
  <2>4. UNCHANGED <<session, joining, matches, players, drawnVars, tickets>>
    BY <1>2 DEF SendJoinOk, vars
  <2> HIDE DEF task
  <2> QED
    BY <2>2, <2>3, <2>4, KeepersIdle
<1>3. ASSUME NEW j \in JoinTasks, JoinProgress(j) PROVE Keepers'
  BY <1>2, <1>3, KeepersConsume, KeepersRegister, KeepersInsert, KeepersRemoveSession,
     KeepersRemove DEF JoinProgress
<1> QED
  BY <1>1, <1>3, KeepersBeside

LEMMA KeepersInit == UdpInit => TasksTyped /\ Keepers
<1> SUFFICES ASSUME UdpInit PROVE TasksTyped /\ Keepers
  OBVIOUS
<1>1. /\ \A j \in JoinTasks : joinTask[j] = IdleJoin /\ joinTask[j].pc = "idle"
      /\ \A a \in Addrs : session[a] = None
  BY DEF UdpInit, IdleJoin
<1>2. TasksTyped
  BY <1>1 DEF UdpInit, TasksTyped, JoinTask, WellFilled, IdleJoin
<1>3. joining = {} /\ Claims = {}
  BY <1>1 DEF UdpInit, Init, Claims, JoinAt
<1>4. Keepers
  BY <1>1, <1>3 DEF Keepers, Keeps, JoinAt, Backed, Placed
<1> QED
  BY <1>2, <1>4

LEMMA KeepersAlways == UdpSpec => []Keepers
<1>1. UdpSpec => []TypeOK /\ []SingleAdmission /\ []TicketsNameLiveRooms
  BY UdpImplementsControlPlane, TypeCorrect, AdmitsOnce, TicketsFollowRooms, PTL
     DEF ImplementsControlPlane
<1> QED
  BY <1>1, KeepersInit, TasksTypedStep, KeepersStep, PTL DEF UdpSpec

\* The players waiting to be registered are the ones claimed by a join task, and two
\* tasks never have the same player in hand, however often a join datagram is
\* repeated (udp_connection.rs, handle_join after consume_ticket).
THEOREM ClaimsAlwaysHeld == UdpSpec => []ClaimsHeld
<1>1. Keepers => ClaimsHeld
  BY DEF Keepers, Claims, Keeps, Kept, ClaimsHeld
<1> QED
  BY <1>1, KeepersAlways, PTL

\* The player of a session is in its room as long as the room exists, and has one
\* session only (udp_connection.rs, handle_join and remove_client against each other).
THEOREM SessionsAlwaysBacked == UdpSpec => []SessionsAreBacked
<1>1. Keepers => SessionsAreBacked
  BY DEF Keepers, Backed, SessionsAreBacked, Sessions
<1> QED
  BY <1>1, KeepersAlways, PTL
-----------------------------------------------------------------------------
(* What is under way to the clients *)

ChannelsTyped ==
  /\ channel \in [Players -> Seq(Reliable)]
  /\ \A p \in Players : Len(channel[p]) <= ChannelCapacity

ChangesTyped == paramTask \in [ParamTasks -> {IdleParam} \cup Change]

Mail ==
  /\ connection \in [Players -> Addrs \cup {None}]
  /\ ChannelsTyped
  /\ casts \subseteq Cast
  /\ sent \in [Addrs -> Seq(Reliable \cup Welcome)]
  /\ ChangesTyped

\* A message is queued for players only who can receive it, and within the capacity.
LEMMA EnqueueTyped ==
  ASSUME ChannelsTyped, TasksTyped, NEW p, NEW msg \in Reliable, Enqueue(p, msg)
  PROVE  ChannelsTyped'
<1>1. CASE HasReceiver(p)
  <2>1. p \in Players
    BY <1>1 DEF HasReceiver, TasksTyped, Session, JoinAt, WellFilled
  <2>2. channel' = [channel EXCEPT ![p] = Append(@, msg)] /\ Len(channel[p]) < ChannelCapacity
    BY <1>1 DEF Enqueue
  <2>3. Append(channel[p], msg) \in Seq(Reliable) /\ Len(Append(channel[p], msg)) = Len(channel[p]) + 1
    BY <2>1 DEF ChannelsTyped
  <2>4. Len(channel[p]) \in Nat
    BY <2>1 DEF ChannelsTyped
  <2> HIDE DEF Reliable
  <2> QED
    BY <2>1, <2>2, <2>3, <2>4, ChannelAssumption DEF ChannelsTyped
<1>2. CASE ~HasReceiver(p)
  BY <1>2 DEF Enqueue, ChannelsTyped
<1> QED
  BY <1>1, <1>2

LEMMA CloseTyped ==
  ASSUME ChannelsTyped, NEW a \in Addrs, CloseChannelOf(a)
  PROVE  ChannelsTyped'
<1>1. <<>> \in Seq(Reliable) /\ Len(<<>>) = 0
  OBVIOUS
<1>2. ASSUME NEW q, channel' = [channel EXCEPT ![q] = <<>>] PROVE ChannelsTyped'
  <2> HIDE DEF Reliable
  <2>1. \A p \in Players : channel'[p] = channel[p] \/ channel'[p] = <<>>
    BY <1>2 DEF ChannelsTyped
  <2>2. channel' \in [Players -> Seq(Reliable)]
    BY <1>1, <1>2 DEF ChannelsTyped
  <2>3. \A p \in Players : Len(channel'[p]) <= ChannelCapacity
    BY <1>1, <2>1, ChannelAssumption DEF ChannelsTyped
  <2> QED
    BY <2>2, <2>3 DEF ChannelsTyped
<1> QED
  BY <1>2 DEF CloseChannelOf, ChannelsTyped

LEMMA TransmitTyped ==
  ASSUME sent \in [Addrs -> Seq(Reliable \cup Welcome)], NEW a \in Addrs,
         NEW msg \in Reliable \cup Welcome, Transmit(a, msg)
  PROVE  sent' \in [Addrs -> Seq(Reliable \cup Welcome)]
BY DEF Transmit

LEMMA DeliverTyped ==
  ASSUME sent \in [Addrs -> Seq(Reliable \cup Welcome)], NEW a \in Addrs,
         NEW msg \in Reliable \cup Welcome, Deliver(a, msg)
  PROVE  sent' \in [Addrs -> Seq(Reliable \cup Welcome)]
<1> HIDE DEF Reliable, Welcome
<1> QED
  BY TransmitTyped DEF Deliver

LEMMA OnwardTyped ==
  ASSUME casts \subseteq Cast, NEW b \in casts, NEW S \in SUBSET Players, Onward(b, S)
  PROVE  casts' \subseteq Cast
<1>1. ASSUME NEW p \in S PROVE [b EXCEPT !.to = p, !.rest = S \ {p}] \in Cast
  BY DEF Cast
<1>2. CASE casts' = casts \ {b}
  BY <1>2
<1>3. ASSUME NEW p \in S, casts' = (casts \ {b}) \cup {[b EXCEPT !.to = p, !.rest = S \ {p}]}
      PROVE  casts' \subseteq Cast
  BY <1>1, <1>3
<1> QED
  BY <1>2, <1>3 DEF Onward

\* The steps of a join keep channels and packets well formed.
LEMMA MailJoin ==
  ASSUME Mail, TasksTyped, TypeOK, NEW j \in JoinTasks, JoinProgress(j)
  PROVE  Mail'
<1> DEFINE a == joinTask[j].addr
<1>0. joinTask[j].pc # "idle"
  BY DEF JoinProgress, ConsumeStep, RegisterStep, InsertSession, SessionOf, SendJoinOk, RemoveSession,
         RemoveStep, JoinAt
<1>1. a \in Addrs /\ joinTask[j].player \in Players
  BY <1>0 DEF TasksTyped, WellFilled
<1>2. UNCHANGED <<paramTask, casts>>
  BY DEF JoinProgress, ConsumeStep, RegisterStep, InsertSession, SessionOf, SendJoinOk, RemoveSession,
         RemoveStep
<1>3. ASSUME NEW code \in {"auth_failed", "join_failed"}, Refuse(j, code)
      PROVE  sent' \in [Addrs -> Seq(Reliable \cup Welcome)]
  <2>1. Error(code) \in Reliable \cup Welcome /\ Deliver(a, Error(code))
    BY <1>3 DEF Refuse, Error, Reliable
  <2> QED
    BY <1>1, <2>1, DeliverTyped DEF Mail
<1>4. sent' \in [Addrs -> Seq(Reliable \cup Welcome)]
  <2>1. CASE UNCHANGED sent
    BY <2>1 DEF Mail
  <2>2. CASE ConsumeStep(j)
    BY <1>3, <2>1, <2>2 DEF ConsumeStep
  <2>3. CASE RegisterStep(j)
    BY <1>3, <2>1, <2>3 DEF RegisterStep
  <2>4. CASE SendJoinOk(j)
    <3>1. joinTask[j].match \in Matches
      BY <2>4 DEF SendJoinOk, JoinAt, TasksTyped, WellFilled
    <3>2. JoinOk(joinTask[j].match, joinTask[j].player) \in Reliable \cup Welcome
      BY <1>1, <3>1 DEF JoinOk, Welcome
    <3> QED
      BY <1>1, <2>1, <2>4, <3>2, TransmitTyped DEF SendJoinOk, Mail
  <2> QED
    BY <2>1, <2>2, <2>3, <2>4 DEF JoinProgress, InsertSession, SessionOf, RemoveSession, RemoveStep
<1>5. ChannelsTyped'
  <2>1. CASE UNCHANGED channel
    BY <2>1 DEF Mail, ChannelsTyped
  <2> QED
    BY <1>1, <2>1, CloseTyped DEF JoinProgress, ConsumeStep, RegisterStep, InsertSession, SessionOf,
       SendJoinOk, RemoveSession, RemoveStep, Mail
<1>6. connection' \in [Players -> Addrs \cup {None}]
  BY <1>1 DEF JoinProgress, ConsumeStep, RegisterStep, InsertSession, SessionOf, SendJoinOk,
     RemoveSession, RemoveStep, Mail
<1> QED
  BY <1>2, <1>4, <1>5, <1>6 DEF Mail, ChangesTyped

\* The answer to a param_change that is refused can go through a channel.
LEMMA RefusalsReliable ==
  ASSUME NEW task \in Change, task.pc = "refused"
  PROVE  task.error \in ChangeErrors /\ task.error \in Reliable
BY DEF Change, ChangeErrors, Error, Reliable

\* The pump takes the oldest message of a channel and leaves the others.
LEMMA PumpTakes ==
  ASSUME Mail, TasksTyped, NEW a \in Addrs, Pump(a)
  PROVE  LET p == session[a].player  s == channel[p] IN
         /\ p \in Players /\ Len(s) \in Nat \ {0}
         /\ Head(s) \in Reliable /\ Head(s) = s[1] /\ 1 \in DOMAIN s
         /\ Tail(s) \in Seq(Reliable) /\ Len(Tail(s)) = Len(s) - 1
         /\ Len(Tail(s)) <= ChannelCapacity
         /\ \A i \in DOMAIN Tail(s) : i + 1 \in DOMAIN s /\ Tail(s)[i] = s[i + 1]
         /\ \A i \in DOMAIN s : i > 1 => i - 1 \in DOMAIN Tail(s) /\ Tail(s)[i - 1] = s[i]
<1> DEFINE p == session[a].player
           s == channel[p]
<1>1. p \in Players
  BY DEF Pump, TasksTyped, Session
<1>2. s \in Seq(Reliable) /\ s # <<>> /\ Len(s) <= ChannelCapacity
  BY <1>1 DEF Pump, Mail, ChannelsTyped
<1> HIDE DEF s, Reliable
<1>3. /\ Len(s) \in Nat \ {0}
      /\ Head(s) \in Reliable /\ Head(s) = s[1] /\ 1 \in DOMAIN s
      /\ Tail(s) \in Seq(Reliable) /\ Len(Tail(s)) = Len(s) - 1
  BY <1>2
<1>4. Len(Tail(s)) <= ChannelCapacity
  BY <1>2, <1>3, ChannelAssumption
<1>5. /\ \A i \in DOMAIN Tail(s) : i + 1 \in DOMAIN s /\ Tail(s)[i] = s[i + 1]
      /\ \A i \in DOMAIN s : i > 1 => i - 1 \in DOMAIN Tail(s) /\ Tail(s)[i - 1] = s[i]
  BY <1>2, <1>3
<1> QED
  BY <1>1, <1>3, <1>4, <1>5 DEF s

\* So do param_change tasks, broadcasts, the pump and the core.
LEMMA MailStep == Mail /\ TasksTyped /\ TypeOK /\ TypeOK' /\ [UdpNext]_allVars => Mail'
<1> SUFFICES ASSUME Mail, TasksTyped, TypeOK, TypeOK', [UdpNext]_allVars PROVE Mail'
  OBVIOUS
<1>1. ASSUME UNCHANGED <<connection, channel, casts, sent, paramTask>> PROVE Mail'
  BY <1>1 DEF Mail, ChannelsTyped, ChangesTyped
<1>2. ASSUME NEW m \in Matches, StartStep(m) PROVE Mail'
  <2> DEFINE layout == [p \in players[m] |-> handle'[m][p].colour]
  <2>1. players[m] \in SUBSET Players
    BY DEF TypeOK
  <2>2. \A p \in players[m] : handle'[m][p].colour \in Colours \cup {NoColour}
    BY <2>1 DEF TypeOK, PlayerHandle
  <2>3. layout \in Layouts
    BY <2>1, <2>2 DEF Layouts
  <2>4. NewCast(m, MatchStarted(m, layout)) \in Cast
    BY <2>3 DEF NewCast, MatchStarted, Cast, Reliable
  <2>5. casts' \subseteq Cast
    BY <1>2, <2>4 DEF StartStep, Mail
  <2> QED
    BY <1>2, <2>5 DEF StartStep, Mail, ChannelsTyped, ChangesTyped
<1>3. ASSUME NEW c \in ParamTasks, UpdateStep(c) PROVE Mail'
  <2> DEFINE task == paramTask[c]
             m == task.match
             p == task.player
  <2>0. task \in Change /\ task.pc = "received"
    BY <1>3 DEF UpdateStep, Mail, ChangesTyped, IdleParam
  <2>1. CASE /\ UpdatePlayerParams(m, p, task.param, task.direction)
             /\ casts' = casts \cup {NewCast(m, ParamApplied(m, p, handle'[m][p]))}
             /\ paramTask' = [paramTask EXCEPT ![c].pc = "done"]
    <3>1. m \in Matches /\ p \in Players
      BY <2>1 DEF UpdatePlayerParams, TypeOK
    <3>2. handle'[m][p] \in PlayerHandle
      BY <3>1 DEF TypeOK
    <3>3. ParamApplied(m, p, handle'[m][p]) \in Reliable
      <4> DEFINE h == handle'[m][p]
      <4>1. h.params \in PlayerParams /\ h.nextChange \in 0 .. MaxTime + Cooldown
        BY <3>2 DEF PlayerHandle
      <4> HIDE DEF h
      <4>2. ParamApplied(m, p, h) \in Reliable
        BY <3>1, <4>1 DEF ParamApplied, Reliable
      <4> QED
        BY <4>2 DEF h
    <3>4. NewCast(m, ParamApplied(m, p, handle'[m][p])) \in Cast
      BY <3>1, <3>3 DEF NewCast, Cast
    <3>5. casts' \subseteq Cast
      BY <2>1, <3>4 DEF Mail
    <3>6. [task EXCEPT !.pc = "done"] \in Change
      BY <2>0 DEF Change
    <3>7. ChangesTyped'
      BY <2>1, <3>6 DEF Mail, ChangesTyped
    <3> QED
      BY <1>3, <3>5, <3>7 DEF UpdateStep, Mail, ChannelsTyped
  <2>2. CASE /\ paramTask' = [paramTask EXCEPT ![c].pc = "refused", ![c].error = ChangeError(m, p)]
             /\ UNCHANGED casts
    <3>1. ChangeError(m, p) \in ChangeErrors
      BY DEF ChangeError, ChangeErrors
    <3>2. [task EXCEPT !.pc = "refused", !.error = ChangeError(m, p)] \in Change
      BY <2>0, <3>1 DEF Change
    <3>3. ChangesTyped'
      BY <2>2, <3>2 DEF Mail, ChangesTyped
    <3> QED
      BY <1>3, <2>2, <3>3 DEF UpdateStep, Mail, ChannelsTyped
  <2> QED
    BY <1>3, <2>1, <2>2 DEF UpdateStep
<1>12. ASSUME NEW c \in ParamTasks, ReplyError(c) PROVE Mail'
  <2> DEFINE task == paramTask[c]
  <2>0. task \in Change /\ task.pc = "refused"
    BY <1>12 DEF ReplyError, Mail, ChangesTyped, IdleParam
  <2>1. task.error \in Reliable
    BY <2>0, RefusalsReliable
  <2>2. ChannelsTyped'
    BY <1>12, <2>1, EnqueueTyped DEF ReplyError, Mail
  <2>3. [task EXCEPT !.pc = "done"] \in Change
    BY <2>0 DEF Change
  <2>4. ChangesTyped'
    BY <1>12, <2>3 DEF ReplyError, Mail, ChangesTyped
  <2> QED
    BY <1>12, <2>2, <2>4 DEF ReplyError, Mail
<1>4. ASSUME NEW b \in casts, ReadTargets(b) PROVE Mail'
  <2>1. (IF b.match \in matches THEN players[b.match] ELSE {}) \in SUBSET Players
    BY DEF TypeOK
  <2>2. casts' \subseteq Cast
    BY <1>4, <2>1, OnwardTyped DEF ReadTargets, Mail
  <2> QED
    BY <1>4, <2>2 DEF ReadTargets, Mail, ChannelsTyped, ChangesTyped
<1>5. ASSUME NEW b \in casts, CastOn(b) PROVE Mail'
  <2>1. b.msg \in Reliable /\ b.rest \in SUBSET Players
    BY DEF Mail, Cast
  <2>2. casts' \subseteq Cast
    BY <1>5, <2>1, OnwardTyped DEF CastOn, Mail
  <2>3. ChannelsTyped'
    BY <1>5, <2>1, EnqueueTyped DEF CastOn, Mail
  <2> QED
    BY <1>5, <2>2, <2>3 DEF CastOn, Mail, ChangesTyped
<1>6. ASSUME NEW b \in casts, AbandonCast(b) PROVE Mail'
  BY <1>6 DEF AbandonCast, Mail, ChannelsTyped, ChangesTyped
<1>7. ASSUME NEW a \in Addrs, Pump(a) PROVE Mail'
  <2> DEFINE p == session[a].player
  <2>1. /\ p \in Players /\ Head(channel[p]) \in Reliable
        /\ Tail(channel[p]) \in Seq(Reliable)
        /\ Len(Tail(channel[p])) <= ChannelCapacity
    BY <1>7, PumpTakes
  <2>2. sent' \in [Addrs -> Seq(Reliable \cup Welcome)]
    <3> HIDE DEF Reliable, Welcome
    <3> QED
      BY <1>7, <2>1, DeliverTyped DEF Pump, Mail
  <2>3. channel' = [channel EXCEPT ![p] = Tail(channel[p])]
    BY <1>7 DEF Pump
  <2>4. ChannelsTyped'
    <3> HIDE DEF Reliable
    <3> QED
      BY <2>1, <2>3 DEF Mail, ChannelsTyped
  <2> QED
    BY <1>7, <2>2, <2>4 DEF Pump, Mail, ChangesTyped
<1>8. ASSUME NEW c \in ParamTasks, NEW a \in Addrs, NEW param \in Kinds,
             NEW direction \in ParamDirection, ReceiveParamChange(c, a, param, direction)
      PROVE  Mail'
  <2> DEFINE task == [pc |-> "received", addr |-> a, player |-> session[a].player,
                      match |-> session[a].match, param |-> param, direction |-> direction,
                      error |-> None]
  <2>1. session[a].player \in Players /\ session[a].match \in Matches
    BY <1>8 DEF ReceiveParamChange, TasksTyped, Session
  <2>2. task \in Change
    BY <2>1 DEF Change
  <2>3. ChangesTyped'
    BY <1>8, <2>2 DEF ReceiveParamChange, Mail, ChangesTyped
  <2> QED
    BY <1>8, <2>3 DEF ReceiveParamChange, Mail, ChannelsTyped
<1>9. ASSUME NEW j \in JoinTasks, NEW a \in Addrs, NEW p \in Players, ReceiveJoin(j, a, p)
      PROVE  Mail'
  BY <1>1, <1>9 DEF ReceiveJoin
<1>10. CASE OtherCore
  BY <1>1, <1>10 DEF OtherCore, udpVars, taskVars
<1>11. CASE UNCHANGED allVars
  BY <1>1, <1>11 DEF allVars, udpVars, taskVars
<1> QED
  BY <1>2, <1>3, <1>4, <1>5, <1>6, <1>7, <1>8, <1>9, <1>10, <1>11, <1>12, MailJoin
     DEF UdpNext, ServerStep, CastProgress

LEMMA MailInit == UdpInit => Mail
<1>1. <<>> \in Seq(Reliable) /\ <<>> \in Seq(Reliable \cup Welcome) /\ Len(<<>>) = 0
  OBVIOUS
<1> HIDE DEF Reliable
<1> QED
  BY <1>1, ChannelAssumption DEF UdpInit, Mail, ChannelsTyped, ChangesTyped

\* Sessions, connections and tasks have their types, no channel ever holds more than
\* its capacity, and broadcasts, channels and sockets hold nothing but messages the
\* server has (udp_connection.rs, the senders and the pump).
THEOREM UdpTypeCorrect == UdpSpec => []UdpTypeOK
<1>1. UdpInit => TasksTyped /\ Mail
  BY KeepersInit, MailInit
<1>2. TasksTyped /\ Mail => UdpTypeOK
  <2> SUFFICES ASSUME TasksTyped, Mail PROVE UdpTypeOK
    OBVIOUS
  <2>1. ASSUME NEW j \in JoinTasks
        PROVE  \/ joinTask[j] = IdleJoin
               \/ joinTask[j] \in [pc : {"checked", "done"}, addr : Addrs, player : Players,
                                   match : Matches \cup {None}]
               \/ joinTask[j] \in [pc : {"claimed", "registered", "inserted", "failed",
                                         "removing"},
                                   addr : Addrs, player : Players, match : Matches]
    <3>1. joinTask[j] \in JoinTask /\ WellFilled(joinTask[j])
      BY DEF TasksTyped
    <3> QED
      BY <3>1 DEF JoinTask, WellFilled
  <2> QED
    BY <2>1 DEF UdpTypeOK, TasksTyped, Mail, ChannelsTyped, ChangesTyped, Change
<1>3. UdpSpec => []TypeOK
  BY UdpImplementsControlPlane, TypeCorrect, PTL DEF ImplementsControlPlane
<1> QED
  BY <1>1, <1>2, <1>3, TasksTypedStep, MailStep, PTL DEF UdpSpec
-----------------------------------------------------------------------------
(* What match_started tells stays true *)

Told(msg) ==
  LET m == msg.match IN
  /\ m \in drawnMatches
  /\ \A p \in DOMAIN msg.layout : p \in drawnPlayers /\ \A t \in tickets \cup joining : t.player # p
  /\ m \in matches =>
       /\ Started(m)
       /\ \A p \in players[m] :
            handle[m][p].colour = IF p \in DOMAIN msg.layout THEN msg.layout[p] ELSE NoColour

\* Whatever becomes of the room, a layout once told stays right: only a start deals
\* colours, a room starts once, and whoever comes later has none.
LEMMA StaysTold ==
  ASSUME TypeOK, TypeOK', SingleAdmission, NEW msg, Told(msg), [Next]_vars
  PROVE  Told(msg)'
<1> DEFINE m == msg.match
<1> USE DEF roomVars, drawnVars
<1>0. m \in Matches
  BY DEF Told, TypeOK
<1>1. ASSUME UNCHANGED <<matches, players, startedAt, tickets, joining, drawnVars>>,
             \A p \in players[m] : handle'[m][p].colour = handle[m][p].colour
      PROVE  Told(msg)'
  BY <1>1 DEF Told, Started
<1>2. ASSUME NEW n \in Matches, CreateRoom(n) PROVE Told(msg)'
  BY <1>0, <1>2 DEF CreateRoom, Told, Started
<1>3. ASSUME NEW n \in Matches, NEW p \in Players, IssueJoinTicket(n, p) PROVE Told(msg)'
  BY <1>0, <1>3 DEF IssueJoinTicket, NewTicket, Told, Started
<1>4. ASSUME NEW n \in Matches, StartRoom(n) PROVE Told(msg)'
  <2>1. m \in matches => n # m
    BY <1>4 DEF StartRoom, Startable, Told
  <2> QED
    BY <1>0, <1>4, <2>1 DEF StartRoom, Startable, Told, Started, TypeOK
<1>5. ASSUME NEW n \in Matches, NEW p \in Players, FinishRoom(n, p) PROVE Told(msg)'
  BY <1>1, <1>5 DEF FinishRoom
<1>6. ASSUME NEW S \in SUBSET matches, DropRooms(S), UNCHANGED <<joining, drawnVars>>
      PROVE  Told(msg)'
  <2>1. matches' = matches \ S /\ tickets' \subseteq tickets
    BY <1>6 DEF DropRooms, TicketsWithout
  <2>2. m \in matches' => /\ players'[m] = players[m] /\ handle'[m] = handle[m]
                          /\ startedAt'[m] = startedAt[m]
    BY <1>0, <1>6 DEF DropRooms, TicketsWithout
  <2> QED
    BY <1>6, <2>1, <2>2 DEF Told, Started
<1>7. ASSUME NEW n \in Matches, DeleteRoom(n) PROVE Told(msg)'
  BY <1>6, <1>7 DEF DeleteRoom
<1>8. ASSUME NEW t \in tickets, ConsumeTicket(t) PROVE Told(msg)'
  <2>1. \A u \in tickets' \cup joining' : \E v \in tickets \cup joining : u.player = v.player
    BY <1>8 DEF ConsumeTicket
  <2> QED
    BY <1>8, <2>1 DEF ConsumeTicket, Told, Started
<1>9. ASSUME NEW c \in joining, RegisterPlayer(c) PROVE Told(msg)'
  <2>1. /\ joining' \subseteq joining
        /\ UNCHANGED <<matches, startedAt, tickets, drawnVars>>
    BY <1>9 DEF RegisterPlayer
  <2>2. c \in Claim /\ c.player \notin DOMAIN msg.layout
    BY <1>9 DEF Told, TypeOK
  <2>3. ASSUME m \in matches, NEW p \in players'[m]
        PROVE  handle'[m][p].colour = IF p \in DOMAIN msg.layout THEN msg.layout[p] ELSE NoColour
    <3>0. c.match \in Matches /\ c.player \in Players /\ c.player \notin players[c.match]
      BY <1>9, <2>2 DEF Claim, SingleAdmission
    <3>1. CASE UNCHANGED <<players, handle>>
      BY <2>3, <3>1 DEF Told
    <3>2. CASE /\ players' = [players EXCEPT ![c.match] = @ \cup {c.player}]
               /\ handle' = [handle EXCEPT ![c.match][c.player] = NewHandle]
      <4>1. CASE m = c.match /\ p = c.player
        BY <2>2, <3>0, <3>2, <4>1 DEF NewHandle, TypeOK
      <4>2. CASE ~(m = c.match /\ p = c.player)
        <5>1. p \in players[m] /\ p \in Players
          BY <1>0, <2>3, <3>0, <3>2, <4>2 DEF TypeOK
        <5>2. handle'[m][p] = handle[m][p]
          BY <1>0, <3>0, <3>2, <4>2, <5>1 DEF TypeOK
        <5> QED
          BY <2>3, <5>1, <5>2 DEF Told
      <4> QED
        BY <4>1, <4>2
    <3> QED
      BY <1>9, <3>0, <3>1, <3>2 DEF RegisterPlayer
  <2> QED
    BY <2>1, <2>3 DEF Told, Started
<1>10. ASSUME NEW n \in Matches, NEW p \in Players, RemovePlayer(n, p) PROVE Told(msg)'
  <2>1. UNCHANGED <<matches, startedAt, tickets, joining, drawnVars>>
    BY <1>10 DEF RemovePlayer
  <2>2. ASSUME NEW q \in players'[m]
        PROVE  q \in players[m] /\ handle'[m][q] = handle[m][q]
    <3>1. players' = [players EXCEPT ![n] = @ \ {p}] /\ handle' = [handle EXCEPT ![n][p] = NewHandle]
      BY <1>10 DEF RemovePlayer
    <3>2. q \in players[m] /\ q \in Players /\ (m = n => q # p)
      BY <1>0, <2>2, <3>1 DEF TypeOK
    <3> QED
      BY <1>0, <3>1, <3>2 DEF TypeOK
  <2> QED
    BY <2>1, <2>2 DEF Told, Started
<1>11. ASSUME NEW n \in Matches, NEW p \in Players, NEW param \in Kinds,
              NEW direction \in ParamDirection, UpdatePlayerParams(n, p, param, direction)
       PROVE  Told(msg)'
  <2>1. ASSUME NEW q \in players[m] PROVE handle'[m][q].colour = handle[m][q].colour
    <3>1. q \in Players /\ handle[m][q] \in PlayerHandle
      BY <1>0 DEF TypeOK
    <3>2. handle \in [Matches -> [Players -> PlayerHandle]]
      BY DEF TypeOK
    <3> QED
      BY <1>0, <1>11, <3>1, <3>2 DEF UpdatePlayerParams, PlayerHandle
  <2> QED
    BY <1>1, <1>11, <2>1 DEF UpdatePlayerParams
<1>12. CASE SweepBegin
  BY <1>1, <1>12 DEF SweepBegin
<1>13. CASE SweepApply
  BY <1>6, <1>13 DEF SweepApply, Stale
<1>14. CASE Tick
  BY <1>1, <1>14 DEF Tick
<1>15. CASE UNCHANGED vars
  BY <1>1, <1>15 DEF vars
<1> QED
  BY <1>2, <1>3, <1>4, <1>5, <1>7, <1>8, <1>9, <1>10, <1>11, <1>12, <1>13, <1>14, <1>15 DEF Next
InChannel(msg) == \E p \in Players : \E i \in DOMAIN channel[p] : channel[p][i] = msg
InSent(msg) == \E a \in Addrs : \E i \in DOMAIN sent[a] : sent[a][i] = msg
InCast(msg) == \E b \in casts : b.msg = msg
Out(msg) == msg.type = "match_started" /\ (InChannel(msg) \/ InSent(msg) \/ InCast(msg))

LEMMA FromEnqueue ==
  ASSUME ChannelsTyped, TasksTyped, NEW p, NEW x \in Reliable, Enqueue(p, x),
         NEW msg, InChannel(msg)'
  PROVE  InChannel(msg) \/ msg = x
<1>1. CASE UNCHANGED channel
  BY <1>1 DEF InChannel
<1>2. CASE HasReceiver(p) /\ channel' = [channel EXCEPT ![p] = Append(@, x)]
  <2>1. PICK q \in Players : \E i \in DOMAIN channel'[q] : channel'[q][i] = msg
    BY DEF InChannel
  <2>2. CASE q = p
    <3>1. channel'[q] = Append(channel[q], x) /\ channel[q] \in Seq(Reliable)
      BY <1>2, <2>2 DEF ChannelsTyped
    <3>2. PICK i \in DOMAIN channel'[q] : channel'[q][i] = msg
      BY <2>1
    <3>3. (i \in DOMAIN channel[q] /\ channel[q][i] = msg) \/ msg = x
      <4> HIDE DEF Reliable
      <4> QED
        BY <3>1, <3>2
    <3> QED
      BY <3>3 DEF InChannel
  <2>3. CASE q # p
    BY <1>2, <2>1, <2>3 DEF InChannel, ChannelsTyped
  <2> QED
    BY <2>2, <2>3
<1> QED
  BY <1>1, <1>2 DEF Enqueue

LEMMA FromClose ==
  ASSUME ChannelsTyped, NEW a \in Addrs, CloseChannelOf(a), NEW msg, InChannel(msg)'
  PROVE  InChannel(msg)
<1>1. ASSUME NEW q, channel' = [channel EXCEPT ![q] = <<>>] PROVE InChannel(msg)
  <2>1. \A p \in Players : channel'[p] = channel[p] \/ channel'[p] = <<>>
    BY <1>1 DEF ChannelsTyped
  <2> QED
    BY <2>1 DEF InChannel
<1>2. CASE UNCHANGED channel
  BY <1>2 DEF InChannel
<1> QED
  BY <1>1, <1>2 DEF CloseChannelOf

LEMMA FromTransmit ==
  ASSUME sent \in [Addrs -> Seq(Reliable \cup Welcome)], NEW a \in Addrs, NEW x,
         x \in Reliable \cup Welcome, Transmit(a, x), NEW msg, InSent(msg)'
  PROVE  InSent(msg) \/ msg = x
<1>1. PICK c \in Addrs : \E i \in DOMAIN sent'[c] : sent'[c][i] = msg
  BY DEF InSent
<1>2. CASE c = a
  <2>1. sent'[c] = Append(sent[c], x) /\ sent[c] \in Seq(Reliable \cup Welcome)
    BY <1>2 DEF Transmit
  <2>2. PICK i \in DOMAIN sent'[c] : sent'[c][i] = msg
    BY <1>1
  <2>3. (i \in DOMAIN sent[c] /\ sent[c][i] = msg) \/ msg = x
    <3> HIDE DEF Reliable, Welcome
    <3> QED
      BY <2>1, <2>2
  <2> QED
    BY <2>3 DEF InSent
<1>3. CASE c # a
  BY <1>1, <1>3 DEF InSent, Transmit
<1> QED
  BY <1>2, <1>3

LEMMA FromDeliver ==
  ASSUME sent \in [Addrs -> Seq(Reliable \cup Welcome)], NEW a \in Addrs, NEW x,
         x \in Reliable \cup Welcome, Deliver(a, x), NEW msg, InSent(msg)'
  PROVE  InSent(msg) \/ msg = x
<1>1. CASE Transmit(a, x)
  BY <1>1, FromTransmit
<1>2. CASE UNCHANGED sent
  BY <1>2 DEF InSent
<1> QED
  BY <1>1, <1>2 DEF Deliver

LEMMA FromOnward ==
  ASSUME casts \subseteq Cast, NEW b \in casts, NEW S, Onward(b, S), NEW msg, InCast(msg)'
  PROVE  InCast(msg)
<1>1. CASE casts' = casts \ {b}
  BY <1>1 DEF InCast
<1>2. ASSUME NEW p \in S, casts' = (casts \ {b}) \cup {[b EXCEPT !.to = p, !.rest = S \ {p}]}
      PROVE  InCast(msg)
  <2>1. [b EXCEPT !.to = p, !.rest = S \ {p}].msg = b.msg
    BY DEF Cast
  <2> QED
    BY <1>2, <2>1 DEF InCast
<1> QED
  BY <1>1, <1>2 DEF Onward

\* Every match_started comes from a start.
LEMMA FromStart ==
  ASSUME Mail, TasksTyped, TypeOK, [UdpNext]_allVars, NEW msg, Out(msg)', ~Out(msg)
  PROVE  \E m \in Matches :
           StartStep(m) /\ msg = MatchStarted(m, [p \in players[m] |-> handle'[m][p].colour])
<1>1. /\ msg.type = "match_started"
      /\ InChannel(msg)' \/ InSent(msg)' \/ InCast(msg)'
      /\ ~InChannel(msg) /\ ~InSent(msg) /\ ~InCast(msg)
  BY DEF Out
<1>2. /\ ChannelsTyped /\ sent \in [Addrs -> Seq(Reliable \cup Welcome)] /\ casts \subseteq Cast
  BY DEF Mail
<1>3. /\ \A code : msg # Error(code)
      /\ \A m, p : msg # JoinOk(m, p)
      /\ \A m, p, h : msg # ParamApplied(m, p, h)
  BY <1>1 DEF Error, JoinOk, ParamApplied
<1>4. ASSUME UNCHANGED <<channel, sent, casts>> PROVE FALSE
  BY <1>1, <1>4 DEF InChannel, InSent, InCast
<1>5. ASSUME NEW j \in JoinTasks, JoinProgress(j) PROVE FALSE
  <2> DEFINE a == joinTask[j].addr
  <2>1. joinTask[j].pc # "idle"
    BY <1>5 DEF JoinProgress, ConsumeStep, RegisterStep, InsertSession, SessionOf, SendJoinOk, RemoveSession,
           RemoveStep, JoinAt
  <2>2. a \in Addrs /\ joinTask[j].player \in Players
    BY <2>1 DEF TasksTyped, WellFilled
  <2>3. UNCHANGED casts
    BY <1>5 DEF JoinProgress, ConsumeStep, RegisterStep, InsertSession, SessionOf, SendJoinOk,
       RemoveSession, RemoveStep
  <2>4. ~InCast(msg)'
    BY <1>1, <2>3 DEF InCast
  <2>5. InChannel(msg)' => ~UNCHANGED channel
    BY <1>1 DEF InChannel
  <2>6. InSent(msg)' => ~UNCHANGED sent
    BY <1>1 DEF InSent
  <2>7. ~CloseChannelOf(a) \/ ~InChannel(msg)'
    BY <1>1, <1>2, <2>2, FromClose
  <2>8. ASSUME NEW code \in {"auth_failed", "join_failed"}, Refuse(j, code), InSent(msg)'
        PROVE  FALSE
    <3>1. Error(code) \in Reliable \cup Welcome /\ Deliver(a, Error(code))
      BY <2>8 DEF Refuse, Error, Reliable
    <3> QED
      BY <1>1, <1>2, <1>3, <2>2, <2>8, <3>1, FromDeliver
  <2>9. ASSUME SendJoinOk(j), InSent(msg)' PROVE FALSE
    <3>1. joinTask[j].match \in Matches
      BY <2>9 DEF SendJoinOk, JoinAt, TasksTyped, WellFilled
    <3>2. JoinOk(joinTask[j].match, joinTask[j].player) \in Reliable \cup Welcome
      BY <2>2, <3>1 DEF JoinOk, Welcome
    <3>3. Transmit(a, JoinOk(joinTask[j].match, joinTask[j].player))
      BY <2>6, <2>9 DEF SendJoinOk
    <3> QED
      BY <1>1, <1>2, <1>3, <2>2, <2>9, <3>2, <3>3, FromTransmit
  <2>10. ~InSent(msg)'
    BY <1>5, <2>6, <2>8, <2>9 DEF JoinProgress, ConsumeStep, RegisterStep, InsertSession, SessionOf,
       RemoveSession, RemoveStep
  <2>11. ~InChannel(msg)'
    BY <1>5, <2>5, <2>7 DEF JoinProgress, ConsumeStep, RegisterStep, InsertSession, SessionOf, SendJoinOk,
       RemoveSession, RemoveStep
  <2> QED
    BY <1>1, <2>4, <2>10, <2>11
<1>6. ASSUME NEW c \in ParamTasks, UpdateStep(c) PROVE FALSE
  <2> DEFINE m == paramTask[c].match
             p == paramTask[c].player
  <2>1. ~InSent(msg)'
    BY <1>1, <1>6 DEF UpdateStep, InSent
  <2>2. ~InChannel(msg)'
    BY <1>1, <1>6 DEF UpdateStep, InChannel
  <2>3. CASE casts' = casts \cup {NewCast(m, ParamApplied(m, p, handle'[m][p]))}
    <3>1. NewCast(m, ParamApplied(m, p, handle'[m][p])).msg # msg
      BY <1>3 DEF NewCast
    <3>2. ~InCast(msg)'
      BY <1>1, <2>3, <3>1 DEF InCast
    <3> QED
      BY <1>1, <2>1, <2>2, <3>2
  <2>4. CASE UNCHANGED casts
    BY <1>1, <2>1, <2>2, <2>4 DEF InCast
  <2> QED
    BY <1>6, <2>3, <2>4 DEF UpdateStep
<1>20. ASSUME NEW c \in ParamTasks, ReplyError(c) PROVE FALSE
  <2> DEFINE x == paramTask[c].error
  <2>1. ~InSent(msg)' /\ ~InCast(msg)'
    BY <1>1, <1>20 DEF ReplyError, InSent, InCast
  <2>2. paramTask[c] \in Change /\ paramTask[c].pc = "refused"
    BY <1>20 DEF ReplyError, Mail, ChangesTyped, IdleParam
  <2>3. x \in ChangeErrors /\ x \in Reliable
    BY <2>2, RefusalsReliable
  <2>4. msg # x
    BY <1>3, <2>3 DEF ChangeErrors
  <2>5. ~InChannel(msg)'
    BY <1>1, <1>2, <1>20, <2>3, <2>4, FromEnqueue DEF ReplyError
  <2> QED
    BY <1>1, <2>1, <2>5
<1>7. ASSUME NEW b \in casts, ReadTargets(b) PROVE FALSE
  <2>1. ~InCast(msg)'
    BY <1>1, <1>2, <1>7, FromOnward DEF ReadTargets
  <2> QED
    BY <1>1, <1>7, <2>1 DEF ReadTargets, InChannel, InSent
<1>8. ASSUME NEW b \in casts, CastOn(b) PROVE FALSE
  <2>1. b.msg \in Reliable /\ b.msg # msg
    BY <1>1, <1>2 DEF Cast, InCast
  <2>2. ~InCast(msg)'
    BY <1>1, <1>2, <1>8, FromOnward DEF CastOn
  <2>3. ~InChannel(msg)'
    BY <1>1, <1>2, <1>8, <2>1, FromEnqueue DEF CastOn
  <2> QED
    BY <1>1, <1>8, <2>2, <2>3 DEF CastOn, InSent
<1>9. ASSUME NEW b \in casts, AbandonCast(b) PROVE FALSE
  BY <1>1, <1>9 DEF AbandonCast, InChannel, InSent, InCast
<1>10. ASSUME NEW a \in Addrs, Pump(a) PROVE FALSE
  <2> DEFINE p == session[a].player
             x == Head(channel[p])
  <2>1. /\ p \in Players /\ x \in Reliable
        /\ x = channel[p][1] /\ 1 \in DOMAIN channel[p]
        /\ \A i \in DOMAIN Tail(channel[p]) :
              i + 1 \in DOMAIN channel[p] /\ Tail(channel[p])[i] = channel[p][i + 1]
    BY <1>10, PumpTakes
  <2>2. /\ Deliver(a, x) /\ channel' = [channel EXCEPT ![p] = Tail(channel[p])]
        /\ UNCHANGED casts
    BY <1>10 DEF Pump
  <2>3. ~InCast(msg)'
    BY <1>1, <2>2 DEF InCast
  <2>4. ASSUME NEW q \in Players, NEW i \in DOMAIN channel'[q], channel'[q][i] = msg PROVE FALSE
    <3>1. CASE q = p
      <4>1. channel'[q] = Tail(channel[p])
        BY <1>2, <2>2, <3>1 DEF ChannelsTyped
      <4> QED
        BY <1>1, <2>1, <2>4, <4>1 DEF InChannel
    <3>2. CASE q # p
      BY <1>1, <1>2, <2>2, <2>4, <3>2 DEF ChannelsTyped, InChannel
    <3> QED
      BY <3>1, <3>2
  <2>5. ~InChannel(msg)'
    BY <2>4 DEF InChannel
  <2>6. x # msg
    BY <1>1, <2>1 DEF InChannel
  <2>7. ~InSent(msg)'
    <3> HIDE DEF x, Reliable, Welcome
    <3> QED
      BY <1>1, <1>2, <2>1, <2>2, <2>6, FromDeliver
  <2> QED
    BY <1>1, <2>3, <2>5, <2>7
<1>11. CASE OtherCore
  BY <1>4, <1>11 DEF OtherCore, udpVars, taskVars
<1>12. ASSUME NEW j \in JoinTasks, NEW a \in Addrs, NEW p \in Players, ReceiveJoin(j, a, p)
       PROVE  FALSE
  BY <1>4, <1>12 DEF ReceiveJoin
<1>13. ASSUME NEW c \in ParamTasks, NEW a \in Addrs, NEW param \in Kinds,
              NEW direction \in ParamDirection, ReceiveParamChange(c, a, param, direction)
       PROVE  FALSE
  BY <1>4, <1>13 DEF ReceiveParamChange
<1>14. CASE UNCHANGED allVars
  BY <1>4, <1>14 DEF allVars, udpVars, taskVars
<1>15. PICK m \in Matches : StartStep(m)
  BY <1>5, <1>6, <1>7, <1>8, <1>9, <1>10, <1>11, <1>12, <1>13, <1>14, <1>20
     DEF UdpNext, ServerStep, CastProgress
<1> DEFINE layout == [p \in players[m] |-> handle'[m][p].colour]
<1>16. casts' = casts \cup {NewCast(m, MatchStarted(m, layout))} /\ UNCHANGED <<channel, sent>>
  BY <1>15 DEF StartStep
<1>17. NewCast(m, MatchStarted(m, layout)).msg = MatchStarted(m, layout)
  BY DEF NewCast
<1>18. ~InChannel(msg)' /\ ~InSent(msg)'
  BY <1>1, <1>16 DEF InChannel, InSent
<1>19. msg = MatchStarted(m, layout)
  BY <1>1, <1>16, <1>17, <1>18 DEF InCast
<1> QED
  BY <1>15, <1>19

\* A start tells the layout it has just dealt.
LEMMA StartTells ==
  ASSUME TypeOK, TypeOK', SingleAdmission, NEW m \in Matches, StartStep(m),
         NEW msg, msg = MatchStarted(m, [p \in players[m] |-> handle'[m][p].colour])
  PROVE  Told(msg)'
<1> DEFINE layout == [p \in players[m] |-> handle'[m][p].colour]
<1>1. msg.match = m /\ msg.layout = layout /\ DOMAIN layout = players[m]
  BY DEF MatchStarted
<1>2. /\ m \in matches /\ startedAt'[m] = now
      /\ UNCHANGED <<matches, players, tickets, joining, drawnVars>>
  BY DEF StartStep, StartRoom, Startable, TypeOK
<1>3. startedAt'[m] # 0
  BY <1>2, ClockAssumption DEF TypeOK
<1>4. \A p \in players[m] : p \in drawnPlayers /\ \A t \in tickets \cup joining : t.player # p
  BY DEF TypeOK, SingleAdmission
<1>5. \A p \in players'[m] : handle'[m][p].colour = layout[p]
  BY <1>2
<1>6. m \in drawnMatches'
  BY <1>2 DEF TypeOK, drawnVars
<1>7. \A p \in players'[m] : p \in DOMAIN layout
  BY <1>1, <1>2
<1> HIDE DEF layout
<1> QED
  BY <1>1, <1>2, <1>3, <1>4, <1>5, <1>6, <1>7 DEF Told, Started, drawnVars

AllTold == \A msg : Out(msg) => Told(msg)

LEMMA AllToldStep ==
  AllTold /\ Mail /\ TasksTyped /\ TypeOK /\ TypeOK' /\ SingleAdmission /\ ParamTasksTyped
    /\ [UdpNext]_allVars => AllTold'
<1> SUFFICES ASSUME AllTold, Mail, TasksTyped, TypeOK, TypeOK', SingleAdmission,
                    ParamTasksTyped, [UdpNext]_allVars, NEW msg, Out(msg)'
             PROVE  Told(msg)'
  BY DEF AllTold
<1>1. [Next]_vars
  BY CoreStep
<1>2. CASE Out(msg)
  BY <1>1, <1>2, StaysTold DEF AllTold
<1>3. CASE ~Out(msg)
  BY <1>3, FromStart, StartTells
<1> QED
  BY <1>2, <1>3

\* However long a match_started is under way, and whoever joins or leaves meanwhile,
\* it tells the layout the room has (grpc_service.rs, start_room, which broadcasts
\* after it has given up the core lock).
THEOREM LayoutStaysAnnounced == UdpSpec => []LayoutAsAnnounced
<1>1. UdpInit => AllTold
  BY DEF UdpInit, AllTold, Out, InChannel, InSent, InCast
<1>2. AllTold => LayoutAsAnnounced
  <2>1. ASSUME NEW msg \in Messages PROVE Out(msg)
    BY DEF Messages, Out, InChannel, InSent, InCast
  <2> QED
    BY <2>1 DEF AllTold, Told, LayoutAsAnnounced
<1>3. UdpSpec => []TypeOK /\ []SingleAdmission
  BY UdpImplementsControlPlane, TypeCorrect, AdmitsOnce, PTL DEF ImplementsControlPlane
<1>4. UdpInit => ParamTasksTyped
  BY DEF UdpInit, ParamTasksTyped, IdleParam
<1>5. ParamTasksTyped /\ [UdpNext]_allVars => ParamTasksTyped'
  BY ParamTaskStep
<1> QED
  BY <1>1, <1>2, <1>3, <1>4, <1>5, MailInit, KeepersInit, MailStep, TasksTypedStep, AllToldStep, PTL
     DEF UdpSpec
-----------------------------------------------------------------------------
(* The announcement of a start reaches everyone it deals a colour to, but for a *)
(* send that fails                                                             *)

\* The channel of p has a receiver for room m: a session, or a join about to have one.
Receiving(p, m) ==
  \/ \E a \in Addrs : session[a] = [match |-> m, player |-> p]
  \/ \E j \in JoinTasks : /\ JoinAt(j, "registered")
                          /\ joinTask[j].player = p /\ joinTask[j].match = m

\* Nothing more is owed to address a: it has been told, or a send to it may have failed.
NothingOwed(a, m) == a \in FailingAddrs \/ ToldOfStart(a, m)

Reached(p, m) ==
  \/ StartDue(p, m)
  \/ \E a \in Addrs : session[a] = [match |-> m, player |-> p] /\ NothingOwed(a, m)

Coloured(p, m) == m \in matches /\ handle[m][p].colour # NoColour

CastsAgree == \A b \in casts : b.msg.type = "match_started" => b.msg.match = b.match

StartsArrive ==
  /\ CastsAgree
  /\ \A p \in Players, m \in Matches : Receiving(p, m) /\ Coloured(p, m) => Reached(p, m)

\* Messages that are added, and sessions of others that come and go, change nothing.
LEMMA MoreMail ==
  ASSUME NEW p \in Players, NEW m \in Matches, Reached(p, m),
         casts \subseteq casts',
         \A i \in DOMAIN channel[p] : i \in DOMAIN channel'[p] /\ channel'[p][i] = channel[p][i],
         \A a \in Addrs : session[a] = [match |-> m, player |-> p] =>
           /\ session'[a] = session[a]
           /\ \A i \in DOMAIN sent[a] : i \in DOMAIN sent'[a] /\ sent'[a][i] = sent[a][i]
  PROVE  Reached(p, m)'
<1>1. CASE StartDue(p, m)
  <2>1. StartDue(p, m)'
    BY <1>1 DEF StartDue
  <2> QED
    BY <2>1 DEF Reached
<1>2. ASSUME NEW a \in Addrs, session[a] = [match |-> m, player |-> p], NothingOwed(a, m)
      PROVE  Reached(p, m)'
  BY <1>2 DEF Reached, NothingOwed, ToldOfStart
<1> QED
  BY <1>1, <1>2 DEF Reached

\* What is in a channel stays there when a message is queued, or a packet sent.
LEMMA EnqueueAdds ==
  ASSUME ChannelsTyped, TasksTyped, NEW q, NEW x \in Reliable, Enqueue(q, x), NEW p \in Players
  PROVE  /\ \A i \in DOMAIN channel[p] : i \in DOMAIN channel'[p] /\ channel'[p][i] = channel[p][i]
         /\ HasReceiver(p) /\ q = p => \E i \in DOMAIN channel'[p] : channel'[p][i] = x
<1>1. CASE HasReceiver(q) /\ q = p
  <2> DEFINE s == channel[p]
  <2>1. s \in Seq(Reliable) /\ channel' = [channel EXCEPT ![p] = Append(s, x)]
    BY <1>1 DEF Enqueue, ChannelsTyped
  <2>2. channel'[p] = Append(s, x)
    BY <2>1 DEF ChannelsTyped
  <2> HIDE DEF s, Reliable
  <2>3. /\ \A i \in DOMAIN s : i \in DOMAIN Append(s, x) /\ Append(s, x)[i] = s[i]
        /\ Len(s) + 1 \in DOMAIN Append(s, x) /\ Append(s, x)[Len(s) + 1] = x
    BY <2>1
  <2> QED
    BY <2>2, <2>3 DEF s
<1>2. CASE HasReceiver(q) /\ q # p
  BY <1>2 DEF Enqueue, ChannelsTyped
<1>3. CASE ~HasReceiver(q)
  BY <1>3 DEF Enqueue
<1> QED
  BY <1>1, <1>2, <1>3

LEMMA TransmitAdds ==
  ASSUME sent \in [Addrs -> Seq(Reliable \cup Welcome)], NEW c \in Addrs, NEW x,
         x \in Reliable \cup Welcome, Transmit(c, x), NEW a \in Addrs
  PROVE  \A i \in DOMAIN sent[a] : i \in DOMAIN sent'[a] /\ sent'[a][i] = sent[a][i]
<1>1. CASE c = a
  <2> DEFINE s == sent[a]
  <2>1. s \in Seq(Reliable \cup Welcome) /\ sent'[a] = Append(s, x)
    BY <1>1 DEF Transmit
  <2> HIDE DEF s, Reliable, Welcome
  <2>2. \A i \in DOMAIN s : i \in DOMAIN Append(s, x) /\ Append(s, x)[i] = s[i]
    BY <2>1
  <2> QED
    BY <2>1, <2>2 DEF s
<1>2. CASE c # a
  BY <1>2 DEF Transmit
<1> QED
  BY <1>1, <1>2

\* What is put on a socket is there.
LEMMA TransmitPuts ==
  ASSUME sent \in [Addrs -> Seq(Reliable \cup Welcome)], NEW a \in Addrs, NEW x, Transmit(a, x)
  PROVE  \E k \in DOMAIN sent'[a] : sent'[a][k] = x
<1> DEFINE s == sent[a]
           M == Reliable \cup Welcome
<1>1. s \in Seq(M) /\ sent'[a] = Append(s, x)
  BY DEF Transmit
<1> HIDE DEF s, M
<1>2. Len(s) + 1 \in DOMAIN Append(s, x) /\ Append(s, x)[Len(s) + 1] = x
  BY <1>1
<1> QED
  BY <1>1, <1>2

LEMMA DeliverAdds ==
  ASSUME sent \in [Addrs -> Seq(Reliable \cup Welcome)], NEW c \in Addrs, NEW x,
         x \in Reliable \cup Welcome, Deliver(c, x), NEW a \in Addrs
  PROVE  \A i \in DOMAIN sent[a] : i \in DOMAIN sent'[a] /\ sent'[a][i] = sent[a][i]
<1>1. CASE Transmit(c, x)
  BY <1>1, TransmitAdds
<1>2. CASE UNCHANGED sent
  BY <1>2
<1> QED
  BY <1>1, <1>2 DEF Deliver

\* Whoever loses a session has no other: nobody else receives for the player.
LEMMA Unseated ==
  ASSUME Keepers, TasksTyped, NEW j \in JoinTasks, InsertSession(j) \/ RemoveSession(j),
         NEW p \in Players, NEW m \in Matches,
         session[joinTask[j].addr] # None, session[joinTask[j].addr].player = p
  PROVE  ~Receiving(p, m)'
<1> DEFINE a == joinTask[j].addr
<1>0. a \in Addrs
  BY DEF InsertSession, RemoveSession, JoinAt, TasksTyped, WellFilled
<1>1. /\ \A b \in Addrs : b # a => session'[b] = session[b]
      /\ \A k \in JoinTasks : k # j => joinTask'[k] = joinTask[k]
      /\ joinTask'[j].pc # "registered"
  BY <1>0 DEF InsertSession, RemoveSession, TasksTyped, JoinStep, JoinTask
<1>2. session'[a] = None \/ (session'[a].player = joinTask[j].player /\ Keeps(j))
  BY <1>0 DEF InsertSession, SessionOf, RemoveSession, TasksTyped, JoinAt, Keeps
<1>3. \A k \in JoinTasks : Keeps(k) => joinTask[k].player # p
  BY <1>0 DEF Keepers, Kept
<1>4. \A b \in Addrs : b # a /\ session[b] # None => session[b].player # p
  BY <1>0 DEF Keepers, Backed
<1>5. [match |-> m, player |-> p] # None
  BY NoneAssumption DEF Session
<1>6. \A b \in Addrs : session'[b] # [match |-> m, player |-> p]
  BY <1>0, <1>1, <1>2, <1>3, <1>4, <1>5
<1>7. ASSUME NEW k \in JoinTasks, joinTask'[k].pc = "registered" PROVE joinTask'[k].player # p
  BY <1>1, <1>3, <1>7 DEF Keeps
<1> QED
  BY <1>6, <1>7 DEF Receiving, JoinAt

\* No step of the server loses the announcement of a start for one who can receive it.
LEMMA NothingLost ==
  ASSUME Mail, TasksTyped, TypeOK, Keepers, Keepers', CastsAgree, ~Hangups, [UdpNext]_allVars,
         NEW p \in Players, NEW m \in Matches, m \in matches,
         Receiving(p, m), Receiving(p, m)', Reached(p, m)
  PROVE  Reached(p, m)'
<1> DEFINE seat == [match |-> m, player |-> p]
<1>0. /\ ChannelsTyped /\ casts \subseteq Cast /\ sent \in [Addrs -> Seq(Reliable \cup Welcome)]
  BY DEF Mail
<1>1. p \in players[m] /\ HasReceiver(p) /\ seat # None
  <2>1. seat # None
    BY NoneAssumption DEF Session
  <2> QED
    BY <2>1 DEF Receiving, HasReceiver, Keepers, Backed, JoinAt, Placed
<1>2. ASSUME NEW a \in Addrs, NEW q, session[a] # None, session[a].player = p, q = session[a].match
      PROVE  session[a] = seat
  <2>1. CASE \E b \in Addrs : session[b] = seat
    BY <1>1, <1>2, <2>1 DEF Keepers, Backed
  <2>2. CASE \E j \in JoinTasks : JoinAt(j, "registered") /\ joinTask[j].player = p
    BY <1>2, <2>2 DEF Keepers, Keeps, Kept, JoinAt
  <2> QED
    BY <2>1, <2>2 DEF Receiving
<1>3. ASSUME UNCHANGED <<session, channel, sent>>, casts \subseteq casts' PROVE Reached(p, m)'
  BY <1>3, MoreMail
<1>4. ASSUME NEW c \in Addrs, NEW x \in Reliable \cup Welcome, Deliver(c, x),
             UNCHANGED <<session, channel, casts>>
      PROVE  Reached(p, m)'
  BY <1>0, <1>4, MoreMail, DeliverAdds
<1>5. ASSUME NEW j \in JoinTasks, JoinProgress(j) PROVE Reached(p, m)'
  <2> DEFINE a == joinTask[j].addr
  <2>1. joinTask[j].pc # "idle"
    BY <1>5 DEF JoinProgress, ConsumeStep, RegisterStep, InsertSession, SendJoinOk, RemoveSession,
           RemoveStep, JoinAt
  <2>2. a \in Addrs /\ joinTask[j].player \in Players
    BY <2>1 DEF TasksTyped, WellFilled
  <2>3. ASSUME NEW code \in {"auth_failed", "join_failed"}, Refuse(j, code),
               UNCHANGED <<session, channel, casts>>
        PROVE  Reached(p, m)'
    <3>1. Error(code) \in Reliable \cup Welcome /\ Deliver(a, Error(code))
      BY <2>3 DEF Refuse, Error, Reliable
    <3> QED
      BY <1>4, <2>2, <2>3, <3>1
  <2>4. CASE ConsumeStep(j)
    BY <1>3, <2>3, <2>4 DEF ConsumeStep
  <2>5. CASE RegisterStep(j)
    BY <1>3, <2>3, <2>5 DEF RegisterStep
  <2>6. CASE SendJoinOk(j)
    <3>1. joinTask[j].match \in Matches
      BY <2>6 DEF SendJoinOk, JoinAt, TasksTyped, WellFilled
    <3>2. JoinOk(joinTask[j].match, joinTask[j].player) \in Reliable \cup Welcome
      BY <2>2, <3>1 DEF JoinOk, Welcome
    <3> QED
      BY <1>3, <1>4, <2>2, <2>6, <3>2 DEF SendJoinOk, Deliver
  <2>7. CASE InsertSession(j) \/ RemoveSession(j)
    <3>1. session[a] = None \/ session[a].player # p
      BY <2>7, Unseated
    <3>2. channel'[p] = channel[p]
      BY <1>0, <2>7, <3>1 DEF InsertSession, RemoveSession, CloseChannelOf, ChannelsTyped
    <3>3. \A b \in Addrs : session[b] = seat => session'[b] = session[b]
      BY <1>1, <2>2, <2>7, <3>1 DEF InsertSession, RemoveSession, TasksTyped
    <3>4. UNCHANGED <<sent, casts>>
      BY <2>7 DEF InsertSession, RemoveSession
    <3> QED
      BY <3>2, <3>3, <3>4, MoreMail
  <2>8. CASE RemoveStep(j)
    BY <1>3, <2>8 DEF RemoveStep
  <2> QED
    BY <1>5, <2>4, <2>5, <2>6, <2>7, <2>8 DEF JoinProgress
<1>6. ASSUME NEW c \in ParamTasks, UpdateStep(c) PROVE Reached(p, m)'
  BY <1>3, <1>6 DEF UpdateStep
<1>18. ASSUME NEW c \in ParamTasks, ReplyError(c) PROVE Reached(p, m)'
  <2> DEFINE x == paramTask[c].error
             q == paramTask[c].player
  <2>1. x \in Reliable
    BY <1>18, RefusalsReliable DEF ReplyError, Mail, ChangesTyped, IdleParam
  <2> HIDE DEF x, Reliable
  <2>2. Enqueue(q, x) /\ UNCHANGED <<session, casts, sent>>
    BY <1>18 DEF ReplyError, x
  <2> QED
    BY <1>0, <2>1, <2>2, EnqueueAdds, MoreMail
<1>7. ASSUME NEW b \in casts, b.to = None \/ p \in b.rest \cup {b.to}, IsStart(b.msg, m),
             NEW S, S \subseteq Players, Onward(b, S), p \in S
      PROVE  StartDue(p, m)'
  <2>1. PICK q \in S : casts' = (casts \ {b}) \cup {[b EXCEPT !.to = q, !.rest = S \ {q}]}
    BY <1>7 DEF Onward
  <2> DEFINE d == [b EXCEPT !.to = q, !.rest = S \ {q}]
  <2>2. d.msg = b.msg /\ d.to = q /\ d.rest = S \ {q}
    BY <1>0 DEF Cast
  <2>3. d \in casts'
    BY <2>1
  <2> HIDE DEF d
  <2> QED
    BY <1>7, <2>2, <2>3 DEF StartDue
<1>8. ASSUME NEW b \in casts, NEW S, Onward(b, S), UNCHANGED <<session, sent>>,
             \A i \in DOMAIN channel[p] : i \in DOMAIN channel'[p] /\ channel'[p][i] = channel[p][i],
             IsStart(b.msg, m) /\ (b.to = None \/ p \in b.rest \cup {b.to}) => StartDue(p, m)'
      PROVE  Reached(p, m)'
  <2>1. casts \ {b} \subseteq casts'
    BY <1>8 DEF Onward
  <2>2. CASE StartDue(p, m)
    BY <1>8, <2>1, <2>2 DEF StartDue, Reached
  <2>3. ASSUME NEW a \in Addrs, session[a] = seat, NothingOwed(a, m) PROVE Reached(p, m)'
    BY <1>8, <2>3 DEF Reached, NothingOwed, ToldOfStart
  <2> QED
    BY <2>2, <2>3 DEF Reached
<1>9. ASSUME NEW b \in casts, ReadTargets(b) PROVE Reached(p, m)'
  <2> DEFINE S == IF b.match \in matches THEN players[b.match] ELSE {}
  <2>1. S \subseteq Players /\ Onward(b, S) /\ UNCHANGED <<session, sent, channel>>
    BY <1>9 DEF ReadTargets, TypeOK
  <2>2. IsStart(b.msg, m) => p \in S
    BY <1>1 DEF IsStart, CastsAgree
  <2> HIDE DEF S
  <2>3. b.to = None
    BY <1>9 DEF ReadTargets
  <2> QED
    BY <1>7, <1>8, <2>1, <2>2, <2>3
<1>10. ASSUME NEW b \in casts, CastOn(b) PROVE Reached(p, m)'
  <2>1. /\ b.msg \in Reliable /\ b.rest \subseteq Players
        /\ Enqueue(b.to, b.msg) /\ Onward(b, b.rest) /\ UNCHANGED <<session, sent>>
        /\ b.to # None
    BY <1>0, <1>10 DEF CastOn, Cast
  <2>2. CASE b.to = p
    <3>1. PICK i \in DOMAIN channel'[p] : channel'[p][i] = b.msg
      BY <1>0, <1>1, <2>1, <2>2, EnqueueAdds
    <3>2. IsStart(b.msg, m) => StartDue(p, m)'
      BY <3>1 DEF StartDue
    <3> QED
      BY <1>0, <1>8, <2>1, <3>2, EnqueueAdds
  <2>3. CASE b.to # p
    BY <1>0, <1>7, <1>8, <2>1, <2>3, EnqueueAdds
  <2> QED
    BY <2>2, <2>3
<1>11. ASSUME NEW a \in Addrs, Pump(a) PROVE Reached(p, m)'
  <2> DEFINE q == session[a].player
             t == channel[q]
             x == Head(t)
  <2>1. /\ q \in Players /\ x \in Reliable /\ x = t[1]
        /\ Len(t) \in Nat \ {0} /\ Len(Tail(t)) = Len(t) - 1
        /\ \A i \in DOMAIN t : i > 1 => i - 1 \in DOMAIN Tail(t) /\ Tail(t)[i - 1] = t[i]
    BY <1>11, PumpTakes
  <2>0. t \in Seq(Reliable)
    BY <1>0, <2>1 DEF ChannelsTyped
  <2>2. /\ Deliver(a, x) /\ channel' = [channel EXCEPT ![q] = Tail(t)]
        /\ UNCHANGED <<session, casts>>
    BY <1>11 DEF Pump
  <2>3. \A c \in Addrs : \A i \in DOMAIN sent[c] : i \in DOMAIN sent'[c] /\ sent'[c][i] = sent[c][i]
    <3> HIDE DEF x, Reliable, Welcome
    <3> QED
      BY <1>0, <2>1, <2>2, DeliverAdds
  <2>4. CASE q # p
    BY <1>0, <2>2, <2>3, <2>4, MoreMail DEF ChannelsTyped
  <2>5. ASSUME q = p, NEW i \in DOMAIN t, IsStart(t[i], m) PROVE Reached(p, m)'
    <3>1. CASE i = 1
      <4>1. session'[a] = seat
        BY <1>2, <1>11, <2>2, <2>5 DEF Pump
      <4>2. NothingOwed(a, m)'
        <5>1. CASE Transmit(a, x)
          <6>1. \E k \in DOMAIN sent'[a] : sent'[a][k] = x
            BY <1>0, <5>1, TransmitPuts
          <6> QED
            BY <2>1, <2>5, <3>1, <6>1 DEF NothingOwed, ToldOfStart
        <5>2. CASE a \in FailingAddrs
          BY <5>2 DEF NothingOwed
        <5> QED
          BY <2>2, <5>1, <5>2 DEF Deliver
      <4> QED
        BY <4>1, <4>2 DEF Reached
    <3>2. CASE i # 1
      <4>1. i > 1
        <5> HIDE DEF t
        <5> QED
          BY <2>0, <2>5, <3>2
      <4>2. i - 1 \in DOMAIN Tail(t) /\ Tail(t)[i - 1] = t[i]
        BY <2>1, <4>1
      <4>3. channel'[p] = Tail(t)
        BY <1>0, <2>2, <2>5 DEF ChannelsTyped
      <4> QED
        BY <2>5, <4>2, <4>3 DEF Reached, StartDue
    <3> QED
      BY <3>1, <3>2
  <2>6. CASE ~\E i \in DOMAIN channel[p] : IsStart(channel[p][i], m)
    <3>1. StartDue(p, m) => StartDue(p, m)'
      BY <2>2, <2>6 DEF StartDue
    <3>2. ASSUME NEW c \in Addrs, session[c] = seat, NothingOwed(c, m) PROVE Reached(p, m)'
      BY <2>2, <2>3, <3>2 DEF Reached, NothingOwed, ToldOfStart
    <3> QED
      BY <3>1, <3>2 DEF Reached
  <2> QED
    BY <2>4, <2>5, <2>6
<1>12. CASE OtherCore
  BY <1>3, <1>12 DEF OtherCore, udpVars, taskVars
<1>13. ASSUME NEW n \in Matches, StartStep(n) PROVE Reached(p, m)'
  BY <1>3, <1>13 DEF StartStep
<1>14. ASSUME NEW b \in casts, AbandonCast(b) PROVE Reached(p, m)'
  BY <1>14 DEF AbandonCast
<1>15. ASSUME NEW j \in JoinTasks, NEW a \in Addrs, NEW q \in Players, ReceiveJoin(j, a, q)
       PROVE  Reached(p, m)'
  BY <1>3, <1>15 DEF ReceiveJoin
<1>16. ASSUME NEW c \in ParamTasks, NEW a \in Addrs, NEW param \in Kinds,
              NEW direction \in ParamDirection, ReceiveParamChange(c, a, param, direction)
       PROVE  Reached(p, m)'
  BY <1>3, <1>16 DEF ReceiveParamChange
<1>17. CASE UNCHANGED allVars
  BY <1>3, <1>17 DEF allVars, udpVars, taskVars
<1> QED
  BY <1>5, <1>6, <1>9, <1>10, <1>11, <1>12, <1>13, <1>14, <1>15, <1>16, <1>17, <1>18
     DEF UdpNext, ServerStep, CastProgress

\* Only a start deals a colour: whoever has one afterwards had one before.
LEMMA ColourFromStart ==
  ASSUME TypeOK, TypeOK', SingleAdmission, [Next]_vars, NEW p \in Players, NEW m \in Matches,
         ~StartRoom(m), Coloured(p, m)', p \in players'[m]
  PROVE  Coloured(p, m) /\ p \in players[m]
<1> USE DEF roomVars, drawnVars
<1>1. ASSUME m \in matches, handle'[m][p].colour = handle[m][p].colour, players'[m] \subseteq players[m]
      PROVE  Coloured(p, m) /\ p \in players[m]
  BY <1>1 DEF Coloured
<1>2. ASSUME UNCHANGED <<matches, handle, players>> PROVE Coloured(p, m) /\ p \in players[m]
  BY <1>2 DEF Coloured
<1>3. ASSUME NEW n \in Matches, CreateRoom(n) PROVE Coloured(p, m) /\ p \in players[m]
  BY <1>3 DEF CreateRoom, Coloured, TypeOK
<1>4. ASSUME NEW n \in Matches, StartRoom(n) PROVE Coloured(p, m) /\ p \in players[m]
  <2>1. n # m
    BY <1>4
  <2>2. handle'[m] = handle[m] /\ UNCHANGED <<matches, players>>
    BY <1>4, <2>1 DEF StartRoom, TypeOK
  <2> QED
    BY <2>2 DEF Coloured
<1>5. ASSUME NEW S \in SUBSET matches, DropRooms(S) PROVE Coloured(p, m) /\ p \in players[m]
  BY <1>5 DEF DropRooms, Coloured
<1>6. ASSUME NEW c \in joining, RegisterPlayer(c) PROVE Coloured(p, m) /\ p \in players[m]
  <2>1. c \in Claim /\ c.player \notin players[c.match]
    BY DEF TypeOK, Claim, SingleAdmission
  <2>2. CASE m = c.match /\ p = c.player
    <3>1. CASE UNCHANGED <<players, handle>>
      BY <2>1, <2>2, <3>1
    <3>2. CASE handle' = [handle EXCEPT ![m][p] = NewHandle]
      <4>1. handle'[m][p] = NewHandle
        BY <3>2 DEF TypeOK
      <4> QED
        BY <4>1 DEF NewHandle, Coloured
    <3> QED
      BY <1>6, <2>1, <2>2, <3>1, <3>2 DEF RegisterPlayer
  <2>3. CASE ~(m = c.match /\ p = c.player)
    BY <1>6, <2>1, <2>3 DEF RegisterPlayer, Coloured, Claim, TypeOK
  <2> QED
    BY <2>2, <2>3
<1>7. ASSUME NEW n \in Matches, NEW q \in Players, RemovePlayer(n, q)
      PROVE  Coloured(p, m) /\ p \in players[m]
  BY <1>7 DEF RemovePlayer, Coloured, TypeOK
<1>8. ASSUME NEW n \in Matches, NEW q \in Players, NEW param \in Kinds,
             NEW direction \in ParamDirection, UpdatePlayerParams(n, q, param, direction)
      PROVE  Coloured(p, m) /\ p \in players[m]
  <2>1. handle[m][p] \in PlayerHandle
    BY DEF TypeOK
  <2> QED
    BY <1>8, <2>1 DEF UpdatePlayerParams, Coloured, TypeOK, PlayerHandle
<1>9. ASSUME NEW n \in Matches, NEW q \in Players, IssueJoinTicket(n, q) \/ FinishRoom(n, q)
      PROVE  Coloured(p, m) /\ p \in players[m]
  BY <1>2, <1>9 DEF IssueJoinTicket, FinishRoom
<1>10. ASSUME NEW t \in tickets, ConsumeTicket(t) PROVE Coloured(p, m) /\ p \in players[m]
  BY <1>2, <1>10 DEF ConsumeTicket
<1> QED
  BY <1>2, <1>3, <1>4, <1>5, <1>6, <1>7, <1>8, <1>9, <1>10
     DEF Next, DeleteRoom, SweepBegin, SweepApply, Stale, Tick, vars

\* Only a registration makes somebody a receiver, and nobody who has just registered
\* has a colour.
LEMMA ReceiverFromJoin ==
  ASSUME TasksTyped, TypeOK, SingleAdmission, [UdpNext]_allVars, NEW p \in Players,
         NEW m \in Matches, Receiving(p, m)'
  PROVE  Receiving(p, m) \/ \E j \in JoinTasks : JoinAt(j, "claimed") /\ RegisterStep(j)
                                 /\ joinTask[j].player = p /\ joinTask[j].match = m
<1> DEFINE seat == [match |-> m, player |-> p]
<1>0. seat # None
  BY NoneAssumption DEF Session
<1>1. ASSUME UNCHANGED session,
             \A k \in JoinTasks : JoinAt(k, "registered")' => joinTask'[k] = joinTask[k]
      PROVE  Receiving(p, m)
  BY <1>1 DEF Receiving, JoinAt
<1>2. ASSUME NEW j \in JoinTasks, NEW pc \in JoinTask, Moves(j, pc), pc.pc # "registered", UNCHANGED session
      PROVE  Receiving(p, m)
  BY <1>1, <1>2 DEF Moves, JoinAt
<1>3. ASSUME NEW j \in JoinTasks, JoinProgress(j), ~RegisterStep(j) PROVE Receiving(p, m)
  <2>1. /\ \A k \in JoinTasks : k # j => joinTask'[k] = joinTask[k]
        /\ joinTask'[j].pc # "registered"
    BY <1>3 DEF JoinProgress, ConsumeStep, InsertSession, SendJoinOk, RemoveSession, RemoveStep,
       Refuse, JoinStep, TasksTyped, JoinTask
  <2>2. CASE InsertSession(j)
    <3>1. PICK b \in Addrs : session'[b] = seat \/ Receiving(p, m)
      <4>1. CASE \E b \in Addrs : session'[b] = seat
        BY <4>1
      <4>2. ASSUME NEW k \in JoinTasks, JoinAt(k, "registered")', joinTask'[k].player = p,
                   joinTask'[k].match = m
            PROVE  Receiving(p, m)
        BY <2>1, <4>2 DEF Receiving, JoinAt
      <4>3. joinTask[j].addr \in Addrs
        BY <2>2 DEF InsertSession, JoinAt, TasksTyped, WellFilled
      <4> QED
        BY <4>1, <4>2, <4>3 DEF Receiving
    <3>2. CASE session'[b] = session[b] /\ session'[b] = seat
      BY <3>2 DEF Receiving
    <3>3. CASE session'[b] = SessionOf(j) /\ session'[b] = seat
      BY <2>2, <3>3 DEF Receiving, InsertSession, SessionOf
    <3> QED
      BY <2>2, <3>1, <3>2, <3>3 DEF InsertSession, TasksTyped
  <2>3. CASE RemoveSession(j)
    <3>1. \A b \in Addrs : session'[b] = session[b] \/ session'[b] = None
      BY <2>3 DEF RemoveSession, TasksTyped
    <3> QED
      BY <1>0, <2>1, <3>1 DEF Receiving, JoinAt
  <2>4. CASE ConsumeStep(j) \/ SendJoinOk(j) \/ RemoveStep(j)
    <3>1. UNCHANGED session
      BY <2>4 DEF ConsumeStep, SendJoinOk, RemoveStep
    <3> QED
      BY <1>1, <2>1, <3>1 DEF JoinAt
  <2> QED
    BY <1>3, <2>2, <2>3, <2>4 DEF JoinProgress
<1>4. ASSUME NEW j \in JoinTasks, RegisterStep(j), ~Receiving(p, m)
      PROVE  JoinAt(j, "claimed") /\ joinTask[j].player = p /\ joinTask[j].match = m
  <2>1. /\ UNCHANGED session
        /\ \A k \in JoinTasks : k # j => joinTask'[k] = joinTask[k]
        /\ joinTask'[j].player = joinTask[j].player /\ joinTask'[j].match = joinTask[j].match
        /\ JoinAt(j, "claimed")
    BY <1>4 DEF RegisterStep, Refuse, JoinStep, TasksTyped, JoinTask
  <2> QED
    BY <1>4, <2>1 DEF Receiving, JoinAt
<1>5. ASSUME NEW j \in JoinTasks, NEW a \in Addrs, NEW q \in Players, ReceiveJoin(j, a, q)
      PROVE  Receiving(p, m)
  BY <1>1, <1>5 DEF ReceiveJoin, JoinAt, TasksTyped
<1>6. ASSUME UNCHANGED <<session, joinTask>> PROVE Receiving(p, m)
  BY <1>1, <1>6
<1> QED
  BY <1>3, <1>4, <1>5, <1>6 DEF UdpNext, ServerStep, OtherCore, udpVars, taskVars, StartStep, UpdateStep,
     ReplyError, CastProgress, ReadTargets, CastOn, AbandonCast, Pump, ReceiveParamChange, allVars

\* A room starts in start_room only, which then broadcasts.
LEMMA OnlyStartStarts ==
  ASSUME TypeOK, TypeOK', ParamTasksTyped, [UdpNext]_allVars, NEW m \in Matches, StartRoom(m)
  PROVE  StartStep(m)
<1> USE DEF roomVars, drawnVars
<1>1. startedAt[m] = 0 /\ startedAt'[m] # 0
  BY ClockAssumption DEF StartRoom, Startable, Started, TypeOK
<1>2. ASSUME NEW S \in SUBSET matches, DropRooms(S) PROVE FALSE
  BY <1>1, <1>2 DEF DropRooms
<1>3. CASE UNCHANGED startedAt
  BY <1>1, <1>3
<1>4. CASE OtherCore
  BY <1>2, <1>3, <1>4 DEF OtherCore, CreateRoom, DeleteRoom, IssueJoinTicket, FinishRoom, SweepBegin,
     SweepApply, Stale, Tick
<1>5. ASSUME NEW n \in Matches, StartStep(n), n # m PROVE FALSE
  BY <1>1, <1>5 DEF StartStep, StartRoom, TypeOK
<1>6. ASSUME NEW j \in JoinTasks, JoinProgress(j) PROVE UNCHANGED startedAt
  BY <1>6 DEF JoinProgress, ConsumeStep, ConsumeTicket, RegisterStep, RegisterPlayer, InsertSession,
     SendJoinOk, RemoveSession, RemoveStep, RemovePlayer, vars
<1>7. ASSUME NEW c \in ParamTasks, UpdateStep(c) \/ ReplyError(c) PROVE UNCHANGED startedAt
  BY <1>7 DEF UpdateStep, ReplyError, UpdatePlayerParams, vars
<1> QED
  BY <1>3, <1>4, <1>5, <1>6, <1>7 DEF UdpNext, ServerStep, CastProgress, ReadTargets, CastOn, AbandonCast,
     Pump, ReceiveJoin, ReceiveParamChange, vars, allVars

\* A broadcast of a start goes to the room that started.
LEMMA CastsAgreeStep ==
  ASSUME CastsAgree, casts \subseteq Cast, [UdpNext]_allVars
  PROVE  CastsAgree'
<1>1. ASSUME NEW b \in casts, NEW S, Onward(b, S) PROVE CastsAgree'
  <2>1. ASSUME NEW p \in S, casts' = (casts \ {b}) \cup {[b EXCEPT !.to = p, !.rest = S \ {p}]}
        PROVE  CastsAgree'
    <3> DEFINE d == [b EXCEPT !.to = p, !.rest = S \ {p}]
    <3>1. d.msg = b.msg /\ d.match = b.match
      BY DEF Cast
    <3>2. \A e \in casts' : e \in casts \/ e = d
      BY <2>1
    <3> HIDE DEF d
    <3> QED
      BY <3>1, <3>2 DEF CastsAgree
  <2> QED
    BY <1>1, <2>1 DEF Onward, CastsAgree
<1>2. ASSUME casts' \subseteq casts PROVE CastsAgree'
  BY <1>2 DEF CastsAgree
<1>3. ASSUME NEW m \in Matches, StartStep(m) PROVE CastsAgree'
  BY <1>3 DEF StartStep, NewCast, MatchStarted, CastsAgree
<1>4. ASSUME NEW c \in ParamTasks, UpdateStep(c) PROVE CastsAgree'
  <2> DEFINE m == paramTask[c].match
             p == paramTask[c].player
             b == NewCast(m, ParamApplied(m, p, handle'[m][p]))
  <2>1. b.msg.type = "param_applied"
    BY DEF NewCast, ParamApplied
  <2>2. casts' = casts \cup {b} \/ UNCHANGED casts
    BY <1>4 DEF UpdateStep
  <2>3. CASE casts' = casts \cup {b}
    <3> HIDE DEF b
    <3>1. \A d \in casts' : d.msg.type = "match_started" => d \in casts
      BY <2>1, <2>3
    <3> QED
      BY <3>1 DEF CastsAgree
  <2> QED
    BY <1>2, <2>2, <2>3
<1>5. ASSUME NEW j \in JoinTasks, JoinProgress(j) PROVE UNCHANGED casts
  BY <1>5 DEF JoinProgress, ConsumeStep, RegisterStep, InsertSession, SendJoinOk, RemoveSession, RemoveStep
<1> QED
  BY <1>1, <1>2, <1>3, <1>4, <1>5 DEF UdpNext, ServerStep, OtherCore, udpVars, taskVars, CastProgress,
     ReadTargets, CastOn, AbandonCast, Pump, ReplyError, ReceiveJoin, ReceiveParamChange, allVars

LEMMA StartsArriveStep ==
  (~Hangups => StartsArrive) /\ Mail /\ TasksTyped /\ TypeOK /\ TypeOK' /\ SingleAdmission
    /\ Keepers /\ Keepers' /\ ParamTasksTyped /\ [UdpNext]_allVars => (~Hangups => StartsArrive)'
<1> SUFFICES ASSUME ~Hangups, StartsArrive, Mail, TasksTyped, TypeOK, TypeOK', SingleAdmission,
                    Keepers, Keepers', ParamTasksTyped, [UdpNext]_allVars
             PROVE  StartsArrive'
  OBVIOUS
<1>1. CastsAgree'
  BY CastsAgreeStep DEF StartsArrive, Mail
<1>2. ASSUME NEW p \in Players, NEW m \in Matches, Receiving(p, m)', Coloured(p, m)'
      PROVE  Reached(p, m)'
  <2>1. p \in players'[m]
    <3>1. m \in matches'
      BY <1>2 DEF Coloured
    <3>2. [match |-> m, player |-> p] # None
      BY NoneAssumption DEF Session
    <3> QED
      BY <1>2, <3>1, <3>2 DEF Receiving, Keepers, Backed, JoinAt, Placed
  <2>2. CASE StartStep(m)
    <3> DEFINE b == NewCast(m, MatchStarted(m, [q \in players[m] |-> handle'[m][q].colour]))
    <3>1. b \in casts'
      BY <2>2 DEF StartStep
    <3>2. IsStart(b.msg, m) /\ b.to = None
      BY DEF NewCast, MatchStarted, IsStart
    <3> HIDE DEF b
    <3> QED
      BY <3>1, <3>2 DEF Reached, StartDue
  <2>3. CASE ~StartStep(m)
    <3>1. [Next]_vars
      BY CoreStep
    <3>2. ~StartRoom(m)
      BY <2>3, OnlyStartStarts
    <3>3. Coloured(p, m) /\ p \in players[m]
      BY <1>2, <2>1, <3>1, <3>2, ColourFromStart
    <3>4. Receiving(p, m)
      <4>1. ASSUME NEW j \in JoinTasks, JoinAt(j, "claimed"), joinTask[j].player = p,
                   joinTask[j].match = m
            PROVE  FALSE
        <5>1. [player |-> p, match |-> m] \in joining
          BY <4>1 DEF Keepers, Claims
        <5> QED
          BY <3>3, <5>1 DEF SingleAdmission
      <4> QED
        BY <1>2, <4>1, ReceiverFromJoin
    <3> QED
      BY <1>2, <3>3, <3>4, NothingLost DEF StartsArrive, Coloured
  <2> QED
    BY <2>2, <2>3
<1> QED
  BY <1>1, <1>2 DEF StartsArrive

\* Nothing loses a start's announcement but a send that fails: it is in a broadcast that
\* has not come to the player yet, in the player's channel or on the socket, for every
\* address sends to which do not fail (grpc_service.rs, start_room; room.rs,
\* broadcast_reliable_udp; udp_connection.rs, the pump).
THEOREM StartIsNeverLost == UdpSpec => []StartNeverLost
<1>1. UdpInit => (~Hangups => StartsArrive)
  BY DEF UdpInit, Init, StartsArrive, CastsAgree, Coloured
<1>2. (~Hangups => StartsArrive) /\ TypeOK /\ Keepers /\ TasksTyped => StartNeverLost
  <2> SUFFICES ASSUME ~Hangups, StartsArrive, TypeOK, Keepers, TasksTyped,
                      NEW a \in Addrs \ FailingAddrs, NEW m \in matches, NEW p \in Players,
                      session[a] = [match |-> m, player |-> p], handle[m][p].colour # NoColour
               PROVE  ToldOfStart(a, m) \/ StartDue(p, m)
    BY DEF StartNeverLost
  <2>1. m \in Matches /\ [match |-> m, player |-> p] # None
    BY NoneAssumption DEF TypeOK, Session
  <2>2. Reached(p, m)
    BY <2>1 DEF StartsArrive, Receiving, Coloured
  <2>3. ASSUME NEW b \in Addrs, session[b] = [match |-> m, player |-> p] PROVE b = a
    BY <2>1, <2>3 DEF Keepers, Backed
  <2> QED
    BY <2>2, <2>3 DEF Reached, NothingOwed
<1>3. UdpSpec => []TypeOK /\ []SingleAdmission
  BY UdpImplementsControlPlane, TypeCorrect, AdmitsOnce, PTL DEF ImplementsControlPlane
<1>4. UdpInit => ParamTasksTyped
  BY DEF UdpInit, ParamTasksTyped, IdleParam
<1>5. ParamTasksTyped /\ [UdpNext]_allVars => ParamTasksTyped'
  BY ParamTaskStep
<1> QED
  BY <1>1, <1>2, <1>3, <1>4, <1>5, MailInit, KeepersInit, KeepersAlways, MailStep, TasksTypedStep,
     StartsArriveStep, PTL DEF UdpSpec

-----------------------------------------------------------------------------
(* What is in a channel gets onto the socket *)

\* The i-th message in the channel of session s, at address a, is msg.
HeldAt(a, s, i, msg) ==
  session[a] = s /\ i \in DOMAIN channel[s.player] /\ channel[s.player][i] = msg

Gone(a, s) == session[a] # s

OnSocket(a, msg) == \E k \in DOMAIN sent[a] : sent[a][k] = msg

\* A message has got one place nearer the front; from the front it goes onto the socket,
\* if the send does not fail.
Nearer(a, s, i, msg) ==
  \/ Gone(a, s)
  \/ i > 1 /\ HeldAt(a, s, i - 1, msg)
  \/ i = 1 /\ (a \in FailingAddrs \/ OnSocket(a, msg))

\* A message keeps its place in the channel of its session until the pump comes.
LEMMA HeldStays ==
  ASSUME Mail, TasksTyped, Keepers, [UdpNext]_allVars, NEW a \in Addrs, NEW s \in Session,
         NEW i \in Nat \ {0}, NEW msg, HeldAt(a, s, i, msg)
  PROVE  /\ HeldAt(a, s, i, msg)' \/ Nearer(a, s, i, msg)'
         /\ Pump(a) => Nearer(a, s, i, msg)'
<1> DEFINE p == s.player
           Goal == HeldAt(a, s, i, msg)' \/ Nearer(a, s, i, msg)'
<1>0. /\ ChannelsTyped /\ casts \subseteq Cast /\ sent \in [Addrs -> Seq(Reliable \cup Welcome)]
      /\ p \in Players /\ s # None /\ session[a] = s
  BY NoneAssumption DEF Mail, Session, HeldAt
<1>1. ASSUME session'[a] = session[a],
             \A k \in DOMAIN channel[p] : k \in DOMAIN channel'[p] /\ channel'[p][k] = channel[p][k]
      PROVE  Goal
  BY <1>0, <1>1 DEF HeldAt
<1>2. ASSUME NEW j \in JoinTasks, JoinProgress(j) PROVE Goal
  <2> DEFINE x == joinTask[j].addr
  <2>1. CASE InsertSession(j) \/ RemoveSession(j)
    <3>1. x \in Addrs
      BY <2>1 DEF InsertSession, RemoveSession, JoinAt, TasksTyped, WellFilled
    <3>2. CASE x = a
      <4>1. CASE RemoveSession(j)
        BY <1>0, <3>2, <4>1 DEF RemoveSession, TasksTyped, Nearer, Gone
      <4>2. CASE InsertSession(j)
        <5>1. joinTask[j].player # p
          BY <1>0, <4>2 DEF InsertSession, JoinAt, Keepers, Keeps, Kept
        <5>2. session'[a].player = joinTask[j].player
          BY <3>1, <3>2, <4>2 DEF InsertSession, SessionOf, TasksTyped
        <5> QED
          BY <5>1, <5>2 DEF Nearer, Gone
      <4> QED
        BY <2>1, <4>1, <4>2
    <3>3. CASE x # a
      <4>1. session[x] # None => session[x].player # p
        BY <1>0, <3>1, <3>3 DEF Keepers, Backed
      <4>2. channel'[p] = channel[p] /\ session'[a] = session[a]
        BY <1>0, <2>1, <3>1, <3>3, <4>1 DEF InsertSession, RemoveSession, CloseChannelOf, ChannelsTyped, TasksTyped
      <4> QED
        BY <1>1, <4>2
    <3> QED
      BY <3>2, <3>3
  <2>2. CASE ConsumeStep(j) \/ RegisterStep(j) \/ SendJoinOk(j) \/ RemoveStep(j)
    BY <1>1, <2>2 DEF ConsumeStep, RegisterStep, SendJoinOk, RemoveStep
  <2> QED
    BY <1>2, <2>1, <2>2 DEF JoinProgress
<1>3. ASSUME NEW q, NEW x \in Reliable, Enqueue(q, x), session' = session PROVE Goal
  BY <1>0, <1>1, <1>3, EnqueueAdds
<1>4. ASSUME NEW c \in ParamTasks, ReplyError(c) PROVE Goal
  <2> DEFINE x == paramTask[c].error
             q == paramTask[c].player
  <2>1. x \in Reliable
    BY <1>4, RefusalsReliable DEF ReplyError, Mail, ChangesTyped, IdleParam
  <2>2. Enqueue(q, x) /\ session' = session
    BY <1>4 DEF ReplyError
  <2> HIDE DEF x, Goal, Reliable
  <2> QED
    BY <1>3, <2>1, <2>2
<1>5. ASSUME NEW b \in casts, CastOn(b) PROVE Goal
  <2>1. b.msg \in Reliable
    BY <1>0 DEF Cast
  <2> QED
    BY <1>3, <1>5, <2>1 DEF CastOn
<1>6. ASSUME Pump(a) PROVE Nearer(a, s, i, msg)'
  <2> DEFINE t == channel[p]
  <2>1. /\ t[1] = Head(t)
        /\ \A k \in DOMAIN t : k > 1 => k - 1 \in DOMAIN Tail(t) /\ Tail(t)[k - 1] = t[k]
    BY <1>0, <1>6, PumpTakes
  <2>2. /\ Deliver(a, Head(t)) /\ channel' = [channel EXCEPT ![p] = Tail(t)]
        /\ UNCHANGED session
    BY <1>0, <1>6 DEF Pump
  <2>3. i \in DOMAIN t /\ t[i] = msg
    BY DEF HeldAt
  <2>4. CASE i = 1
    <3>1. CASE Transmit(a, Head(t))
      <4>1. \E k \in DOMAIN sent'[a] : sent'[a][k] = Head(t)
        BY <1>0, <3>1, TransmitPuts
      <4> QED
        BY <2>1, <2>3, <2>4, <4>1 DEF Nearer, OnSocket
    <3>2. CASE a \in FailingAddrs
      BY <2>4, <3>2 DEF Nearer
    <3> QED
      BY <2>2, <3>1, <3>2 DEF Deliver
  <2>5. CASE i > 1
    <3>1. channel'[p] = Tail(t)
      BY <1>0, <2>2 DEF ChannelsTyped
    <3> HIDE DEF t
    <3> QED
      BY <1>0, <2>1, <2>2, <2>3, <2>5, <3>1 DEF Nearer, HeldAt
  <2> QED
    BY <2>4, <2>5
<1>7. ASSUME NEW c \in Addrs, Pump(c), c # a PROVE Goal
  <2>1. session[c].player # p
    BY <1>0, <1>7 DEF Pump, Keepers, Backed
  <2>2. channel'[p] = channel[p] /\ session' = session
    BY <1>0, <1>7, <2>1 DEF Pump, ChannelsTyped
  <2> QED
    BY <1>1, <2>2
<1>8. ASSUME UNCHANGED <<session, channel>> PROVE Goal
  BY <1>1, <1>8
<1> HIDE DEF Goal
<1>9. Goal \/ Pump(a)
  BY <1>2, <1>4, <1>5, <1>7, <1>8 DEF UdpNext, ServerStep, OtherCore, udpVars, taskVars, StartStep,
     UpdateStep, CastProgress, ReadTargets, AbandonCast, ReceiveJoin, ReceiveParamChange, allVars
<1> QED
  BY <1>6, <1>9 DEF Goal

\* The pump takes the messages of a session in their order, none stays where it is:
\* each comes one place nearer the front, and from there onto the socket if the send
\* does not fail, unless the session goes first (udp_connection.rs, the pump).
THEOREM ChannelsMoveOn ==
  UdpSpec /\ UdpFairness /\ []PumpCanStep
    => \A a \in Addrs, s \in Session, i \in Nat \ {0} :
         \A msg : HeldAt(a, s, i, msg) ~> Nearer(a, s, i, msg)
<1> SUFFICES ASSUME NEW a \in Addrs, NEW s \in Session, NEW i \in Nat \ {0}, NEW msg
             PROVE  UdpSpec /\ UdpFairness /\ []PumpCanStep
                      => (HeldAt(a, s, i, msg) ~> Nearer(a, s, i, msg))
  OBVIOUS
<1> DEFINE P == HeldAt(a, s, i, msg)
           Q == Nearer(a, s, i, msg)
           I == Mail /\ TasksTyped /\ Keepers
<1>1. UdpSpec => []I
  <2>1. UdpSpec => []TypeOK
    BY UdpImplementsControlPlane, TypeCorrect, PTL DEF ImplementsControlPlane
  <2> QED
    BY <2>1, KeepersAlways, MailInit, KeepersInit, MailStep, TasksTypedStep, PTL DEF UdpSpec
<1>2. I /\ [UdpNext]_allVars /\ P => P' \/ Q'
  BY HeldStays
<1>3. I /\ <<Pump(a)>>_allVars /\ P => Q'
  BY HeldStays DEF UdpNext, ServerStep
<1>4. PumpCanStep /\ I /\ P => ENABLED <<Pump(a)>>_allVars
  <2> SUFFICES ASSUME PumpCanStep, I, P PROVE ENABLED <<Pump(a)>>_allVars
    OBVIOUS
  <2>1. session[a] # None /\ channel[session[a].player] # <<>>
    BY NoneAssumption DEF HeldAt, Session
  <2> QED
    BY <2>1 DEF PumpCanStep
<1>5. UdpFairness => PumpFairness(a)
  BY DEF UdpFairness
<1> HIDE DEF P, Q, I
<1>6. UdpSpec /\ UdpFairness /\ []PumpCanStep => (P ~> Q)
  BY <1>1, <1>2, <1>3, <1>4, <1>5, PTL DEF UdpSpec, PumpFairness
<1> QED
  BY <1>6 DEF P, Q

-----------------------------------------------------------------------------
(* Joins come to an end *)

\* What the next step of a join needs to find: the claim it is to register, and the
\* player it is to remove, unless the room has gone.  The other steps need nothing.
JoinReady(j) ==
  LET p == joinTask[j].player  m == joinTask[j].match IN
  /\ JoinAt(j, "claimed") => [player |-> p, match |-> m] \in joining
  /\ JoinAt(j, "removing") => (m \in matches => p \in players[m])

JoinsReady == \A j \in JoinTasks : JoinReady(j)

\* A fact about the formulas of the steps alone, which is beyond the proof system: a
\* step that finds what it needs has a next state.
ReadyJoinsCanStep ==
  \A j \in JoinTasks : Busy(j) /\ JoinReady(j) => ENABLED <<JoinProgress(j)>>_allVars

\* No other task ever takes away what a join is about to use: the claim of a consumed
\* ticket, and the player remove_client has taken the session of (udp_connection.rs,
\* handle_join and remove_client, between their locks).
THEOREM JoinsAlwaysReady == UdpSpec => []JoinsReady
<1>1. Keepers => JoinsReady
  BY DEF Keepers, Claims, Placed, JoinAt, JoinReady, JoinsReady
<1> QED
  BY <1>1, KeepersAlways, PTL

\* The stages that a join which is at pc can still come to.
Later(pc) ==
  CASE pc = "checked" -> {"claimed", "registered", "inserted", "failed", "removing", "done"}
    [] pc = "claimed" -> {"registered", "inserted", "failed", "removing", "done"}
    [] pc = "registered" -> {"inserted", "failed", "removing", "done"}
    [] pc = "inserted" -> {"failed", "removing", "done"}
    [] pc = "failed" -> {"removing", "done"}
    [] OTHER -> {"done"}

\* A step of a join takes it to a later stage.
LEMMA ProgressMoves ==
  ASSUME TasksTyped, NEW j \in JoinTasks, JoinProgress(j)
  PROVE  /\ Busy(j)
         /\ joinTask'[j].pc \in Later(joinTask[j].pc)
         /\ \A k \in JoinTasks \ {j} : joinTask'[k] = joinTask[k]
<1>1. joinTask \in [JoinTasks -> JoinTask]
  BY DEF TasksTyped
<1>2. CASE ConsumeStep(j)
  BY <1>1, <1>2 DEF ConsumeStep, Refuse, JoinStep, JoinAt, Busy, Later, JoinTask
<1>3. CASE RegisterStep(j)
  BY <1>1, <1>3 DEF RegisterStep, Refuse, JoinStep, JoinAt, Busy, Later, JoinTask
<1>4. CASE InsertSession(j) \/ SendJoinOk(j)
  BY <1>1, <1>4 DEF InsertSession, SessionOf, SendJoinOk, JoinStep, JoinAt, Busy, Later, JoinTask
<1>5. CASE RemoveSession(j) \/ RemoveStep(j)
  BY <1>1, <1>5 DEF RemoveSession, RemoveStep, JoinStep, JoinAt, Busy, Later, JoinTask
<1> QED
  BY <1>2, <1>3, <1>4, <1>5 DEF JoinProgress

\* A task that has begun moves by its own steps only.
LEMMA OwnSteps ==
  ASSUME TasksTyped, [UdpNext]_allVars, NEW j \in JoinTasks, ~JoinAt(j, "idle")
  PROVE  joinTask'[j] = joinTask[j] \/ JoinProgress(j)
<1>1. ASSUME NEW k \in JoinTasks, JoinProgress(k)
      PROVE  joinTask'[j] = joinTask[j] \/ JoinProgress(j)
  BY <1>1, ProgressMoves
<1>2. ASSUME NEW k \in JoinTasks, NEW a \in Addrs, NEW p \in Players, ReceiveJoin(k, a, p)
      PROVE  joinTask'[j] = joinTask[j]
  BY <1>2 DEF ReceiveJoin, JoinAt, TasksTyped
<1>3. ASSUME OtherCore \/ CastProgress
             \/ (\E m \in Matches : StartStep(m)) \/ (\E c \in ParamTasks : UpdateStep(c) \/ ReplyError(c))
             \/ (\E b \in casts : AbandonCast(b)) \/ (\E a \in Addrs : Pump(a))
      PROVE  joinTask'[j] = joinTask[j]
  BY <1>3 DEF OtherCore, CastProgress, ReadTargets, CastOn, StartStep, UpdateStep, ReplyError,
              AbandonCast, Pump, udpVars, taskVars
<1>4. ASSUME NEW c \in ParamTasks, NEW a \in Addrs, NEW param \in Kinds,
             NEW direction \in ParamDirection, ReceiveParamChange(c, a, param, direction)
      PROVE  joinTask'[j] = joinTask[j]
  BY <1>4 DEF ReceiveParamChange
<1>5. CASE UNCHANGED allVars
  BY <1>5 DEF allVars, udpVars, taskVars
<1> QED
  BY <1>1, <1>2, <1>3, <1>4, <1>5 DEF UdpNext, ServerStep

LEMMA TasksAlwaysTyped == UdpSpec => []TasksTyped
<1>1. UdpSpec => []TypeOK
  BY UdpImplementsControlPlane, TypeCorrect, PTL DEF ImplementsControlPlane
<1> QED
  BY <1>1, KeepersInit, TasksTypedStep, PTL DEF UdpSpec

\* A join does not stay at a stage for ever.
LEMMA JoinLeaves ==
  ASSUME NEW j \in JoinTasks, NEW pc, pc \notin {"idle", "done"}
  PROVE  UdpSpec /\ UdpFairness /\ []ReadyJoinsCanStep
           => (JoinAt(j, pc) ~> (joinTask[j].pc \in Later(pc)))
<1> DEFINE Beyond == joinTask[j].pc \in Later(pc)
<1>1. JoinAt(j, pc) => Busy(j)
  BY DEF JoinAt, Busy
<1>2. TasksTyped /\ [UdpNext]_allVars /\ JoinAt(j, pc) => JoinAt(j, pc)' \/ Beyond'
  BY <1>1, OwnSteps, ProgressMoves DEF JoinAt, Busy
<1>3. TasksTyped /\ <<JoinProgress(j)>>_allVars /\ JoinAt(j, pc) => Beyond'
  BY ProgressMoves DEF JoinAt
<1>4. ReadyJoinsCanStep /\ JoinsReady /\ Busy(j) => ENABLED <<JoinProgress(j)>>_allVars
  BY DEF ReadyJoinsCanStep, JoinsReady
<1>5. UdpFairness => JoinFairness(j)
  BY DEF UdpFairness
<1> HIDE DEF Beyond
<1>6. UdpSpec /\ UdpFairness /\ []ReadyJoinsCanStep => (JoinAt(j, pc) ~> Beyond)
  BY <1>1, <1>2, <1>3, <1>4, <1>5, TasksAlwaysTyped, JoinsAlwaysReady, PTL DEF UdpSpec, JoinFairness
<1> QED
  BY <1>6 DEF Beyond

\* handle_join always comes to its end, whatever became of the ticket, the room and
\* the session meanwhile, if its task is given turns.
THEOREM JoinsAlwaysEnd == UdpSpec /\ UdpFairness /\ []ReadyJoinsCanStep => JoinEnds
<1> SUFFICES ASSUME NEW j \in JoinTasks
             PROVE  UdpSpec /\ UdpFairness /\ []ReadyJoinsCanStep => (Busy(j) ~> JoinAt(j, "done"))
  BY DEF JoinEnds
<1> DEFINE At(pc) == JoinAt(j, pc)
           Past(pc) == joinTask[j].pc \in Later(pc)
           Ends(pc) == UdpSpec /\ UdpFairness /\ []ReadyJoinsCanStep => (At(pc) ~> Past(pc))
<1>1. /\ Ends("checked") /\ Ends("claimed") /\ Ends("registered")
      /\ Ends("inserted") /\ Ends("failed") /\ Ends("removing")
  <2>1. \A pc : pc \notin {"idle", "done"} => Ends(pc)
    BY JoinLeaves
  <2> HIDE DEF Ends
  <2> QED
    BY <2>1
<1>2. /\ Past("removing") => At("done")
      /\ Past("failed") => At("removing") \/ At("done")
      /\ Past("inserted") => At("failed") \/ Past("failed")
      /\ Past("registered") => At("inserted") \/ Past("inserted")
      /\ Past("claimed") => At("registered") \/ Past("registered")
      /\ Past("checked") => At("claimed") \/ Past("claimed")
  BY DEF Later, JoinAt
<1>3. UdpSpec => [](Busy(j) => At("checked") \/ Past("checked"))
  <2>1. TasksTyped => (Busy(j) => At("checked") \/ Past("checked"))
    BY DEF TasksTyped, JoinTask, Busy, Later, JoinAt
  <2> HIDE DEF At, Past
  <2> QED
    BY <2>1, TasksAlwaysTyped, PTL
<1> HIDE DEF At, Past
<1>4. UdpSpec /\ UdpFairness /\ []ReadyJoinsCanStep => (Busy(j) ~> At("done"))
  BY <1>1, <1>2, <1>3, PTL
<1> QED
  BY <1>4 DEF At
=============================================================================
