----------------------------- MODULE LinkProofs -----------------------------
(***************************************************************************)
(* Clients over a network that loses, repeats and reorders: who is told    *)
(* that the join succeeded is in, who is refused is out, a datagram stays  *)
(* in its room, and reports of changes tell which of them is current.      *)
(***************************************************************************)
EXTENDS ClientLink, UdpProofs, LifecycleProofs

-----------------------------------------------------------------------------
(* What the clients' programs remember *)

ClientPc == {"off", "joining", "joined", "mistaken", "refused", "gave_up", "left"}

ClientRecord ==
  [pc : ClientPc, player : Players \cup {None}, match : Matches \cup {None},
   observed : {None} \cup [params : PlayerParams, next : 0 .. MaxTime + Cooldown],
   cooldownErrorSeen : BOOLEAN, fromPlayers : SUBSET Players]

On(a) == client[a].pc # "off"

\* Each client has a player of its own, and knows the room its ticket is for.
Launched ==
  /\ client \in [Addrs -> ClientRecord]
  /\ \A a \in Addrs : On(a) => client[a].player \in drawnPlayers /\ client[a].match \in Matches
  /\ \A a, b \in Addrs : On(a) /\ On(b) /\ a # b => client[a].player # client[b].player
  /\ \A t \in tickets, a \in Addrs :
       On(a) /\ t.player = client[a].player => t.match = client[a].match

-----------------------------------------------------------------------------
(* What the server does for an address is what its client asked for *)

\* The ticket of the task is consumed, and its outcome is still open.
Active(j) == joinTask[j].pc \in {"claimed", "registered", "inserted", "failed", "removing"}

\* A task works for the client at its address.
Serves(j) ==
  LET task == joinTask[j]  a == task.addr IN
  task.pc # "idle" =>
    /\ On(a) /\ task.player = client[a].player
    /\ Active(j) => task.match = client[a].match
    /\ task.pc \in {"inserted", "failed"} => session[a] # None

\* A client has one ticket, and so one task at most that ever consumed it.
OneAttempt ==
  /\ \A j \in JoinTasks : Active(j) => \A t \in tickets : t.player # joinTask[j].player
  /\ \A j, k \in JoinTasks : Active(j) /\ Active(k) /\ j # k
                                => joinTask[j].player # joinTask[k].player

\* A session is that of the client at its address.
Hosts(a) ==
  session[a] # None =>
    On(a) /\ session[a].match = client[a].match /\ session[a].player = client[a].player

\* join_ok is the end of a join: no task can take the session away again.
Welcomed(a) ==
  \A i \in DOMAIN sent[a] : sent[a][i].type = "join_ok" =>
    /\ On(a) /\ sent[a][i].player = client[a].player
    /\ session[a] # None
    /\ \A j \in JoinTasks : Active(j) => joinTask[j].addr # a

Served ==
  /\ \A j \in JoinTasks : Serves(j)
  /\ OneAttempt
  /\ \A a \in Addrs : Hosts(a) /\ Welcomed(a)

\* A player in a room is connected from the address of its client.
Connected ==
  \A m \in Matches : \A p \in players[m] :
    /\ connection[p] \in Addrs /\ On(connection[p])
    /\ client[connection[p]].player = p /\ client[connection[p]].match = m

\* Whoever thinks it has joined has heard join_ok.
Believes ==
  \A a \in Addrs :
    /\ client[a].pc # "mistaken"
    /\ client[a].pc \in {"joined", "left"} =>
         \E i \in DOMAIN sent[a] : sent[a][i].type = "join_ok"

-----------------------------------------------------------------------------
(* The relay *)

RelayRecord == [pc : {"idle", "received", "done"}, type : Unreliable \cup {None},
                player : Players \cup {None}, match : Matches \cup {None}, to : SUBSET Addrs]

SentBy(r, b) == On(b) /\ client[b].player = relayTask[r].player /\ client[b].match = relayTask[r].match

\* A datagram was sent by a client, and goes to clients of its room.
Addressed(r) ==
  /\ relayTask[r].pc # "idle" => \E b \in Addrs : SentBy(r, b)
  /\ \A a \in relayTask[r].to :
       /\ relayTask[r].pc # "idle" /\ On(a) /\ client[a].match = relayTask[r].match
       /\ relayTask[r].type = "pos" => client[a].player # relayTask[r].player

\* Whose positions a client saw are others in its room.
SawOthers(a) ==
  \A p \in client[a].fromPlayers :
    /\ On(a)
    /\ \E b \in Addrs \ {a} :
         On(b) /\ client[b].player = p /\ client[b].match = client[a].match

Relayed ==
  /\ relayTask \in [RelayTasks -> RelayRecord]
  /\ \A r \in RelayTasks : Addressed(r)
  /\ \A a \in Addrs : SawOthers(a)

-----------------------------------------------------------------------------
(* The server does not notice that its clients are modelled *)

ServerSound == TypeOK /\ SingleAdmission /\ ParamTasksTyped /\ TasksTyped /\ Keepers /\ Mail

LEMMA LinkStep == TypeOK /\ [LinkNext]_linkVars => [UdpNext]_allVars
<1> SUFFICES ASSUME TypeOK, [LinkNext]_linkVars PROVE [UdpNext]_allVars
  OBVIOUS
<1>1. CASE ServerAlone
  BY <1>1 DEF ServerAlone, UdpNext
<1>2. ASSUME NEW j \in JoinTasks, NEW a \in Addrs, JoinArrives(j, a) PROVE UdpNext
  <2>1. client[a].player \in Players
    BY <1>2 DEF JoinArrives, ReceiveJoin, TypeOK
  <2> QED
    BY <1>2, <2>1 DEF JoinArrives, UdpNext
<1>3. ASSUME NEW c \in ParamTasks, NEW a \in Addrs, NEW param \in Kinds,
             NEW direction \in ParamDirection, ChangeArrives(c, a, param, direction)
      PROVE  UdpNext
  BY <1>3 DEF ChangeArrives, UdpNext
<1>4. ASSUME NEW a \in Addrs, Launch(a) \/ HearAnswer(a) \/ GiveUp(a) \/ HearMessage(a)
                                \/ HearDatagram(a) \/ Leave(a)
      PROVE  UNCHANGED allVars
  BY <1>4 DEF Launch, HearAnswer, GiveUp, HearMessage, HearDatagram, Leave
<1>5. ASSUME NEW r \in RelayTasks, NEW a \in Addrs, NEW type \in Unreliable,
             ReceiveDatagram(r, a, type)
      PROVE  UNCHANGED allVars
  BY <1>5 DEF ReceiveDatagram
<1>6. ASSUME NEW r \in RelayTasks, Relay(r) PROVE UNCHANGED allVars
  BY <1>6 DEF Relay
<1>7. CASE UNCHANGED linkVars
  BY <1>7 DEF linkVars
<1> QED
  BY <1>1, <1>2, <1>3, <1>4, <1>5, <1>6, <1>7 DEF LinkNext

LEMMA SoundStep == ServerSound /\ TypeOK' /\ SingleAdmission' /\ TicketsNameLiveRooms
                     /\ [LinkNext]_linkVars => ServerSound'
<1> SUFFICES ASSUME ServerSound, TypeOK', SingleAdmission', TicketsNameLiveRooms,
                    [LinkNext]_linkVars
             PROVE  ServerSound'
  OBVIOUS
<1>1. [UdpNext]_allVars
  BY LinkStep DEF ServerSound
<1> QED
  BY <1>1, ParamTaskStep, TasksTypedStep, KeepersStep, MailStep DEF ServerSound

\* Clients and the network are no more than what the server's own specification
\* allows its surroundings to do, so all that is proved of it holds here.
THEOREM LinkImplementsUdp == LinkSpec => UdpSpec
<1>1. UdpInit => TypeOK
  BY TypeInit DEF UdpInit
<1>2. TypeOK /\ ParamTasksTyped /\ [LinkNext]_linkVars
        => [UdpNext]_allVars /\ TypeOK' /\ ParamTasksTyped'
  BY LinkStep, CoreStep, TypeStep, ParamTaskStep
<1>3. UdpInit => ParamTasksTyped
  BY DEF UdpInit, ParamTasksTyped, IdleParam
<1> QED
  BY <1>1, <1>2, <1>3, PTL DEF LinkSpec, LinkInit, UdpSpec

LEMMA LinkSound == LinkSpec => []ServerSound
<1>1. LinkSpec => []TypeOK /\ []SingleAdmission /\ []TicketsNameLiveRooms
  BY LinkImplementsUdp, UdpImplementsControlPlane, TypeCorrect, AdmitsOnce,
     TicketsFollowRooms, PTL DEF ImplementsControlPlane
<1>2. UdpInit => ParamTasksTyped
  BY DEF UdpInit, ParamTasksTyped, IdleParam
<1>3. TypeOK /\ SingleAdmission /\ ParamTasksTyped /\ TasksTyped /\ Keepers /\ Mail => ServerSound
  BY DEF ServerSound
<1> QED
  BY <1>1, <1>2, <1>3, KeepersInit, MailInit, SoundStep, PTL DEF LinkSpec, LinkInit

-----------------------------------------------------------------------------
(* Steps of the clients *)

\* A client that is on stays on, with its player and its room.
SameClients ==
  \A b \in Addrs : On(b) => /\ client'[b].pc # "off"
                            /\ client'[b].player = client[b].player
                            /\ client'[b].match = client[b].match

\* A step of a client that is on.
LEMMA ClientMoves ==
  ASSUME Launched, TypeOK, Mail, NEW a \in Addrs,
         HearAnswer(a) \/ GiveUp(a) \/ HearMessage(a) \/ HearDatagram(a) \/ Leave(a),
         Relayed
  PROVE  /\ client' \in [Addrs -> ClientRecord] /\ On(a)
         /\ client'[a].pc # "off"
         /\ client'[a].player = client[a].player /\ client'[a].match = client[a].match
         /\ \A b \in Addrs : b # a => client'[b] = client[b]
<1> DEFINE mine == client[a]
<1>1. mine \in ClientRecord /\ client \in [Addrs -> ClientRecord]
  BY DEF Launched
<1>2. ASSUME NEW pc \in ClientPc \ {"off"}, On(a), ClientStep(a, pc)
      PROVE  /\ client' \in [Addrs -> ClientRecord] /\ client'[a].pc = pc
             /\ client'[a].player = mine.player /\ client'[a].match = mine.match
             /\ \A b \in Addrs : b # a => client'[b] = client[b]
  <2>1. [mine EXCEPT !.pc = pc] \in ClientRecord
    BY <1>1 DEF ClientRecord
  <2>2. client' = [client EXCEPT ![a] = [mine EXCEPT !.pc = pc]]
    BY <1>1, <1>2 DEF ClientStep
  <2>3. [mine EXCEPT !.pc = pc].pc = pc /\ [mine EXCEPT !.pc = pc].player = mine.player
        /\ [mine EXCEPT !.pc = pc].match = mine.match
    BY <1>1 DEF ClientRecord
  <2> HIDE DEF mine
  <2> QED
    BY <1>1, <2>1, <2>2, <2>3
<1>3. CASE HearAnswer(a)
  <2>1. PICK pc \in {"joined", "mistaken", "refused"} : ClientStep(a, pc)
    BY <1>3 DEF HearAnswer
  <2>2. pc \in ClientPc \ {"off"} /\ On(a)
    BY <1>3 DEF HearAnswer, ClientPc, On
  <2> QED
    BY <1>2, <2>1, <2>2
<1>4. CASE GiveUp(a)
  <2>1. "gave_up" \in ClientPc \ {"off"} /\ On(a) /\ ClientStep(a, "gave_up")
    BY <1>4 DEF GiveUp, ClientPc, On
  <2> QED
    BY <1>2, <2>1
<1>5. CASE Leave(a)
  <2>1. "left" \in ClientPc \ {"off"} /\ On(a) /\ ClientStep(a, "left")
    BY <1>5 DEF Leave, ClientPc, On
  <2> QED
    BY <1>2, <2>1
<1>6. CASE HearMessage(a)
  <2>1. PICK msg \in Heard(a) :
          \/ /\ msg.type = "param_applied"
             /\ client' = [client EXCEPT ![a].observed = [params |-> msg.params,
                                                          next   |-> msg.next]]
          \/ client' = [client EXCEPT ![a].cooldownErrorSeen = TRUE]
    BY <1>6 DEF HearMessage
  <2>2. msg \in Reliable \cup Welcome
    BY DEF Heard, Mail
  <2>3. CASE msg.type = "param_applied" /\ client' = [client EXCEPT ![a].observed =
                                             [params |-> msg.params, next |-> msg.next]]
    <3>1. msg.params \in PlayerParams /\ msg.next \in 0 .. MaxTime + Cooldown
      BY <2>2, <2>3 DEF Reliable, Welcome
    <3> QED
      BY <1>1, <1>6, <2>3, <3>1 DEF HearMessage, ClientRecord, On
  <2>4. CASE client' = [client EXCEPT ![a].cooldownErrorSeen = TRUE]
    BY <1>1, <1>6, <2>4 DEF HearMessage, ClientRecord, On
  <2> QED
    BY <2>1, <2>3, <2>4
<1>7. CASE HearDatagram(a)
  <2>1. PICK r \in RelayTasks : /\ a \in relayTask[r].to
                                /\ client' = [client EXCEPT ![a].fromPlayers = @ \cup {relayTask[r].player}]
    BY <1>7 DEF HearDatagram
  <2>2. PICK b \in Addrs : SentBy(r, b)
    BY <2>1 DEF Relayed, Addressed
  <2>3. relayTask[r].player \in Players
    BY <2>2 DEF SentBy, Launched, TypeOK
  <2> QED
    BY <1>1, <1>7, <2>1, <2>3 DEF HearDatagram, ClientRecord, On
<1> QED
  BY <1>3, <1>4, <1>5, <1>6, <1>7
LEMMA ClientsSame ==
  ASSUME Launched, Relayed, TypeOK, Mail, [LinkNext]_linkVars
  PROVE  SameClients
<1>1. CASE UNCHANGED client
  BY <1>1 DEF SameClients, On
<1>2. ASSUME NEW a \in Addrs,
             HearAnswer(a) \/ GiveUp(a) \/ HearMessage(a) \/ HearDatagram(a) \/ Leave(a)
      PROVE  SameClients
  BY <1>2, ClientMoves DEF SameClients, On
<1>3. ASSUME NEW a \in Addrs, Launch(a) PROVE SameClients
  BY <1>3 DEF Launch, SameClients, On, Launched
<1> QED
  BY <1>1, <1>2, <1>3 DEF LinkNext, ServerAlone, JoinArrives, ChangeArrives, ReceiveDatagram,
     Relay, linkVars

\* Tickets are issued to new players.
LEMMA TicketsFresh ==
  ASSUME [Next]_vars
  PROVE  /\ drawnPlayers \subseteq drawnPlayers'
         /\ \A t \in tickets' \ tickets : t.player \notin drawnPlayers
<1> DEFINE Goal == /\ drawnPlayers \subseteq drawnPlayers'
                   /\ \A t \in tickets' \ tickets : t.player \notin drawnPlayers
<1> USE DEF drawnVars, roomVars
<1>1. ASSUME NEW m \in Matches, CreateRoom(m) \/ StartRoom(m) \/ DeleteRoom(m) PROVE Goal
  BY <1>1 DEF CreateRoom, StartRoom, DeleteRoom, DropRooms, TicketsWithout
<1>2. ASSUME NEW m \in Matches, NEW p \in Players, IssueJoinTicket(m, p) PROVE Goal
  BY <1>2 DEF IssueJoinTicket, NewTicket
<1>3. ASSUME NEW m \in Matches, NEW p \in Players, FinishRoom(m, p) \/ RemovePlayer(m, p)
      PROVE  Goal
  BY <1>3 DEF FinishRoom, RemovePlayer
<1>4. ASSUME NEW t \in tickets, ConsumeTicket(t) PROVE Goal
  BY <1>4 DEF ConsumeTicket
<1>5. ASSUME NEW c \in joining, RegisterPlayer(c) PROVE Goal
  BY <1>5 DEF RegisterPlayer
<1>6. ASSUME NEW m \in Matches, NEW p \in Players, NEW param \in Kinds,
             NEW direction \in ParamDirection, UpdatePlayerParams(m, p, param, direction)
      PROVE  Goal
  BY <1>6 DEF UpdatePlayerParams
<1>7. ASSUME SweepBegin \/ SweepApply \/ Tick \/ UNCHANGED vars PROVE Goal
  BY <1>7 DEF SweepBegin, SweepApply, DropRooms, TicketsWithout, Tick, vars
<1> HIDE DEF Goal
<1>8. Goal
  BY <1>1, <1>2, <1>3, <1>4, <1>5, <1>6, <1>7 DEF Next
<1> QED
  BY <1>8 DEF Goal

\* Each kind of step, by what it leaves alone.
LEMMA LinkCases ==
  ASSUME TypeOK, [LinkNext]_linkVars
  PROVE  \/ [UdpNext]_allVars /\ UNCHANGED <<client, relayTask>>
         \/ /\ \E a \in Addrs : Launch(a) \/ HearAnswer(a) \/ GiveUp(a) \/ HearMessage(a)
                                  \/ HearDatagram(a) \/ Leave(a)
            /\ UNCHANGED <<allVars, relayTask>>
         \/ /\ \/ \E r \in RelayTasks, a \in Addrs, type \in Unreliable :
                     ReceiveDatagram(r, a, type)
               \/ \E r \in RelayTasks : Relay(r)
            /\ UNCHANGED <<allVars, client>>
<1>1. [UdpNext]_allVars
  BY LinkStep
<1> QED
  BY <1>1 DEF LinkNext, ServerAlone, JoinArrives, ChangeArrives, Launch, HearAnswer, GiveUp,
     HearMessage, HearDatagram, Leave, ReceiveDatagram, Relay, linkVars

LEMMA LaunchedStep ==
  ASSUME Launched, Relayed, ServerSound, [LinkNext]_linkVars
  PROVE  Launched'
<1>0. TypeOK /\ Mail /\ SingleAdmission /\ ParamTasksTyped
  BY DEF ServerSound
<1>1. CASE [UdpNext]_allVars /\ UNCHANGED <<client, relayTask>>
  <2>1. [Next]_vars
    BY <1>0, <1>1, CoreStep
  <2>2. /\ drawnPlayers \subseteq drawnPlayers'
        /\ \A t \in tickets' \ tickets : t.player \notin drawnPlayers
    BY <2>1, TicketsFresh
  <2> QED
    BY <1>1, <2>2 DEF Launched, On
<1>2. CASE UNCHANGED <<allVars, client>>
  BY <1>2 DEF Launched, On, allVars, vars, drawnVars
<1>3. ASSUME NEW a \in Addrs, Launch(a) PROVE Launched'
  <2>1. PICK t \in tickets :
          /\ \A b \in Addrs : client[b].player # t.player
          /\ client' = [client EXCEPT ![a].pc = "joining", ![a].player = t.player,
                                      ![a].match = t.match]
    BY <1>3 DEF Launch
  <2>2. t.player \in Players /\ t.player \in drawnPlayers /\ t.match \in Matches
    BY <1>0 DEF TypeOK, Ticket
  <2>3. client[a] \in ClientRecord
    BY DEF Launched
  <2> DEFINE new == [client[a] EXCEPT !.pc = "joining", !.player = t.player, !.match = t.match]
  <2>4. new \in ClientRecord /\ new.player = t.player /\ new.match = t.match
    BY <2>2, <2>3 DEF ClientRecord, ClientPc
  <2>5. client' = [client EXCEPT ![a] = new]
    BY <2>1, <2>3 DEF Launched
  <2>6. UNCHANGED <<tickets, drawnPlayers>>
    BY <1>3 DEF Launch, allVars, vars, drawnVars
  <2> HIDE DEF new
  <2>7. client' \in [Addrs -> ClientRecord] /\ client'[a] = new
        /\ \A b \in Addrs : b # a => client'[b] = client[b]
    BY <2>4, <2>5 DEF Launched
  <2>8. \A u \in tickets : u.player = t.player => u = t
    BY <1>0 DEF SingleAdmission
  <2> QED
    BY <2>1, <2>2, <2>4, <2>6, <2>7, <2>8 DEF Launched, On
<1>4. ASSUME NEW a \in Addrs, UNCHANGED <<allVars, relayTask>>,
             HearAnswer(a) \/ GiveUp(a) \/ HearMessage(a) \/ HearDatagram(a) \/ Leave(a)
      PROVE  Launched'
  <2>1. /\ client' \in [Addrs -> ClientRecord] /\ On(a)
        /\ client'[a].pc # "off"
        /\ client'[a].player = client[a].player /\ client'[a].match = client[a].match
        /\ \A b \in Addrs : b # a => client'[b] = client[b]
    BY <1>0, <1>4, ClientMoves
  <2>2. UNCHANGED <<tickets, drawnPlayers>>
    BY <1>4 DEF allVars, vars, drawnVars
  <2> QED
    BY <2>1, <2>2 DEF Launched, On
<1> QED
  BY <1>0, <1>1, <1>2, <1>3, <1>4, LinkCases

-----------------------------------------------------------------------------
(* Steps of the server's join tasks *)

\* What a step of a join task does, in terms of the client at its address.
Effect(j) ==
  LET a == joinTask[j].addr  mine == joinTask'[j] IN
  /\ a \in Addrs /\ On(a)
  /\ \A k \in JoinTasks : k # j => joinTask'[k] = joinTask[k]
  /\ mine.pc # "idle" /\ mine.addr = a /\ mine.player = client[a].player
  /\ Active(j)' => mine.match = client[a].match
  /\ Active(j)' /\ ~Active(j) => /\ \E t \in tickets : t.player = client[a].player
                                 /\ \A t \in tickets' : t.player # client[a].player
  /\ tickets' \subseteq tickets
  /\ \A b \in Addrs : b # a => session'[b] = session[b] /\ sent'[b] = sent[b]
  /\ \/ session'[a] = session[a]
     \/ Active(j) /\ session'[a] = None
     \/ Active(j) /\ session'[a] = [match |-> client[a].match, player |-> client[a].player]
  /\ mine.pc \in {"inserted", "failed"} => session'[a] # None
  /\ \/ sent'[a] = sent[a]
     \/ \E msg \in Reliable \cup Welcome :
          /\ sent'[a] = Append(sent[a], msg)
          /\ msg.type = "join_ok" => /\ Active(j) /\ ~Active(j)' /\ session'[a] # None
                                     /\ msg.player = client[a].player

LEMMA JoinEffect ==
  ASSUME ServerSound, Launched, Served, NEW j \in JoinTasks, JoinProgress(j)
  PROVE  Effect(j)
<1> USE DEF roomVars, drawnVars
<1> DEFINE mine == joinTask[j]
           a == mine.addr
           p == client[a].player
           m == client[a].match
           new == joinTask'[j]
<1>0. mine.pc # "idle"
  BY DEF JoinProgress, ConsumeStep, RegisterStep, InsertSession, SessionOf, SendJoinOk, RemoveSession,
         RemoveStep, JoinAt
<1>1. /\ mine \in JoinTask /\ a \in Addrs /\ joinTask \in [JoinTasks -> JoinTask]
      /\ sent \in [Addrs -> Seq(Reliable \cup Welcome)]
      /\ session \in [Addrs -> Session \cup {None}]
  BY <1>0 DEF ServerSound, TasksTyped, WellFilled, Mail
<1>2. On(a) /\ mine.player = p /\ (Active(j) => mine.match = m) /\ Hosts(a)
      /\ (mine.pc \in {"inserted", "failed"} => session[a] # None)
  BY <1>0, <1>1 DEF Served, Serves
<1>3. ASSUME NEW pc, JoinStep(j, pc)
      PROVE  /\ \A k \in JoinTasks : k # j => joinTask'[k] = joinTask[k]
             /\ new.pc = pc /\ new.addr = a /\ new.player = p /\ new.match = mine.match
  BY <1>1, <1>2, <1>3 DEF JoinStep, JoinTask
<1>4. ASSUME NEW msg, Transmit(a, msg)
      PROVE  /\ sent'[a] = Append(sent[a], msg)
             /\ \A b \in Addrs : b # a => sent'[b] = sent[b]
  BY <1>1, <1>4 DEF Transmit
<1>5. CASE ConsumeStep(j)
  <2>1. mine.pc = "checked" /\ ~Active(j) /\ UNCHANGED session
    BY <1>5 DEF ConsumeStep, JoinAt, Active
  <2>2. CASE Refuse(j, "auth_failed") /\ tickets' \subseteq tickets
    <3>1. Error("auth_failed") \in Reliable \cup Welcome /\ Error("auth_failed").type # "join_ok"
      BY DEF Error, Reliable
    <3>2. JoinStep(j, "done") /\ (Transmit(a, Error("auth_failed")) \/ UNCHANGED sent)
      BY <2>2 DEF Refuse, Deliver
    <3>3. ~Active(j)' /\ new.pc = "done"
      BY <1>3, <3>2 DEF Active
    <3>4. CASE Transmit(a, Error("auth_failed"))
      BY <1>1, <1>2, <1>3, <1>4, <2>1, <2>2, <3>1, <3>2, <3>3, <3>4 DEF Effect
    <3>5. CASE UNCHANGED sent
      BY <1>1, <1>2, <1>3, <2>1, <2>2, <3>2, <3>3, <3>5 DEF Effect
    <3> QED
      BY <3>2, <3>4, <3>5
  <2>3. ASSUME NEW t \in tickets, t.player = mine.player, ConsumeTicket(t), UNCHANGED sent,
               joinTask' = [joinTask EXCEPT ![j].pc = "claimed", ![j].match = t.match]
        PROVE  Effect(j)
    <3>1. /\ \A k \in JoinTasks : k # j => joinTask'[k] = joinTask[k]
          /\ new.pc = "claimed" /\ new.addr = a /\ new.player = p /\ new.match = t.match
      BY <1>1, <1>2, <2>3 DEF JoinTask
    <3>2. t.match = m
      BY <1>1, <1>2, <2>3 DEF Launched
    <3>3. tickets' = tickets \ {t} /\ \A u \in tickets' : u.player # p
      BY <1>2, <2>3 DEF ConsumeTicket, ServerSound, SingleAdmission
    <3> QED
      BY <1>1, <1>2, <2>1, <2>3, <3>1, <3>2, <3>3 DEF Effect
  <2> QED
    BY <1>5, <2>2, <2>3 DEF ConsumeStep, ConsumeTicket, vars
<1>6. CASE RegisterStep(j)
  <2>1. mine.pc = "claimed" /\ Active(j) /\ UNCHANGED <<session, tickets>>
    BY <1>6 DEF RegisterStep, RegisterPlayer, JoinAt, Active
  <2>2. CASE Refuse(j, "join_failed")
    <3>1. Error("join_failed") \in Reliable \cup Welcome /\ Error("join_failed").type # "join_ok"
      BY DEF Error, Reliable
    <3>2. JoinStep(j, "done") /\ (Transmit(a, Error("join_failed")) \/ UNCHANGED sent)
      BY <2>2 DEF Refuse, Deliver
    <3>3. ~Active(j)' /\ new.pc = "done"
      BY <1>3, <3>2 DEF Active
    <3>4. CASE Transmit(a, Error("join_failed"))
      BY <1>1, <1>2, <1>3, <1>4, <2>1, <3>1, <3>2, <3>3, <3>4 DEF Effect
    <3>5. CASE UNCHANGED sent
      BY <1>1, <1>2, <1>3, <2>1, <3>2, <3>3, <3>5 DEF Effect
    <3> QED
      BY <3>2, <3>4, <3>5
  <2>3. CASE JoinStep(j, "registered") /\ UNCHANGED sent
    BY <1>1, <1>2, <1>3, <2>1, <2>3 DEF Effect
  <2> QED
    BY <1>6, <2>2, <2>3 DEF RegisterStep
<1>7. CASE InsertSession(j)
  <2>1. mine.pc = "registered" /\ Active(j) /\ JoinStep(j, "inserted") /\ UNCHANGED <<tickets, sent>>
    BY <1>7 DEF InsertSession, SessionOf, JoinAt, Active, vars
  <2>2. /\ session'[a] = [match |-> m, player |-> p]
        /\ \A b \in Addrs : b # a => session'[b] = session[b]
    BY <1>1, <1>2, <1>7, <2>1 DEF InsertSession, SessionOf
  <2>3. session'[a] # None
    <3>1. m \in Matches /\ p \in Players
      BY <1>0, <1>2, <2>1 DEF ServerSound, TasksTyped, WellFilled
    <3> QED
      BY <2>2, <3>1, NoneAssumption DEF Session
  <2> QED
    BY <1>1, <1>2, <1>3, <2>1, <2>2, <2>3 DEF Effect
<1>8. CASE SendJoinOk(j)
  <2>1. mine.pc = "inserted" /\ Active(j) /\ UNCHANGED <<session, tickets>> /\ session[a] # None
    BY <1>2, <1>8 DEF SendJoinOk, JoinAt, Active, vars
  <2>2. CASE Transmit(a, JoinOk(mine.match, mine.player)) /\ JoinStep(j, "done")
    <3> DEFINE msg == JoinOk(mine.match, mine.player)
    <3>1. mine.match \in Matches /\ mine.player \in Players
      BY <2>1 DEF ServerSound, TasksTyped, WellFilled
    <3>2. msg \in Reliable \cup Welcome /\ msg.player = p
      BY <1>2, <3>1 DEF JoinOk, Welcome
    <3>3. ~Active(j)' /\ new.pc = "done"
      BY <1>3, <2>2 DEF Active
    <3> QED
      BY <1>1, <1>2, <1>3, <1>4, <2>1, <2>2, <3>2, <3>3 DEF Effect
  <2>3. CASE JoinStep(j, "failed") /\ UNCHANGED sent
    BY <1>1, <1>2, <1>3, <2>1, <2>3 DEF Effect
  <2> QED
    BY <1>8, <2>2, <2>3 DEF SendJoinOk
<1>9. CASE RemoveSession(j)
  <2>1. /\ mine.pc = "failed" /\ Active(j) /\ UNCHANGED <<tickets, sent>>
        /\ session[a] # None /\ session[a].player = p /\ session[a].match = m
    BY <1>2, <1>9 DEF RemoveSession, JoinAt, Active, vars, Hosts
  <2>2. /\ session'[a] = None
        /\ \A b \in Addrs : b # a => session'[b] = session[b]
    BY <1>1, <1>9 DEF RemoveSession
  <2>3. /\ \A k \in JoinTasks : k # j => joinTask'[k] = joinTask[k]
        /\ new.pc = "removing" /\ new.addr = a /\ new.player = p /\ new.match = m
    BY <1>1, <1>9, <2>1 DEF RemoveSession, JoinTask
  <2> QED
    BY <1>1, <1>2, <2>1, <2>2, <2>3 DEF Effect
<1>10. CASE RemoveStep(j)
  <2>1. mine.pc = "removing" /\ Active(j) /\ UNCHANGED <<session, sent>> /\ JoinStep(j, "done")
    BY <1>10 DEF RemoveStep, JoinAt, Active
  <2>2. tickets' = tickets
    BY <1>10 DEF RemoveStep, RemovePlayer, vars
  <2>3. ~Active(j)' /\ new.pc = "done"
    BY <1>3, <2>1 DEF Active
  <2> QED
    BY <1>1, <1>2, <1>3, <2>1, <2>2, <2>3 DEF Effect
<1> QED
  BY <1>5, <1>6, <1>7, <1>8, <1>9, <1>10 DEF JoinProgress
\* A join task goes on: what holds of its client holds still.
LEMMA ServedJoin ==
  ASSUME ServerSound, Launched, Served, NEW j \in JoinTasks, Effect(j), UNCHANGED client
  PROVE  Served'
<1> DEFINE a == joinTask[j].addr
           p == client[a].player
<1>1. /\ a \in Addrs /\ On(a)
      /\ \A k \in JoinTasks : k # j => joinTask'[k] = joinTask[k]
      /\ joinTask'[j].pc # "idle" /\ joinTask'[j].addr = a /\ joinTask'[j].player = p
      /\ Active(j)' => joinTask'[j].match = client[a].match
      /\ tickets' \subseteq tickets
      /\ \A b \in Addrs : b # a => session'[b] = session[b] /\ sent'[b] = sent[b]
      /\ joinTask'[j].pc \in {"inserted", "failed"} => session'[a] # None
  BY DEF Effect
<1>2. /\ Active(j)' /\ ~Active(j) => /\ \E t \in tickets : t.player = p
                                     /\ \A t \in tickets' : t.player # p
      /\ session'[a] = session[a] \/ Active(j)
      /\ session'[a] # None => session'[a].match = client[a].match /\ session'[a].player = p
  <2>1. Active(j)' /\ ~Active(j) => /\ \E t \in tickets : t.player = p
                                   /\ \A t \in tickets' : t.player # p
    BY DEF Effect
  <2>2. /\ session'[a] = session[a] \/ Active(j)
        /\ \/ session'[a] = session[a]
           \/ session'[a] = None
           \/ session'[a] = [match |-> client[a].match, player |-> p]
    BY DEF Effect
  <2>3. session[a] # None => session[a].match = client[a].match /\ session[a].player = p
    BY <1>1 DEF Served, Hosts
  <2> QED
    BY <2>1, <2>2, <2>3
<1>3. Active(j) => joinTask[j].player = p
  BY DEF Served, Serves, Active
<1>4. \A k \in JoinTasks : Active(k) => /\ joinTask[k].addr \in Addrs
                                        /\ joinTask[k].player = client[joinTask[k].addr].player
  BY DEF Served, Serves, Active, ServerSound, TasksTyped, WellFilled
<1>5. \A k \in JoinTasks : k # j => Active(k)' = Active(k)
  BY <1>1 DEF Active
<1>6. ASSUME NEW k \in JoinTasks, k # j, Active(k), Active(j) \/ Active(j)'
      PROVE  joinTask[k].addr # a /\ joinTask[k].player # p
  <2>1. joinTask[k].player # p
    <3>1. CASE Active(j)
      BY <1>3, <1>6, <3>1 DEF Served, OneAttempt
    <3>2. CASE ~Active(j)
      BY <1>2, <1>6, <3>2 DEF Served, OneAttempt
    <3> QED
      BY <3>1, <3>2
  <2> QED
    BY <1>4, <1>6, <2>1
<1>7. ASSUME NEW k \in JoinTasks PROVE Serves(k)'
  <2>1. CASE k = j
    BY <1>1, <2>1 DEF Serves, On
  <2>2. CASE k # j
    <3>1. Serves(k) /\ joinTask'[k] = joinTask[k]
      BY <1>1, <2>2 DEF Served
    <3>2. joinTask[k].pc \in {"inserted", "failed"} => session'[joinTask[k].addr] # None
      <4>1. CASE joinTask[k].addr = a /\ Active(j)
        BY <1>6, <2>2, <4>1 DEF Active
      <4>2. CASE joinTask[k].addr = a /\ ~Active(j)
        BY <1>2, <3>1, <4>2 DEF Serves
      <4>3. CASE joinTask[k].addr # a
        BY <1>1, <1>4, <3>1, <4>3 DEF Serves, Active
      <4> QED
        BY <4>1, <4>2, <4>3
    <3> QED
      BY <1>5, <2>2, <3>1, <3>2 DEF Serves, On
  <2> QED
    BY <2>1, <2>2
<1>8. OneAttempt'
  <2>1. ASSUME NEW k \in JoinTasks, Active(k)', NEW t \in tickets'
        PROVE  t.player # joinTask'[k].player
    <3>1. CASE k = j
      BY <1>1, <1>2, <1>3, <2>1, <3>1 DEF Served, OneAttempt
    <3>2. CASE k # j
      BY <1>1, <1>5, <2>1, <3>2 DEF Served, OneAttempt
    <3> QED
      BY <3>1, <3>2
  <2>2. ASSUME NEW k \in JoinTasks, NEW l \in JoinTasks, Active(k)', Active(l)', k # l
        PROVE  joinTask'[k].player # joinTask'[l].player
    <3>1. CASE k = j
      BY <1>1, <1>5, <1>6, <2>2, <3>1
    <3>2. CASE l = j
      BY <1>1, <1>5, <1>6, <2>2, <3>2
    <3>3. CASE k # j /\ l # j
      BY <1>1, <1>5, <2>2, <3>3 DEF Served, OneAttempt
    <3> QED
      BY <3>1, <3>2, <3>3
  <2> QED
    BY <2>1, <2>2 DEF OneAttempt
<1>9. ASSUME NEW b \in Addrs PROVE Hosts(b)'
  <2>1. CASE b = a
    BY <1>1, <1>2, <2>1 DEF Hosts, On
  <2>2. CASE b # a
    BY <1>1, <2>2 DEF Served, Hosts, On
  <2> QED
    BY <2>1, <2>2
<1>10. ASSUME NEW b \in Addrs PROVE Welcomed(b)'
  <2>1. CASE b # a
    BY <1>1, <1>5, <2>1 DEF Served, Welcomed, On
  <2>2. ASSUME b = a, NEW i \in DOMAIN sent[a], sent[a][i].type = "join_ok"
        PROVE  /\ sent[a][i].player = p
               /\ session'[a] # None
               /\ \A k \in JoinTasks : Active(k)' => joinTask'[k].addr # a
    <3>1. /\ sent[a][i].player = p /\ session[a] # None
          /\ \A k \in JoinTasks : Active(k) => joinTask[k].addr # a
      BY <1>1, <2>2 DEF Served, Welcomed
    <3>2. ~Active(j) /\ session'[a] = session[a]
      BY <1>2, <3>1
    <3>3. ~Active(j)'
      <4>1. session[a].player = p
        BY <1>1, <3>1 DEF Served, Hosts
      <4>2. \A t \in tickets : t.player # p
        BY <1>1, <3>1, <4>1 DEF ServerSound, Keepers, Backed
      <4> QED
        BY <1>2, <3>2, <4>2
    <3> QED
      BY <1>1, <1>5, <3>1, <3>2, <3>3
  <2>3. CASE b = a /\ sent'[a] = sent[a]
    BY <1>1, <2>2, <2>3 DEF Welcomed, On
  <2>4. ASSUME b = a, NEW msg \in Reliable \cup Welcome, sent'[a] = Append(sent[a], msg),
               msg.type = "join_ok" => /\ Active(j) /\ ~Active(j)' /\ session'[a] # None
                                       /\ msg.player = p
        PROVE  Welcomed(b)'
    <3>1. ASSUME NEW i \in DOMAIN sent'[a], sent'[a][i].type = "join_ok"
          PROVE  /\ sent'[a][i].player = p
                 /\ session'[a] # None
                 /\ \A k \in JoinTasks : Active(k)' => joinTask'[k].addr # a
      <4>1. sent[a] \in Seq(Reliable \cup Welcome)
        BY <1>1 DEF ServerSound, Mail
      <4>2. (i \in DOMAIN sent[a] /\ sent'[a][i] = sent[a][i]) \/ sent'[a][i] = msg
        <5> HIDE DEF Reliable, Welcome
        <5> QED
          BY <2>4, <3>1, <4>1
      <4>3. CASE i \in DOMAIN sent[a] /\ sent'[a][i] = sent[a][i]
        BY <2>2, <2>4, <3>1, <4>3
      <4>4. CASE sent'[a][i] = msg
        BY <1>1, <1>5, <1>6, <2>4, <3>1, <4>4
      <4> QED
        BY <4>2, <4>3, <4>4
    <3> QED
      BY <1>1, <2>4, <3>1 DEF Welcomed, On
  <2>5. \/ sent'[a] = sent[a]
        \/ \E msg \in Reliable \cup Welcome :
             /\ sent'[a] = Append(sent[a], msg)
             /\ msg.type = "join_ok" => /\ Active(j) /\ ~Active(j)' /\ session'[a] # None
                                        /\ msg.player = p
    BY DEF Effect
  <2> QED
    BY <2>1, <2>3, <2>4, <2>5
<1> QED
  BY <1>7, <1>8, <1>9, <1>10 DEF Served

\* Everything else leaves tasks and sessions alone, issues tickets to new players
\* only and sends no join_ok.
LEMMA ServedQuiet ==
  ASSUME TypeOK, TasksTyped, Launched, Served, SameClients, UNCHANGED <<session, joinTask>>,
         \A t \in tickets' \ tickets : t.player \notin drawnPlayers,
         \A a \in Addrs : \A i \in DOMAIN sent'[a] : sent'[a][i].type = "join_ok" =>
           \E k \in DOMAIN sent[a] : sent[a][k] = sent'[a][i]
  PROVE  Served'
<1>1. \A j \in JoinTasks : Active(j)' = Active(j)
  BY DEF Active
<1>2. \A j \in JoinTasks : joinTask[j].pc # "idle" => joinTask[j].addr \in Addrs
  BY DEF TasksTyped, WellFilled
<1>3. \A j \in JoinTasks : Active(j) => joinTask[j].player \in drawnPlayers
  BY <1>2 DEF Active, Served, Serves, Launched
<1>4. ASSUME NEW j \in JoinTasks PROVE Serves(j)'
  BY <1>1, <1>2 DEF Served, Serves, SameClients, On
<1>5. OneAttempt'
  BY <1>1, <1>3 DEF Served, OneAttempt
<1>6. ASSUME NEW a \in Addrs PROVE Hosts(a)'
  BY DEF Served, Hosts, SameClients, On
<1>7. ASSUME NEW a \in Addrs PROVE Welcomed(a)'
  BY <1>1 DEF Served, Welcomed, SameClients, On
<1> QED
  BY <1>4, <1>5, <1>6, <1>7 DEF Served

LEMMA ServedStep ==
  ASSUME ServerSound, Launched, Relayed, Served, [LinkNext]_linkVars
  PROVE  Served'
<1>0. TypeOK /\ Mail /\ TasksTyped /\ ParamTasksTyped
  BY DEF ServerSound
<1>1. SameClients
  BY <1>0, ClientsSame
<1>2. [UdpNext]_allVars
  BY <1>0, LinkStep
<1>3. /\ \A t \in tickets' \ tickets : t.player \notin drawnPlayers
  BY <1>0, <1>2, CoreStep, TicketsFresh
<1>4. ASSUME UNCHANGED <<session, joinTask, sent>> PROVE Served'
  BY <1>0, <1>1, <1>3, <1>4, ServedQuiet
<1>5. ASSUME NEW j \in JoinTasks, JoinProgress(j), UNCHANGED client PROVE Served'
  BY <1>5, JoinEffect, ServedJoin
<1>6. ASSUME NEW a \in Addrs, Pump(a) PROVE Served'
  <2> DEFINE x == Head(channel[session[a].player])
             M == Reliable \cup Welcome
  <2>1. x \in Reliable
    BY <1>0, <1>6, PumpTakes
  <2>2. Deliver(a, x) /\ UNCHANGED <<session, joinTask>>
    BY <1>6 DEF Pump
  <2>3. x.type # "join_ok"
    BY <2>1 DEF Reliable
  <2> HIDE DEF x
  <2>4. ASSUME NEW b \in Addrs, NEW i \in DOMAIN sent'[b], sent'[b][i].type = "join_ok"
        PROVE  \E k \in DOMAIN sent[b] : sent[b][k] = sent'[b][i]
    <3>1. CASE sent'[b] = sent[b]
      BY <2>4, <3>1
    <3>2. CASE sent'[b] = Append(sent[b], x)
      <4> DEFINE s == sent[b]
      <4>1. s \in Seq(M) /\ sent'[b] = Append(s, x) /\ x \in M
        BY <1>0, <2>1, <3>2 DEF Mail
      <4> HIDE DEF s, M
      <4>2. (i \in DOMAIN s /\ sent'[b][i] = s[i]) \/ sent'[b][i] = x
        BY <2>4, <4>1
      <4> QED
        BY <2>3, <2>4, <4>2 DEF s
    <3>3. sent'[b] = sent[b] \/ sent'[b] = Append(sent[b], x)
      BY <1>0, <2>2 DEF Deliver, Transmit, Mail
    <3> QED
      BY <3>1, <3>2, <3>3
  <2> QED
    BY <1>0, <1>1, <1>3, <2>2, <2>4, ServedQuiet
<1>7. ASSUME NEW j \in JoinTasks, NEW a \in Addrs, JoinArrives(j, a) PROVE Served'
  <2>1. /\ On(a) /\ joinTask[j].pc = "idle" /\ UNCHANGED <<client, session, sent, tickets>>
        /\ joinTask' = [joinTask EXCEPT ![j] =
              [pc |-> "checked", addr |-> a, player |-> client[a].player, match |-> None]]
    BY <1>7 DEF JoinArrives, ReceiveJoin, JoinAt, On, vars
  <2>2. /\ joinTask'[j].pc = "checked" /\ joinTask'[j].addr = a
        /\ joinTask'[j].player = client[a].player
        /\ \A k \in JoinTasks : k # j => joinTask'[k] = joinTask[k]
    BY <1>0, <2>1 DEF TasksTyped
  <2>3. /\ ~Active(j) /\ ~Active(j)'
        /\ \A k \in JoinTasks : Active(k)' = Active(k)
    BY <2>1, <2>2 DEF Active
  <2>4. ASSUME NEW k \in JoinTasks PROVE Serves(k)'
    <3>1. CASE k = j
      BY <2>1, <2>2, <2>3, <3>1 DEF Serves, On
    <3>2. CASE k # j
      BY <2>1, <2>2, <2>3, <3>2 DEF Served, Serves, On
    <3> QED
      BY <3>1, <3>2
  <2>5. OneAttempt'
    BY <2>1, <2>2, <2>3 DEF Served, OneAttempt
  <2>6. ASSUME NEW b \in Addrs PROVE Hosts(b)' /\ Welcomed(b)'
    BY <2>1, <2>2, <2>3 DEF Served, Hosts, Welcomed, On
  <2> QED
    BY <2>4, <2>5, <2>6 DEF Served
<1>8. ASSUME ~\E j \in JoinTasks : JoinProgress(j) /\ UNCHANGED client,
             ~\E a \in Addrs : Pump(a),
             ~\E j \in JoinTasks, a \in Addrs : JoinArrives(j, a)
      PROVE  UNCHANGED <<session, joinTask, sent>>
  BY <1>8 DEF LinkNext, ServerAlone, ServerStep, OtherCore, StartStep, UpdateStep, ReplyError, CastProgress,
     ReadTargets, CastOn, AbandonCast, ChangeArrives, ReceiveParamChange, Launch, HearAnswer,
     GiveUp, HearMessage, HearDatagram, Leave, ReceiveDatagram, Relay, linkVars, allVars,
     udpVars, taskVars
<1> QED
  BY <1>4, <1>5, <1>6, <1>7, <1>8
-----------------------------------------------------------------------------
(* Addresses of the players in rooms *)

LEMMA ConnectedStep ==
  ASSUME ServerSound, Launched, Relayed, Served, Connected, [LinkNext]_linkVars
  PROVE  Connected'
<1> USE DEF roomVars, drawnVars
<1>0. TypeOK /\ Mail /\ TasksTyped /\ ParamTasksTyped
  BY DEF ServerSound
<1>1. SameClients
  BY <1>0, ClientsSame
<1>2. ASSUME UNCHANGED connection, \A m \in Matches : players'[m] \subseteq players[m]
      PROVE  Connected'
  BY <1>1, <1>2 DEF Connected, SameClients, On
<1>3. ASSUME NEW j \in JoinTasks, RegisterStep(j), UNCHANGED client PROVE Connected'
  <2> DEFINE a == joinTask[j].addr
             p == joinTask[j].player
             m == joinTask[j].match
  <2>1. /\ a \in Addrs /\ On(a) /\ p = client[a].player /\ m = client[a].match
        /\ p \in Players /\ m \in Matches
    BY <1>0, <1>3 DEF RegisterStep, JoinAt, TasksTyped, WellFilled, Served, Serves, Active
  <2>2. CASE UNCHANGED <<players, connection>>
    BY <1>2, <2>2
  <2>3. CASE /\ players' = [players EXCEPT ![m] = @ \cup {p}]
             /\ connection' = [connection EXCEPT ![p] = a]
    <3>1. ASSUME NEW n \in Matches, NEW q \in players'[n]
          PROVE  /\ connection'[q] \in Addrs /\ On(connection'[q])
                 /\ client[connection'[q]].player = q /\ client[connection'[q]].match = n
      <4>1. CASE n = m /\ q = p
        BY <1>0, <2>1, <2>3, <4>1 DEF Mail
      <4>2. CASE ~(n = m /\ q = p)
        <5>1. q \in players[n] /\ q \in Players
          BY <1>0, <2>3, <3>1, <4>2 DEF TypeOK
        <5>2. q # p
          <6>1. [player |-> p, match |-> m] \in joining
            BY <1>3 DEF RegisterStep, RegisterPlayer
          <6>2. p \notin players[n]
            BY <6>1 DEF ServerSound, SingleAdmission
          <6> QED
            BY <5>1, <6>2
        <5>3. connection'[q] = connection[q]
          BY <1>0, <2>3, <5>1, <5>2 DEF Mail
        <5> QED
          BY <5>1, <5>3 DEF Connected
      <4> QED
        BY <4>1, <4>2
    <3> QED
      BY <1>3, <3>1 DEF Connected, On
  <2>4. \/ UNCHANGED <<players, connection>>
        \/ /\ players' = [players EXCEPT ![m] = @ \cup {p}]
           /\ connection' = [connection EXCEPT ![p] = a]
    BY <1>3 DEF RegisterStep, RegisterPlayer
  <2> QED
    BY <2>2, <2>3, <2>4
<1>4. ASSUME UNCHANGED <<players, connection>> PROVE Connected'
  BY <1>2, <1>4
<1>5. CASE OtherCore
  <2>1. UNCHANGED connection
    BY <1>5 DEF OtherCore, udpVars
  <2>2. ASSUME NEW S, DropRooms(S) PROVE \A m \in Matches : players'[m] \subseteq players[m]
    BY <2>2 DEF DropRooms, TicketsWithout
  <2>3. \A m \in Matches : players'[m] \subseteq players[m]
    BY <1>5, <2>2 DEF OtherCore, CreateRoom, DeleteRoom, IssueJoinTicket, FinishRoom, SweepBegin,
       SweepApply, Tick
  <2> QED
    BY <1>2, <2>1, <2>3
<1>6. ASSUME NEW j \in JoinTasks, RemoveStep(j) PROVE Connected'
  <2>1. UNCHANGED connection
    BY <1>6 DEF RemoveStep
  <2>2. \A m \in Matches : players'[m] \subseteq players[m]
    <3> DEFINE p == joinTask[j].player
               n == joinTask[j].match
    <3>1. players' = [players EXCEPT ![n] = @ \ {p}] \/ players' = players
      BY <1>6 DEF RemoveStep, RemovePlayer, vars
    <3>2. players \in [Matches -> SUBSET drawnPlayers]
      BY <1>0 DEF TypeOK
    <3> QED
      BY <3>1, <3>2
  <2> QED
    BY <1>2, <2>1, <2>2
<1>7. ASSUME ~OtherCore,
             ~\E j \in JoinTasks : RegisterStep(j) /\ UNCHANGED client,
             ~\E j \in JoinTasks : RemoveStep(j)
      PROVE  UNCHANGED <<players, connection>>
  BY <1>7 DEF LinkNext, ServerAlone, ServerStep, StartStep, StartRoom, Startable, UpdateStep, ReplyError,
     UpdatePlayerParams, CastProgress, JoinProgress, ConsumeStep, ConsumeTicket, InsertSession, SessionOf,
     SendJoinOk, RemoveSession, ReadTargets, CastOn, AbandonCast, Pump, JoinArrives, ReceiveJoin,
     ChangeArrives, ReceiveParamChange, Launch, HearAnswer, GiveUp, HearMessage, HearDatagram,
     Leave, ReceiveDatagram, Relay, linkVars, allVars, udpVars, taskVars, vars
<1> QED
  BY <1>3, <1>4, <1>5, <1>6, <1>7

-----------------------------------------------------------------------------
(* What clients believe *)

\* What was put on the socket stays put.
LEMMA SentGrows ==
  ASSUME ServerSound, Launched, Served, [LinkNext]_linkVars, NEW a \in Addrs, NEW i \in DOMAIN sent[a]
  PROVE  i \in DOMAIN sent'[a] /\ sent'[a][i] = sent[a][i]
<1> DEFINE M == Reliable \cup Welcome
<1>0. sent \in [Addrs -> Seq(M)] /\ TasksTyped /\ ChannelsTyped
  BY DEF ServerSound, Mail
<1>1. CASE sent'[a] = sent[a]
  BY <1>1
<1>2. ASSUME NEW msg \in M, sent'[a] = Append(sent[a], msg)
      PROVE  i \in DOMAIN sent'[a] /\ sent'[a][i] = sent[a][i]
  <2> HIDE DEF M
  <2> QED
    BY <1>0, <1>2
<1>3. ASSUME NEW j \in JoinTasks, JoinProgress(j)
      PROVE  i \in DOMAIN sent'[a] /\ sent'[a][i] = sent[a][i]
  <2>1. Effect(j)
    BY <1>3, JoinEffect
  <2> QED
    BY <1>1, <1>2, <2>1 DEF Effect
<1>4. ASSUME NEW b \in Addrs, Pump(b)
      PROVE  i \in DOMAIN sent'[a] /\ sent'[a][i] = sent[a][i]
  <2>1. Head(channel[session[b].player]) \in Reliable
    BY <1>4, PumpTakes DEF ServerSound
  <2>2. Deliver(b, Head(channel[session[b].player]))
    BY <1>4 DEF Pump
  <2> QED
    BY <1>0, <2>1, <2>2, DeliverAdds
<1>5. ASSUME ~\E j \in JoinTasks : JoinProgress(j), ~\E b \in Addrs : Pump(b)
      PROVE  UNCHANGED sent
  BY <1>5 DEF LinkNext, ServerAlone, ServerStep, OtherCore, StartStep, UpdateStep, ReplyError, CastProgress,
     ReadTargets, CastOn, AbandonCast, JoinArrives, ReceiveJoin, ChangeArrives,
     ReceiveParamChange, Launch, HearAnswer, GiveUp, HearMessage, HearDatagram, Leave,
     ReceiveDatagram, Relay, linkVars, allVars, udpVars, taskVars
<1> QED
  BY <1>1, <1>3, <1>4, <1>5

LEMMA BelievesStep ==
  ASSUME ServerSound, Launched, Relayed, Served, Believes, [LinkNext]_linkVars
  PROVE  Believes'
<1>0. TypeOK /\ Mail
  BY DEF ServerSound
<1>1. ASSUME NEW b \in Addrs, client'[b] = client[b]
      PROVE  /\ client'[b].pc # "mistaken"
             /\ client'[b].pc \in {"joined", "left"} =>
                  \E i \in DOMAIN sent'[b] : sent'[b][i].type = "join_ok"
  BY <1>1, SentGrows DEF Believes
<1>2. ASSUME NEW a \in Addrs, HearAnswer(a) PROVE Believes'
  <2>1. /\ \A b \in Addrs : b # a => client'[b] = client[b]
        /\ UNCHANGED sent
    BY <1>0, <1>2, ClientMoves DEF HearAnswer, allVars, udpVars
  <2>2. \/ ClientStep(a, "refused")
        \/ \E i \in DOMAIN sent[a] : sent[a][i].type = "join_ok" /\ ClientStep(a, "joined")
    BY <1>2 DEF HearAnswer, Heard, Served, Welcomed
  <2>3. \A pc : ClientStep(a, pc) => client'[a].pc = pc
    BY DEF ClientStep, Launched, ClientRecord
  <2> QED
    BY <1>1, <2>1, <2>2, <2>3 DEF Believes
<1>3. ASSUME NEW a \in Addrs, GiveUp(a) \/ HearMessage(a) \/ HearDatagram(a) \/ Leave(a) \/ Launch(a)
      PROVE  Believes'
  <2>0. client[a] \in ClientRecord /\ client \in [Addrs -> ClientRecord]
    BY DEF Launched
  <2>1. \/ client'[a].pc \in {"joining", "gave_up"}
        \/ client[a].pc = "joined" /\ client'[a].pc \in {"joined", "left"}
    <3>1. CASE GiveUp(a)
      BY <2>0, <3>1 DEF GiveUp, ClientStep, ClientRecord
    <3>2. CASE HearMessage(a)
      <4>1. client[a].pc = "joined"
        BY <3>2 DEF HearMessage
      <4>2. client'[a].pc = client[a].pc
        BY <2>0, <3>2 DEF HearMessage, ClientRecord
      <4> QED
        BY <4>1, <4>2
    <3>3. CASE HearDatagram(a)
      <4>1. client[a].pc = "joined"
        BY <3>3 DEF HearDatagram
      <4>2. client'[a].pc = client[a].pc
        BY <2>0, <3>3 DEF HearDatagram, ClientRecord
      <4> QED
        BY <4>1, <4>2
    <3>4. CASE Leave(a)
      BY <2>0, <3>4 DEF Leave, ClientStep, ClientRecord
    <3>5. CASE Launch(a)
      BY <2>0, <3>5 DEF Launch, ClientRecord
    <3> QED
      BY <1>3, <3>1, <3>2, <3>3, <3>4, <3>5
  <2>2. /\ \A b \in Addrs : b # a => client'[b] = client[b]
        /\ UNCHANGED sent
    BY <1>3 DEF GiveUp, HearMessage, HearDatagram, Leave, Launch, ClientStep, Launched, allVars,
       udpVars
  <2> QED
    BY <1>1, <2>1, <2>2 DEF Believes
<1>4. CASE UNCHANGED client
  BY <1>1, <1>4 DEF Believes
<1> QED
  BY <1>2, <1>3, <1>4 DEF LinkNext, ServerAlone, JoinArrives, ChangeArrives, ReceiveDatagram,
     Relay, linkVars

-----------------------------------------------------------------------------
(* The relay *)

LEMMA RelayedStep ==
  ASSUME ServerSound, Launched, Relayed, Served, Connected, [LinkNext]_linkVars
  PROVE  Relayed'
<1>0. TypeOK /\ Mail /\ TasksTyped
  BY DEF ServerSound
<1>1. SameClients
  BY <1>0, ClientsSame
<1>2. ASSUME UNCHANGED relayTask, \A a \in Addrs : client'[a].fromPlayers = client[a].fromPlayers
      PROVE  Relayed'
  <2>1. \A r \in RelayTasks : \A b \in Addrs : SentBy(r, b) => SentBy(r, b)'
    BY <1>1, <1>2 DEF SameClients, SentBy, On
  <2>2. ASSUME NEW r \in RelayTasks PROVE Addressed(r)'
    <3>1. relayTask[r].to \subseteq Addrs /\ Addressed(r)
      BY DEF Relayed, RelayRecord
    <3> QED
      BY <1>1, <1>2, <2>1, <3>1 DEF Addressed, SameClients, On
  <2>3. ASSUME NEW a \in Addrs PROVE SawOthers(a)'
    BY <1>1, <1>2 DEF Relayed, SawOthers, SameClients, On
  <2> QED
    BY <1>2, <2>2, <2>3 DEF Relayed
<1>3. CASE UNCHANGED <<client, relayTask>>
  BY <1>2, <1>3
<1>4. ASSUME NEW a \in Addrs, HearAnswer(a) \/ GiveUp(a) \/ HearMessage(a) \/ Leave(a) \/ Launch(a)
      PROVE  Relayed'
  <2>0. client[a] \in ClientRecord /\ client \in [Addrs -> ClientRecord]
    BY DEF Launched
  <2>1. \A b \in Addrs : client'[b].fromPlayers = client[b].fromPlayers
    <3>1. CASE HearAnswer(a)
      BY <2>0, <3>1 DEF HearAnswer, ClientStep, ClientRecord
    <3>2. CASE GiveUp(a)
      BY <2>0, <3>2 DEF GiveUp, ClientStep, ClientRecord
    <3>3. CASE HearMessage(a)
      BY <2>0, <3>3 DEF HearMessage, ClientRecord
    <3>4. CASE Leave(a)
      BY <2>0, <3>4 DEF Leave, ClientStep, ClientRecord
    <3>5. CASE Launch(a)
      BY <2>0, <3>5 DEF Launch, ClientRecord
    <3> QED
      BY <1>4, <3>1, <3>2, <3>3, <3>4, <3>5
  <2>2. UNCHANGED relayTask
    BY <1>4 DEF HearAnswer, GiveUp, HearMessage, Leave, Launch
  <2> QED
    BY <1>2, <2>1, <2>2
<1>5. ASSUME NEW a \in Addrs, HearDatagram(a) PROVE Relayed'
  <2>1. PICK r \in RelayTasks :
          /\ a \in relayTask[r].to /\ relayTask[r].type = "pos"
          /\ client' = [client EXCEPT ![a].fromPlayers = @ \cup {relayTask[r].player}]
    BY <1>5 DEF HearDatagram
  <2>2. PICK b \in Addrs : SentBy(r, b)
    BY <2>1 DEF Relayed, Addressed
  <2>3. /\ On(a) /\ client[a].match = relayTask[r].match
        /\ client[a].player # relayTask[r].player
    BY <2>1 DEF Relayed, Addressed
  <2>4. b # a
    BY <2>2, <2>3 DEF SentBy
  <2>5. /\ client'[a].fromPlayers = client[a].fromPlayers \cup {relayTask[r].player}
        /\ \A c \in Addrs : c # a => client'[c] = client[c]
    BY <2>1 DEF Launched, ClientRecord
  <2>6. UNCHANGED relayTask
    BY <1>5 DEF HearDatagram
  <2>7. ASSUME NEW c \in Addrs, NEW p \in client'[c].fromPlayers
        PROVE  /\ On(c)
               /\ \E d \in Addrs \ {c} :
                    On(d) /\ client[d].player = p /\ client[d].match = client[c].match
    <3>1. CASE p \in client[c].fromPlayers
      BY <3>1 DEF Relayed, SawOthers
    <3>2. CASE c = a /\ p = relayTask[r].player
      BY <2>2, <2>3, <2>4, <3>2 DEF SentBy
    <3> QED
      BY <2>5, <2>7, <3>1, <3>2
  <2>8. ASSUME NEW c \in Addrs PROVE SawOthers(c)'
    BY <1>1, <2>7 DEF SawOthers, SameClients, On
  <2>9. \A s \in RelayTasks : \A d \in Addrs : SentBy(s, d) => SentBy(s, d)'
    BY <1>1, <2>6 DEF SameClients, SentBy, On
  <2>10. ASSUME NEW s \in RelayTasks PROVE Addressed(s)'
    <3>1. relayTask[s].to \subseteq Addrs /\ Addressed(s)
      BY DEF Relayed, RelayRecord
    <3> QED
      BY <1>1, <2>6, <2>9, <3>1 DEF Addressed, SameClients, On
  <2> QED
    BY <2>6, <2>8, <2>10 DEF Relayed
<1>6. ASSUME NEW r \in RelayTasks, NEW a \in Addrs, NEW type \in Unreliable,
             ReceiveDatagram(r, a, type)
      PROVE  Relayed'
  <2> DEFINE new == [pc |-> "received", type |-> type, player |-> session[a].player,
                     match |-> session[a].match, to |-> {}]
  <2>1. /\ session[a] # None /\ relayTask' = [relayTask EXCEPT ![r] = new] /\ UNCHANGED client
    BY <1>6 DEF ReceiveDatagram
  <2>2. On(a) /\ session[a].player = client[a].player /\ session[a].match = client[a].match
    BY <2>1 DEF Served, Hosts
  <2>3. new \in RelayRecord
    BY <1>0, <2>1 DEF RelayRecord, TasksTyped, Session
  <2>4. /\ relayTask' \in [RelayTasks -> RelayRecord] /\ relayTask'[r] = new
        /\ \A s \in RelayTasks : s # r => relayTask'[s] = relayTask[s]
    BY <2>1, <2>3 DEF Relayed
  <2>5. SentBy(r, a)'
    BY <2>1, <2>2, <2>4 DEF SentBy, On
  <2>6. relayTask'[r].to = {}
    BY <2>4
  <2>7. \A s \in RelayTasks : s # r => \A b \in Addrs : SentBy(s, b)' = SentBy(s, b)
    BY <2>1, <2>4 DEF SentBy, On
  <2> HIDE DEF new
  <2> QED
    BY <2>1, <2>4, <2>5, <2>6, <2>7 DEF Relayed, Addressed, SawOthers, On
<1>7. ASSUME NEW r \in RelayTasks, Relay(r) PROVE Relayed'
  <2> DEFINE task == relayTask[r]
             R == Receivers(task.type, task.match, task.player)
             to == {connection[p] : p \in R}
             new == [task EXCEPT !.pc = "done", !.to = to]
  <2>1. task \in RelayRecord /\ task.pc = "received" /\ UNCHANGED client
    BY <1>7 DEF Relay, Relayed
  <2>2. relayTask' = [relayTask EXCEPT ![r] = new]
    BY <1>7 DEF Relay, Relayed
  <2>3. ASSUME NEW b \in to
        PROVE  /\ b \in Addrs /\ On(b) /\ client[b].match = task.match
               /\ task.type = "pos" => client[b].player # task.player
    <3>1. PICK p \in R : b = connection[p]
      OBVIOUS
    <3>2. /\ task.match \in matches /\ p \in players[task.match]
          /\ task.type = "pos" => p # task.player
      BY <3>1 DEF Receivers
    <3>3. task.match \in Matches
      BY <1>0, <3>2 DEF TypeOK
    <3> QED
      BY <3>1, <3>2, <3>3 DEF Connected
  <2>4. new \in RelayRecord /\ new.pc = "done" /\ new.to = to /\ new.type = task.type
        /\ new.player = task.player /\ new.match = task.match
    <3>1. to \in SUBSET Addrs
      BY <2>3
    <3> HIDE DEF to
    <3> QED
      BY <2>1, <3>1 DEF RelayRecord
  <2> HIDE DEF new, to
  <2>5. /\ relayTask' \in [RelayTasks -> RelayRecord] /\ relayTask'[r] = new
        /\ \A s \in RelayTasks : s # r => relayTask'[s] = relayTask[s]
    BY <2>2, <2>4 DEF Relayed
  <2>6. \A s \in RelayTasks : \A b \in Addrs : SentBy(s, b)' = SentBy(s, b)
    BY <2>1, <2>4, <2>5 DEF SentBy, On
  <2> QED
    BY <2>1, <2>3, <2>4, <2>5, <2>6 DEF Relayed, Addressed, SawOthers, On
<1> QED
  BY <1>0, <1>3, <1>4, <1>5, <1>6, <1>7, LinkCases

-----------------------------------------------------------------------------
(* The clients' invariant *)

LinkInv == Launched /\ Served /\ Connected /\ Believes /\ Relayed

LEMMA LinkInvInit == LinkInit => LinkInv
<1> SUFFICES ASSUME LinkInit PROVE LinkInv
  OBVIOUS
<1>1. /\ \A a \in Addrs : client[a] = NoClient /\ session[a] = None /\ sent[a] = <<>>
      /\ \A j \in JoinTasks : joinTask[j].pc = "idle"
      /\ tickets = {} /\ \A m \in Matches : players[m] = {}
  BY DEF LinkInit, UdpInit, Init, IdleJoin
<1>2. NoClient \in ClientRecord /\ NoClient.pc = "off" /\ NoClient.fromPlayers = {}
  BY DEF NoClient, ClientRecord, ClientPc
<1>3. Launched
  BY <1>1, <1>2 DEF LinkInit, Launched, On
<1>4. Served
  BY <1>1 DEF Served, Serves, OneAttempt, Active, Hosts, Welcomed
<1>5. Connected /\ Believes
  BY <1>1, <1>2 DEF Connected, Believes
<1>6. Relayed
  <2>1. IdleRelay \in RelayRecord /\ IdleRelay.pc = "idle" /\ IdleRelay.to = {}
    BY DEF IdleRelay, RelayRecord
  <2> QED
    BY <1>1, <1>2, <2>1 DEF LinkInit, Relayed, Addressed, SawOthers
<1> QED
  BY <1>3, <1>4, <1>5, <1>6 DEF LinkInv

LEMMA LinkInvAlways == LinkSpec => []LinkInv
<1>1. ServerSound /\ LinkInv /\ [LinkNext]_linkVars => LinkInv'
  BY LaunchedStep, ServedStep, ConnectedStep, BelievesStep, RelayedStep DEF LinkInv
<1> QED
  BY <1>1, LinkInvInit, LinkSound, PTL DEF LinkSpec

-----------------------------------------------------------------------------
(* Where messages come from *)

Queued(p, msg) == \E i \in DOMAIN channel[p] : channel[p][i] = msg
Put(a, msg) == \E i \in DOMAIN sent[a] : sent[a][i] = msg

\* The error of a refused change goes out; a change is applied, to be reported.
Declines(c, p, msg) ==
  ReplyError(c) /\ p = paramTask[c].player /\ msg = paramTask[c].error
Applies(c, msg) ==
  LET task == paramTask[c]  m == task.match  p == task.player IN
  /\ UpdateStep(c) /\ msg = ParamApplied(m, p, handle'[m][p])
  /\ UpdatePlayerParams(m, p, task.param, task.direction)

LEMMA EnqueuedFor ==
  ASSUME ChannelsTyped, TasksTyped, NEW q, NEW x \in Reliable, Enqueue(q, x),
         NEW p \in Players, NEW msg, Queued(p, msg)'
  PROVE  Queued(p, msg) \/ (p = q /\ msg = x)
<1>1. CASE UNCHANGED channel
  BY <1>1 DEF Queued
<1>2. CASE HasReceiver(q) /\ channel' = [channel EXCEPT ![q] = Append(@, x)]
  <2>1. CASE p = q
    <3>1. channel'[p] = Append(channel[p], x) /\ channel[p] \in Seq(Reliable)
      BY <1>2, <2>1 DEF ChannelsTyped
    <3>2. PICK i \in DOMAIN channel'[p] : channel'[p][i] = msg
      BY DEF Queued
    <3>3. (i \in DOMAIN channel[p] /\ channel[p][i] = msg) \/ msg = x
      <4> HIDE DEF Reliable
      <4> QED
        BY <3>1, <3>2
    <3> QED
      BY <2>1, <3>3 DEF Queued
  <2>2. CASE p # q
    BY <1>2, <2>2 DEF Queued, ChannelsTyped
  <2> QED
    BY <2>1, <2>2
<1> QED
  BY <1>1, <1>2 DEF Enqueue

LEMMA QueuedFrom ==
  ASSUME ServerSound, [UdpNext]_allVars, NEW p \in Players, NEW msg, Queued(p, msg)'
  PROVE  Queued(p, msg) \/ InCast(msg) \/ \E c \in ParamTasks : Declines(c, p, msg)
<1>0. ChannelsTyped /\ TasksTyped /\ casts \subseteq Cast
  BY DEF ServerSound, Mail
<1>1. CASE UNCHANGED channel
  BY <1>1 DEF Queued
<1>2. ASSUME NEW j \in JoinTasks, CloseChannelOf(joinTask[j].addr) PROVE Queued(p, msg)
  <2>1. channel'[p] = channel[p] \/ channel'[p] = <<>>
    BY <1>0, <1>2 DEF CloseChannelOf, ChannelsTyped
  <2> QED
    BY <2>1 DEF Queued
<1>3. ASSUME NEW c \in ParamTasks, ReplyError(c)
      PROVE  Queued(p, msg) \/ Declines(c, p, msg)
  <2>1. paramTask[c].pc = "refused" /\ Enqueue(paramTask[c].player, paramTask[c].error)
    BY <1>3 DEF ReplyError
  <2>2. paramTask[c] \in Change
    BY <2>1 DEF ServerSound, Mail, ChangesTyped, IdleParam
  <2>3. paramTask[c].error \in Reliable
    BY <2>1, <2>2, RefusalsReliable
  <2> QED
    BY <1>0, <1>3, <2>1, <2>3, EnqueuedFor DEF Declines
<1>4. ASSUME NEW b \in casts, CastOn(b) PROVE Queued(p, msg) \/ InCast(msg)
  <2>1. b.msg \in Reliable
    BY <1>0 DEF Cast
  <2>2. Enqueue(b.to, b.msg)
    BY <1>4 DEF CastOn
  <2> QED
    BY <1>0, <2>1, <2>2, EnqueuedFor DEF InCast
<1>5. ASSUME NEW a \in Addrs, Pump(a) PROVE Queued(p, msg)
  <2> DEFINE s == channel[session[a].player]
  <2>1. \A i \in DOMAIN Tail(s) : i + 1 \in DOMAIN s /\ Tail(s)[i] = s[i + 1]
    BY <1>0, <1>5, PumpTakes DEF ServerSound
  <2>2. channel'[p] = channel[p] \/ (p = session[a].player /\ channel'[p] = Tail(s))
    BY <1>0, <1>5 DEF Pump, ChannelsTyped
  <2> HIDE DEF s
  <2> QED
    BY <2>1, <2>2 DEF Queued, s
<1>6. ASSUME NEW j \in JoinTasks, JoinProgress(j) PROVE Queued(p, msg)
  <2>1. UNCHANGED channel \/ CloseChannelOf(joinTask[j].addr)
    BY <1>6 DEF JoinProgress, ConsumeStep, RegisterStep, InsertSession, SessionOf, SendJoinOk,
       RemoveSession, RemoveStep
  <2>2. UNCHANGED channel => Queued(p, msg)
    BY DEF Queued
  <2> QED
    BY <1>2, <2>1, <2>2
<1>7. ASSUME ~\E j \in JoinTasks : JoinProgress(j),
             ~\E c \in ParamTasks : ReplyError(c), ~\E b \in casts : CastOn(b),
             ~\E a \in Addrs : Pump(a)
      PROVE  UNCHANGED channel
  BY <1>7 DEF UdpNext, ServerStep, OtherCore, StartStep, UpdateStep, CastProgress, ReadTargets, AbandonCast,
     ReceiveJoin, ReceiveParamChange, allVars, udpVars, taskVars
<1> QED
  BY <1>1, <1>3, <1>4, <1>5, <1>6, <1>7

LEMMA CastFrom ==
  ASSUME ServerSound, [UdpNext]_allVars, NEW msg, InCast(msg)'
  PROVE  InCast(msg) \/ msg.type = "match_started" \/ \E c \in ParamTasks : Applies(c, msg)
<1>0. casts \subseteq Cast
  BY DEF ServerSound, Mail
<1>1. CASE UNCHANGED casts
  BY <1>1 DEF InCast
<1>2. ASSUME NEW m \in Matches, StartStep(m) PROVE InCast(msg) \/ msg.type = "match_started"
  BY <1>2 DEF StartStep, NewCast, MatchStarted, InCast
<1>3. ASSUME NEW c \in ParamTasks, UpdateStep(c) PROVE InCast(msg) \/ Applies(c, msg)
  <2> DEFINE m == paramTask[c].match
             p == paramTask[c].player
             x == ParamApplied(m, p, handle'[m][p])
  <2>1. \/ UNCHANGED casts
        \/ /\ casts' = casts \cup {NewCast(m, x)}
           /\ UpdatePlayerParams(m, p, paramTask[c].param, paramTask[c].direction)
    BY <1>3 DEF UpdateStep
  <2>2. UNCHANGED casts => InCast(msg)
    BY DEF InCast
  <2>3. NewCast(m, x).msg = x
    BY DEF NewCast
  <2>4. casts' = casts \cup {NewCast(m, x)} => InCast(msg) \/ msg = x
    BY <2>3 DEF InCast
  <2> QED
    BY <1>3, <2>1, <2>2, <2>4 DEF Applies
<1>4. ASSUME NEW b \in casts, ReadTargets(b) \/ CastOn(b) PROVE InCast(msg)
  BY <1>0, <1>4, FromOnward DEF ReadTargets, CastOn
<1>5. ASSUME NEW b \in casts, AbandonCast(b) PROVE InCast(msg)
  BY <1>5 DEF AbandonCast, InCast
<1>6. ASSUME ~\E m \in Matches : StartStep(m), ~\E c \in ParamTasks : UpdateStep(c),
             ~\E b \in casts : ReadTargets(b) \/ CastOn(b) \/ AbandonCast(b),
             ~\E j \in JoinTasks : JoinProgress(j)
      PROVE  UNCHANGED casts
  BY <1>6 DEF UdpNext, ServerStep, OtherCore, ReplyError, CastProgress, Pump,
     ReceiveJoin, ReceiveParamChange, allVars, udpVars, taskVars
<1>7. ASSUME NEW j \in JoinTasks, JoinProgress(j) PROVE UNCHANGED casts
  BY <1>7 DEF JoinProgress, ConsumeStep, RegisterStep, InsertSession, SessionOf, SendJoinOk, RemoveSession,
     RemoveStep
<1> QED
  BY <1>1, <1>2, <1>3, <1>4, <1>5, <1>6, <1>7

\* A task turns its client away.
TurnsAway(j, msg) ==
  \/ ConsumeStep(j) /\ Refuse(j, "auth_failed") /\ msg = Error("auth_failed")
  \/ RegisterStep(j) /\ Refuse(j, "join_failed") /\ msg = Error("join_failed")

LEMMA PutFrom ==
  ASSUME ServerSound, [UdpNext]_allVars, NEW a \in Addrs, NEW msg, Put(a, msg)', ~Put(a, msg)
  PROVE  \/ Pump(a) /\ Queued(session[a].player, msg)
         \/ \E j \in JoinTasks : /\ joinTask[j].addr = a
                                 /\ TurnsAway(j, msg) \/ msg.type = "join_ok"
<1> DEFINE M == Reliable \cup Welcome
<1>0. /\ ChannelsTyped /\ TasksTyped /\ sent \in [Addrs -> Seq(M)]
      /\ \A b \in Addrs : session[b] # None => session[b].player \in Players
  BY DEF ServerSound, Mail, TasksTyped, Session
<1>1. ~UNCHANGED sent
  BY DEF Put
<1>2. ASSUME NEW j \in JoinTasks, joinTask[j].pc # "idle", NEW x \in M, Transmit(joinTask[j].addr, x)
      PROVE  joinTask[j].addr = a /\ msg = x
  <2>1. joinTask[j].addr \in Addrs
    BY <1>0, <1>2 DEF TasksTyped, WellFilled
  <2>2. joinTask[j].addr = a
    BY <1>0, <1>2, <2>1 DEF Transmit, Put
  <2>3. sent'[a] = Append(sent[a], x)
    BY <1>0, <1>2, <2>2 DEF Transmit
  <2>4. PICK i \in DOMAIN sent'[a] : sent'[a][i] = msg
    BY DEF Put
  <2>5. (i \in DOMAIN sent[a] /\ sent[a][i] = msg) \/ msg = x
    <3> HIDE DEF M
    <3> QED
      BY <1>0, <1>2, <2>3, <2>4
  <2> QED
    BY <2>2, <2>5 DEF Put
<1>3. /\ Error("auth_failed") \in M /\ Error("join_failed") \in M
      /\ \A m \in Matches, p \in Players : JoinOk(m, p) \in M /\ JoinOk(m, p).type = "join_ok"
  BY DEF Error, Reliable, JoinOk, Welcome
<1>4. ASSUME NEW j \in JoinTasks, JoinProgress(j)
      PROVE  joinTask[j].addr = a /\ (TurnsAway(j, msg) \/ msg.type = "join_ok")
  <2>0. joinTask[j].pc # "idle"
    BY <1>4 DEF JoinProgress, ConsumeStep, RegisterStep, InsertSession, SessionOf, SendJoinOk,
       RemoveSession, RemoveStep, JoinAt
  <2>1. CASE ConsumeStep(j)
    <3>1. Refuse(j, "auth_failed")
      BY <1>1, <2>1 DEF ConsumeStep
    <3> QED
      BY <1>1, <1>2, <1>3, <2>0, <2>1, <3>1 DEF Refuse, Deliver, TurnsAway
  <2>2. CASE RegisterStep(j)
    <3>1. Refuse(j, "join_failed")
      BY <1>1, <2>2 DEF RegisterStep
    <3> QED
      BY <1>1, <1>2, <1>3, <2>0, <2>2, <3>1 DEF Refuse, Deliver, TurnsAway
  <2>3. CASE SendJoinOk(j)
    <3>1. joinTask[j].match \in Matches /\ joinTask[j].player \in Players
      BY <1>0, <2>3 DEF SendJoinOk, JoinAt, TasksTyped, WellFilled
    <3>2. Transmit(joinTask[j].addr, JoinOk(joinTask[j].match, joinTask[j].player))
      BY <1>1, <2>3 DEF SendJoinOk
    <3> QED
      BY <1>2, <1>3, <2>0, <3>1, <3>2
  <2> QED
    BY <1>1, <1>4, <2>1, <2>2, <2>3 DEF JoinProgress, InsertSession, SessionOf, RemoveSession, RemoveStep
<1>5. ASSUME NEW b \in Addrs, Pump(b) PROVE Pump(a) /\ Queued(session[a].player, msg)
  <2> DEFINE x == Head(channel[session[b].player])
  <2>1. x \in Reliable /\ Queued(session[b].player, x)
    BY <1>5, PumpTakes DEF ServerSound, Queued
  <2>2. Transmit(b, x)
    BY <1>1, <1>5 DEF Pump, Deliver
  <2> HIDE DEF x
  <2>3. b = a
    BY <1>0, <2>2 DEF Transmit, Put
  <2>4. sent'[a] = Append(sent[a], x)
    BY <1>0, <2>2, <2>3 DEF Transmit
  <2>5. PICK i \in DOMAIN sent'[a] : sent'[a][i] = msg
    BY DEF Put
  <2>6. (i \in DOMAIN sent[a] /\ sent[a][i] = msg) \/ msg = x
    <3> HIDE DEF M
    <3>1. x \in M
      BY <2>1 DEF M
    <3> QED
      BY <1>0, <2>4, <2>5, <3>1
  <2> QED
    BY <1>5, <2>1, <2>3, <2>6 DEF Put
<1>6. ASSUME ~\E j \in JoinTasks : JoinProgress(j), ~\E b \in Addrs : Pump(b) PROVE FALSE
  BY <1>1, <1>6 DEF UdpNext, ServerStep, OtherCore, StartStep, UpdateStep, ReplyError, CastProgress,
     ReadTargets, CastOn, AbandonCast, ReceiveJoin, ReceiveParamChange, allVars, udpVars, taskVars
<1> QED
  BY <1>4, <1>5, <1>6

-----------------------------------------------------------------------------
(* Errors *)

ChangeCodes == {"cooldown_active", "param_update_failed"}

HasJoined(p) == \E a \in Addrs : client[a].player = p /\ client[a].pc \in {"joined", "left"}
WillHaveJoined(p) ==
  \E a \in Addrs : client'[a].player = p /\ client'[a].pc \in {"joined", "left"}

\* A change, and so its error, comes from a client that has joined; the errors of a
\* join never go through a channel.
Errors ==
  /\ \A c \in ParamTasks : paramTask[c].pc # "idle" => HasJoined(paramTask[c].player)
  /\ \A msg : InCast(msg) => msg.type # "error"
  /\ \A p \in Players : \A msg : Queued(p, msg) /\ msg.type = "error" =>
       msg.code \in ChangeCodes /\ HasJoined(p)
  /\ \A a \in Addrs : \A msg : Put(a, msg) /\ msg.type = "error" =>
       On(a) /\ (msg.code \in ChangeCodes => HasJoined(client[a].player))

\* What the server sees of a step.
LEMMA ServerSees ==
  ASSUME [LinkNext]_linkVars
  PROVE  \/ ServerStep
         \/ \E j \in JoinTasks, a \in Addrs : JoinArrives(j, a)
         \/ \E c \in ParamTasks, a \in Addrs, param \in Kinds, direction \in ParamDirection :
               ChangeArrives(c, a, param, direction)
         \/ UNCHANGED allVars
<1>1. CASE UNCHANGED linkVars
  BY <1>1 DEF linkVars
<1>2. ASSUME NEW a \in Addrs, Launch(a) \/ HearAnswer(a) \/ GiveUp(a) \/ HearMessage(a)
                                \/ HearDatagram(a) \/ Leave(a)
      PROVE  UNCHANGED allVars
  <2>0. HearAnswer(a) => UNCHANGED allVars
    BY DEF HearAnswer
  <2>1. Launch(a) => UNCHANGED allVars
    BY DEF Launch
  <2>2. (GiveUp(a) => UNCHANGED allVars) /\ (Leave(a) => UNCHANGED allVars)
    BY DEF GiveUp, Leave
  <2>3. (HearMessage(a) => UNCHANGED allVars) /\ (HearDatagram(a) => UNCHANGED allVars)
    BY DEF HearMessage, HearDatagram
  <2> QED
    BY <1>2, <2>0, <2>1, <2>2, <2>3
<1>3. ASSUME NEW r \in RelayTasks, NEW a \in Addrs, NEW type \in Unreliable,
             ReceiveDatagram(r, a, type)
      PROVE  UNCHANGED allVars
  BY <1>3 DEF ReceiveDatagram
<1>4. ASSUME NEW r \in RelayTasks, Relay(r) PROVE UNCHANGED allVars
  BY <1>4 DEF Relay
<1> QED
  BY <1>1, <1>2, <1>3, <1>4 DEF LinkNext, ServerAlone

LEMMA HasJoinedStays ==
  ASSUME Launched, Relayed, TypeOK, Mail, [LinkNext]_linkVars, NEW p, HasJoined(p)
  PROVE  WillHaveJoined(p)
<1>1. PICK a \in Addrs : client[a].player = p /\ client[a].pc \in {"joined", "left"}
  BY DEF HasJoined
<1>2. client'[a].player = p
  BY <1>1, ClientsSame DEF SameClients, On
<1>3. client \in [Addrs -> ClientRecord]
  BY DEF Launched
<1>4. ASSUME NEW b \in Addrs, HearMessage(b) \/ HearDatagram(b) PROVE client'[a].pc = client[a].pc
  <2>1. PICK new : \/ client' = [client EXCEPT ![b].observed = new]
                   \/ client' = [client EXCEPT ![b].cooldownErrorSeen = new]
                   \/ client' = [client EXCEPT ![b].fromPlayers = new]
    BY <1>4 DEF HearMessage, HearDatagram
  <2> QED
    BY <1>3, <2>1 DEF ClientRecord
<1>5. ASSUME NEW b \in Addrs, Launch(b) \/ HearAnswer(b) \/ GiveUp(b) PROVE client'[a] = client[a]
  <2>1. a # b
    <3>1. Launch(b) => client[b].pc = "off"
      BY DEF Launch
    <3>2. HearAnswer(b) \/ GiveUp(b) => client[b].pc = "joining"
      BY DEF HearAnswer, GiveUp
    <3> QED
      BY <1>1, <1>5, <3>1, <3>2
  <2>2. Launch(b) => client'[a] = client[a]
    BY <1>3, <2>1 DEF Launch
  <2>3. \A pc : ClientStep(b, pc) => client'[a] = client[a]
    BY <1>3, <2>1 DEF ClientStep
  <2> QED
    <3>1. HearAnswer(b) => \E pc : ClientStep(b, pc)
      BY DEF HearAnswer
    <3>2. GiveUp(b) => ClientStep(b, "gave_up")
      BY DEF GiveUp
    <3> QED
      BY <1>5, <2>2, <2>3, <3>1, <3>2
<1>6. ASSUME NEW b \in Addrs, Leave(b) PROVE client'[a].pc \in {"joined", "left"}
  BY <1>1, <1>3, <1>6 DEF Leave, ClientStep, ClientRecord
<1>7. client'[a].pc \in {"joined", "left"}
  BY <1>1, <1>4, <1>5, <1>6, LinkCases
<1> QED
  BY <1>2, <1>7 DEF WillHaveJoined

LEMMA ErrorsStep ==
  ASSUME ServerSound, LinkInv, Errors, [LinkNext]_linkVars
  PROVE  Errors'
<1>0. /\ TypeOK /\ Mail /\ TasksTyped /\ Launched /\ Relayed /\ Served
      /\ [UdpNext]_allVars /\ SameClients
  BY LinkStep, ClientsSame DEF ServerSound, LinkInv
<1>1. \A p : HasJoined(p) => WillHaveJoined(p)
  BY <1>0, HasJoinedStays
<1>2. ASSUME NEW c \in ParamTasks, paramTask'[c].pc # "idle" PROVE WillHaveJoined(paramTask'[c].player)
  <2>0. paramTask \in [ParamTasks -> {IdleParam} \cup Change]
    BY <1>0 DEF Mail, ChangesTyped
  <2>1. CASE paramTask'[c] = paramTask[c]
    BY <1>1, <1>2, <2>1 DEF Errors
  <2>2. ASSUME NEW d \in ParamTasks, UpdateStep(d) \/ ReplyError(d)
        PROVE  paramTask'[c].player = paramTask[c].player /\ paramTask[c].pc # "idle"
    <3>1. /\ \/ paramTask' = [paramTask EXCEPT ![d].pc = "done"]
             \/ \E e : paramTask' = [paramTask EXCEPT ![d].pc = "refused", ![d].error = e]
          /\ paramTask[d].pc # "idle"
      BY <2>2 DEF UpdateStep, ReplyError
    <3>2. CASE c = d
      <4>1. paramTask[c].pc # "idle"
        BY <3>1, <3>2
      <4>2. paramTask[c] \in Change
        BY <2>0, <4>1 DEF IdleParam
      <4>3. \/ paramTask'[c] = [paramTask[c] EXCEPT !.pc = "done"]
            \/ \E e : paramTask'[c] = [paramTask[c] EXCEPT !.pc = "refused", !.error = e]
        BY <2>0, <3>1, <3>2
      <4> QED
        BY <4>1, <4>2, <4>3 DEF Change
    <3>3. CASE c # d
      BY <1>2, <2>0, <3>1, <3>3
    <3> QED
      BY <3>2, <3>3
  <2>3. ASSUME NEW d \in ParamTasks, NEW a \in Addrs, NEW param \in Kinds,
               NEW direction \in ParamDirection, ChangeArrives(d, a, param, direction)
        PROVE  WillHaveJoined(paramTask'[c].player)
    <3>1. /\ session[a] # None /\ client[a].pc \in {"joined", "left"}
          /\ paramTask' = [paramTask EXCEPT ![d] =
               [pc |-> "received", addr |-> a, player |-> session[a].player,
                match |-> session[a].match, param |-> param, direction |-> direction,
                error |-> None]]
      BY <2>3 DEF ChangeArrives, ReceiveParamChange, MayHaveSent
    <3>2. HasJoined(session[a].player)
      BY <1>0, <3>1 DEF Served, Hosts, HasJoined
    <3>3. CASE c = d
      <4>1. paramTask'[c].player = session[a].player
        BY <2>0, <3>1, <3>3
      <4> QED
        BY <1>1, <3>2, <4>1
    <3>4. CASE c # d
      BY <2>0, <2>1, <3>1, <3>4
    <3> QED
      BY <3>3, <3>4
  <2>4. ASSUME ~\E d \in ParamTasks : UpdateStep(d) \/ ReplyError(d),
               ~\E d \in ParamTasks, a \in Addrs, param \in Kinds, direction \in ParamDirection :
                   ChangeArrives(d, a, param, direction),
               ~\E j \in JoinTasks : JoinProgress(j)
        PROVE  UNCHANGED paramTask
    BY <2>4, ServerSees DEF ServerStep, OtherCore, StartStep, CastProgress, ReadTargets,
       CastOn, AbandonCast, Pump, JoinArrives, ReceiveJoin, allVars, udpVars, taskVars
  <2>5. ASSUME NEW j \in JoinTasks, JoinProgress(j) PROVE UNCHANGED paramTask
    BY <2>5 DEF JoinProgress, ConsumeStep, RegisterStep, InsertSession, SessionOf, SendJoinOk,
       RemoveSession, RemoveStep
  <2>6. CASE paramTask'[c].player = paramTask[c].player /\ paramTask[c].pc # "idle"
    BY <1>1, <2>6 DEF Errors
  <2> QED
    BY <2>1, <2>2, <2>3, <2>4, <2>5, <2>6
<1>3. ASSUME NEW msg, InCast(msg)' PROVE msg.type # "error"
  <2>1. CASE InCast(msg)
    BY <2>1 DEF Errors
  <2>2. \A c \in ParamTasks : Applies(c, msg) => msg.type = "param_applied"
    BY DEF Applies, ParamApplied
  <2> QED
    BY <1>0, <1>3, <2>1, <2>2, CastFrom
<1>4. ASSUME NEW p \in Players, NEW msg, Queued(p, msg)', msg.type = "error"
      PROVE  msg.code \in ChangeCodes /\ WillHaveJoined(p)
  <2>1. CASE Queued(p, msg)
    BY <1>1, <1>4, <2>1 DEF Errors
  <2>2. ASSUME NEW c \in ParamTasks, Declines(c, p, msg)
        PROVE  msg.code \in ChangeCodes /\ HasJoined(p)
    <3>1. paramTask[c].pc = "refused" /\ p = paramTask[c].player /\ msg = paramTask[c].error
      BY <2>2 DEF Declines, ReplyError
    <3>2. paramTask[c] \in Change
      BY <1>0, <3>1 DEF Mail, ChangesTyped, IdleParam
    <3>3. msg.code \in ChangeCodes
      BY <3>1, <3>2, RefusalsReliable DEF ChangeErrors, Error, ChangeCodes
    <3> QED
      BY <3>1, <3>3 DEF Errors
  <2> QED
    BY <1>0, <1>1, <1>4, <2>1, <2>2, QueuedFrom DEF Errors
<1>5. ASSUME NEW a \in Addrs, NEW msg, Put(a, msg)', msg.type = "error"
      PROVE  On(a)' /\ (msg.code \in ChangeCodes => WillHaveJoined(client'[a].player))
  <2>0. ASSUME On(a), msg.code \in ChangeCodes => HasJoined(client[a].player)
        PROVE  On(a)' /\ (msg.code \in ChangeCodes => WillHaveJoined(client'[a].player))
    <3>1. client'[a].player = client[a].player /\ On(a)'
      BY <1>0, <2>0 DEF SameClients, On
    <3> QED
      BY <1>1, <2>0, <3>1
  <2>1. CASE Put(a, msg)
    BY <1>5, <2>0, <2>1 DEF Errors
  <2>2. CASE Pump(a) /\ Queued(session[a].player, msg)
    <3>1. session[a].player \in Players /\ On(a) /\ client[a].player = session[a].player
      BY <1>0, <2>2 DEF Pump, Served, Hosts, TasksTyped, Session
    <3> QED
      BY <1>5, <2>0, <2>2, <3>1 DEF Errors
  <2>3. ASSUME NEW j \in JoinTasks, joinTask[j].addr = a, TurnsAway(j, msg)
        PROVE  On(a) /\ msg.code \notin ChangeCodes
    <3>1. msg.code \notin ChangeCodes
      BY <2>3 DEF TurnsAway, Error, ChangeCodes
    <3>2. joinTask[j].pc # "idle"
      BY <2>3 DEF TurnsAway, ConsumeStep, RegisterStep, JoinAt
    <3> QED
      BY <1>0, <2>3, <3>1, <3>2 DEF Served, Serves
  <2> QED
    BY <1>0, <1>5, <2>0, <2>1, <2>2, <2>3, PutFrom
<1> QED
  BY <1>2, <1>3, <1>4, <1>5 DEF Errors, HasJoined, WillHaveJoined

-----------------------------------------------------------------------------
(* Who was turned away *)

Turns == {"auth_failed", "join_failed"}
TurnedAway(a) == \E code \in Turns : Put(a, Error(code))

\* A task that has begun for the client at a, and one that has asked for its ticket.
Tried(j, a) == joinTask[j].addr = a /\ joinTask[j].pc # "idle"
Past(j, a) == joinTask[j].addr = a /\ joinTask[j].pc \notin {"idle", "checked"}

Pair(a) == \E j, k \in JoinTasks : j # k /\ Tried(j, a) /\ Tried(k, a)

\* The client has a place, or a task that may get it one.
InGame(a) ==
  \/ On(a) /\ Seated(a)
  \/ \E j \in JoinTasks : Active(j) /\ joinTask[j].addr = a

Turned(a) ==
  /\ TurnedAway(a) \/ InGame(a) => \E j \in JoinTasks : Past(j, a)
  /\ TurnedAway(a) /\ InGame(a) => Pair(a)
  /\ client[a].pc = "refused" => TurnedAway(a)

\* A task that goes on has asked for its ticket.
LEMMA GoesOn ==
  ASSUME TasksTyped, NEW j \in JoinTasks, JoinProgress(j), NEW a, Tried(j, a), Effect(j)
  PROVE  Past(j, a)'
<1>1. joinTask \in [JoinTasks -> JoinTask]
  BY DEF TasksTyped
<1>2. joinTask'[j].addr = a
  BY DEF Effect, Tried
<1>3. ASSUME NEW pc, pc \notin {"idle", "checked"}, JoinStep(j, pc) PROVE Past(j, a)'
  BY <1>1, <1>2, <1>3 DEF JoinStep, Past
<1>4. CASE ConsumeStep(j)
  <2>1. CASE Refuse(j, "auth_failed")
    BY <1>3, <2>1 DEF Refuse
  <2>2. ASSUME NEW m, joinTask' = [joinTask EXCEPT ![j].pc = "claimed", ![j].match = m]
        PROVE  Past(j, a)'
    BY <1>1, <1>2, <2>2 DEF JoinTask, Past
  <2> QED
    BY <1>4, <2>1, <2>2 DEF ConsumeStep
<1>5. CASE RegisterStep(j)
  BY <1>3, <1>5 DEF RegisterStep, Refuse
<1>6. CASE InsertSession(j)
  BY <1>3, <1>6 DEF InsertSession, SessionOf
<1>7. CASE SendJoinOk(j)
  BY <1>3, <1>7 DEF SendJoinOk
<1>8. CASE RemoveSession(j)
  <2>1. ASSUME NEW m, NEW p, joinTask' = [joinTask EXCEPT ![j].pc = "removing",
                                                          ![j].match = m, ![j].player = p]
        PROVE  Past(j, a)'
    BY <1>1, <1>2, <2>1 DEF JoinTask, Past
  <2> QED
    BY <1>3, <1>8, <2>1, Zenon DEF RemoveSession
<1>9. CASE RemoveStep(j)
  BY <1>3, <1>9 DEF RemoveStep
<1> QED
  BY <1>4, <1>5, <1>6, <1>7, <1>8, <1>9 DEF JoinProgress

\* Tasks do not go back.
LEMMA TasksGoOn ==
  ASSUME ServerSound, Launched, Served, [LinkNext]_linkVars, NEW j \in JoinTasks, NEW a
  PROVE  /\ Tried(j, a) => Tried(j, a)'
         /\ Past(j, a) => Past(j, a)'
         /\ Active(j)' /\ ~Active(j) => JoinProgress(j)
<1>0. TasksTyped /\ joinTask \in [JoinTasks -> JoinTask]
  BY DEF ServerSound, TasksTyped
<1>1. CASE joinTask'[j] = joinTask[j]
  BY <1>1 DEF Tried, Past, Active
<1>2. ASSUME NEW k \in JoinTasks, JoinProgress(k)
      PROVE  /\ Tried(j, a) => Tried(j, a)'
             /\ Past(j, a) => Past(j, a)'
             /\ Active(j)' /\ ~Active(j) => JoinProgress(j)
  <2>1. Effect(k)
    BY <1>2, JoinEffect
  <2>2. CASE k # j
    BY <1>1, <2>1, <2>2 DEF Effect
  <2>3. CASE k = j
    BY <1>0, <1>2, <2>1, <2>3, GoesOn DEF Past, Tried
  <2> QED
    BY <2>2, <2>3
<1>3. ASSUME NEW k \in JoinTasks, NEW b \in Addrs, JoinArrives(k, b)
      PROVE  /\ Tried(j, a) => Tried(j, a)'
             /\ Past(j, a) => Past(j, a)'
             /\ Active(j)' /\ ~Active(j) => JoinProgress(j)
  <2>1. /\ joinTask[k].pc = "idle"
        /\ joinTask' = [joinTask EXCEPT ![k] = [pc |-> "checked", addr |-> b,
                                                player |-> client[b].player, match |-> None]]
    BY <1>3 DEF JoinArrives, ReceiveJoin, JoinAt
  <2>2. CASE k # j
    BY <1>0, <1>1, <2>1, <2>2
  <2>3. CASE k = j
    <3>1. joinTask'[j].pc = "checked"
      BY <1>0, <2>1, <2>3
    <3> QED
      BY <2>1, <2>3, <3>1 DEF Tried, Past, Active
  <2> QED
    BY <2>2, <2>3
<1>4. ASSUME ~\E k \in JoinTasks : JoinProgress(k),
             ~\E k \in JoinTasks, b \in Addrs : JoinArrives(k, b)
      PROVE  UNCHANGED joinTask
  BY <1>4, ServerSees DEF ServerStep, OtherCore, StartStep, UpdateStep, ReplyError, CastProgress, ReadTargets,
     CastOn, AbandonCast, Pump, ChangeArrives, ReceiveParamChange, allVars, udpVars, taskVars
<1> QED
  BY <1>1, <1>2, <1>3, <1>4

\* Whoever appears in a room was registered by a join task.
LEMMA Newcomer ==
  ASSUME ServerSound, [UdpNext]_allVars, NEW m \in Matches, NEW p \in players'[m], p \notin players[m]
  PROVE  \E j \in JoinTasks : RegisterStep(j) /\ joinTask[j].player = p
<1> USE DEF roomVars, drawnVars
<1>0. TypeOK
  BY DEF ServerSound
<1>1. ~(players'[m] \subseteq players[m])
  OBVIOUS
<1>2. CASE OtherCore
  <2>1. ASSUME NEW S, DropRooms(S) PROVE FALSE
    BY <1>1, <2>1 DEF DropRooms, TicketsWithout
  <2>2. ASSUME ~\E S : DropRooms(S) PROVE UNCHANGED players
    BY <1>2, <2>2 DEF OtherCore, CreateRoom, DeleteRoom, IssueJoinTicket, FinishRoom, SweepBegin,
       SweepApply, Tick
  <2> QED
    BY <1>1, <2>1, <2>2
<1>3. ASSUME NEW j \in JoinTasks, RegisterStep(j) PROVE joinTask[j].player = p
  <2> DEFINE c == [player |-> joinTask[j].player, match |-> joinTask[j].match]
  <2>1. RegisterPlayer(c)
    BY <1>3 DEF RegisterStep
  <2>2. players' = [players EXCEPT ![c.match] = @ \cup {c.player}]
    BY <1>1, <2>1 DEF RegisterPlayer
  <2> QED
    BY <1>0, <2>2 DEF TypeOK
<1>4. ASSUME NEW j \in JoinTasks, RemoveStep(j) PROVE FALSE
  <2>1. ASSUME NEW n, NEW q, RemovePlayer(n, q) PROVE FALSE
    BY <1>0, <1>1, <2>1 DEF RemovePlayer, TypeOK
  <2> QED
    BY <1>1, <1>4, <2>1 DEF RemoveStep, vars
<1>5. ASSUME NEW j \in JoinTasks, JoinProgress(j), ~RegisterStep(j), ~RemoveStep(j)
      PROVE  UNCHANGED players
  BY <1>5 DEF JoinProgress, ConsumeStep, ConsumeTicket, InsertSession, SessionOf, SendJoinOk, RemoveSession,
     vars
<1>6. ASSUME NEW c \in ParamTasks, UpdateStep(c) PROVE UNCHANGED players
  <2>1. \/ UNCHANGED vars
        \/ \E n, q, param, direction : UpdatePlayerParams(n, q, param, direction)
    BY <1>6 DEF UpdateStep
  <2>2. \A n, q, param, direction : UpdatePlayerParams(n, q, param, direction) => UNCHANGED players
    BY DEF UpdatePlayerParams
  <2> QED
    BY <2>1, <2>2 DEF vars
<1>7. ASSUME ~OtherCore, ~\E j \in JoinTasks : JoinProgress(j), ~\E c \in ParamTasks : UpdateStep(c)
      PROVE  UNCHANGED players
  BY <1>7 DEF UdpNext, ServerStep, StartStep, StartRoom, Startable, ReplyError, CastProgress,
     ReadTargets, CastOn, AbandonCast, Pump, ReceiveJoin, ReceiveParamChange, allVars, vars
<1> QED
  BY <1>1, <1>2, <1>3, <1>4, <1>5, <1>6, <1>7

\* What a client was sent stays sent.
LEMMA PutStays ==
  ASSUME ServerSound, Launched, Served, [LinkNext]_linkVars, NEW a \in Addrs, NEW msg, Put(a, msg)
  PROVE  Put(a, msg)'
BY SentGrows DEF Put

\* A task that turns its client away leaves the rooms alone, and is over.
LEMMA TurnEffect ==
  ASSUME ServerSound, Launched, Served, NEW j \in JoinTasks, NEW msg, TurnsAway(j, msg)
  PROVE  /\ JoinProgress(j) /\ Effect(j) /\ UNCHANGED <<matches, players>>
         /\ joinTask'[j].pc = "done" /\ joinTask[j].pc \in {"checked", "claimed"}
<1> USE DEF roomVars
<1>1. JoinProgress(j) /\ joinTask[j].pc \in {"checked", "claimed"}
  BY DEF TurnsAway, JoinProgress, ConsumeStep, RegisterStep, JoinAt
<1>2. JoinStep(j, "done")
  BY DEF TurnsAway, Refuse
<1>3. joinTask'[j].pc = "done"
  BY <1>2 DEF JoinStep, ServerSound, TasksTyped, JoinTask
<1>4. ASSUME ConsumeStep(j) PROVE UNCHANGED <<matches, players>>
  BY <1>4 DEF ConsumeStep, ConsumeTicket, vars
<1>5. ASSUME RegisterStep(j) PROVE UNCHANGED <<matches, players>>
  <2>1. ASSUME JoinStep(j, "registered") PROVE FALSE
    BY <1>3, <2>1 DEF JoinStep, ServerSound, TasksTyped, JoinTask
  <2>2. ~Admissible(joinTask[j].match, joinTask[j].player)
    BY <1>5, <2>1 DEF RegisterStep
  <2> QED
    BY <1>5, <2>2 DEF RegisterStep, RegisterPlayer
<1> QED
  BY <1>1, <1>3, <1>4, <1>5, JoinEffect DEF TurnsAway

\* Who is turned away now has no place and no other try under way, or had two tries.
LEMMA TurnNow ==
  ASSUME ServerSound, LinkInv, Errors, [LinkNext]_linkVars, NEW a \in Addrs, Turned(a),
         TurnedAway(a)', ~TurnedAway(a)
  PROVE  /\ \E j \in JoinTasks : Past(j, a)'
         /\ InGame(a)' => Pair(a)'
<1>0. TypeOK /\ TasksTyped /\ Launched /\ Served /\ SingleAdmission /\ Keepers /\ [UdpNext]_allVars
  BY LinkStep DEF ServerSound, LinkInv
<1>1. PICK code \in Turns : Put(a, Error(code))' /\ ~Put(a, Error(code))
  BY DEF TurnedAway
<1>2. Error(code).type = "error" /\ Error(code).code \notin ChangeCodes
  BY DEF Error, Turns, ChangeCodes
<1>3. ASSUME Pump(a), Queued(session[a].player, Error(code)) PROVE FALSE
  <2>1. session[a].player \in Players
    BY <1>0, <1>3 DEF Pump, TasksTyped, Session
  <2> QED
    BY <1>2, <1>3, <2>1 DEF Errors
<1>4. PICK j \in JoinTasks : joinTask[j].addr = a /\ TurnsAway(j, Error(code))
  BY <1>0, <1>1, <1>2, <1>3, PutFrom
<1>5. /\ JoinProgress(j) /\ Effect(j) /\ UNCHANGED <<matches, players>>
      /\ joinTask'[j].pc = "done" /\ joinTask[j].pc \in {"checked", "claimed"}
  BY <1>0, <1>4, TurnEffect
<1>6. Past(j, a)' /\ Tried(j, a)'
  BY <1>4, <1>5 DEF Effect, Past, Tried
<1>7. UNCHANGED client
  <2>1. ~UNCHANGED allVars
    BY <1>1 DEF Put, allVars, udpVars
  <2> QED
    BY <1>0, <2>1, LinkCases
<1>8. On(a) /\ joinTask[j].player = client[a].player
  BY <1>0, <1>4, <1>5 DEF Served, Serves
<1>9. InGame(a)' => InGame(a)
  <2>1. ASSUME NEW k \in JoinTasks, Active(k)', joinTask'[k].addr = a
        PROVE  Active(k) /\ joinTask[k].addr = a
    <3>1. k # j
      BY <1>5, <2>1 DEF Active
    <3> QED
      BY <1>5, <2>1, <3>1 DEF Effect, Active
  <2> QED
    BY <1>5, <1>7, <2>1 DEF InGame, Seated, On
<1>10. CASE joinTask[j].pc = "checked"
  <2>1. ASSUME InGame(a) PROVE Pair(a)'
    <3>1. PICK k \in JoinTasks : Past(k, a)
      BY <2>1 DEF Turned
    <3>2. k # j
      BY <1>10, <3>1 DEF Past
    <3>3. Tried(k, a)'
      BY <1>0, <3>1, TasksGoOn DEF Past, Tried
    <3> QED
      BY <1>6, <3>2, <3>3 DEF Pair
  <2> QED
    BY <1>6, <1>9, <2>1
<1>11. CASE joinTask[j].pc = "claimed"
  <2>1. Active(j)
    BY <1>11 DEF Active
  <2>2. ~Seated(a)
    <3>1. [player |-> joinTask[j].player, match |-> joinTask[j].match] \in joining
      BY <1>0, <1>11 DEF Keepers, Claims, JoinAt
    <3>2. client[a].match \in matches => client[a].match \in Matches
      BY <1>0 DEF TypeOK
    <3> QED
      BY <1>0, <1>8, <3>1, <3>2 DEF SingleAdmission, Seated
  <2>3. ASSUME NEW k \in JoinTasks, Active(k)', joinTask'[k].addr = a PROVE FALSE
    <3>1. k # j
      BY <1>5, <2>3 DEF Active
    <3>2. Active(k) /\ joinTask[k].addr = a
      BY <1>5, <2>3, <3>1 DEF Effect, Active
    <3>3. joinTask[k].player = client[a].player
      BY <1>0, <3>2 DEF Served, Serves, Active
    <3> QED
      BY <1>0, <1>8, <2>1, <3>1, <3>2, <3>3 DEF Served, OneAttempt
  <2>4. ~InGame(a)'
    BY <1>5, <1>7, <2>2, <2>3 DEF InGame, Seated
  <2> QED
    BY <1>6, <2>4
<1> QED
  BY <1>5, <1>10, <1>11

\* A client comes into the game when one of its tasks consumes the ticket.
LEMMA EnterGame ==
  ASSUME ServerSound, LinkInv, [LinkNext]_linkVars, NEW a \in Addrs, InGame(a)', ~InGame(a)
  PROVE  \E j \in JoinTasks : joinTask[j].addr = a /\ joinTask[j].pc = "checked" /\ Past(j, a)'
<1>0. TypeOK /\ TasksTyped /\ Launched /\ Served /\ Relayed /\ Mail /\ SingleAdmission
      /\ [UdpNext]_allVars
  BY LinkStep DEF ServerSound, LinkInv
<1>1. ASSUME NEW j \in JoinTasks, Active(j)', joinTask'[j].addr = a
      PROVE  joinTask[j].addr = a /\ joinTask[j].pc = "checked" /\ Past(j, a)'
  <2>1. CASE ~Active(j)
    <3>1. JoinProgress(j)
      BY <1>0, <1>1, <2>1, TasksGoOn
    <3>2. Effect(j)
      BY <1>0, <3>1, JoinEffect
    <3>3. joinTask[j].addr = a
      BY <1>1, <3>2 DEF Effect
    <3>4. joinTask[j].pc = "checked"
      BY <2>1, <3>1 DEF JoinProgress, ConsumeStep, RegisterStep, InsertSession, SessionOf, SendJoinOk,
         RemoveSession, RemoveStep, JoinAt, Active
    <3>5. Past(j, a)'
      BY <1>1 DEF Past, Active
    <3> QED
      BY <3>3, <3>4, <3>5
  <2>2. CASE Active(j)
    <3>1. Tried(j, joinTask[j].addr)
      BY <2>2 DEF Active, Tried
    <3>2. joinTask'[j].addr = joinTask[j].addr
      <4> DEFINE b == joinTask[j].addr
      <4>1. ASSUME NEW c, c = b PROVE Tried(j, c) /\ Tried(j, c)'
        <5>1. Tried(j, c)
          BY <3>1, <4>1
        <5> QED
          BY <1>0, <5>1, TasksGoOn
      <4>2. PICK c : c = b
        OBVIOUS
      <4> QED
        BY <4>1, <4>2 DEF Tried
    <3> QED
      BY <1>1, <2>2, <3>2 DEF InGame
  <2> QED
    BY <2>1, <2>2
<1>2. ASSUME On(a)', Seated(a)' PROVE FALSE
  <2> DEFINE p == client'[a].player
             m == client'[a].match
  <2>1. p \in players'[m] /\ m \in matches' /\ m \in Matches
    BY <1>0, <1>2, CoreStep, TypeStep DEF Seated, TypeOK, ServerSound
  <2>2. ASSUME Launch(a) PROVE FALSE
    <3>1. PICK t \in tickets : client'[a].player = t.player
      BY <1>0, <2>2 DEF Launch, Launched, ClientRecord
    <3>2. UNCHANGED players
      BY <2>2 DEF Launch, allVars, vars, roomVars
    <3> QED
      BY <1>0, <2>1, <3>1, <3>2 DEF SingleAdmission
  <2>3. On(a)
    <3>1. ASSUME NEW b \in Addrs, Launch(b) PROVE client'[a] = client[a]
      <4>1. a # b
        BY <2>2, <3>1
      <4> QED
        BY <1>0, <3>1, <4>1 DEF Launch, Launched
    <3>2. ASSUME NEW b \in Addrs, UNCHANGED <<allVars, relayTask>>,
                 HearAnswer(b) \/ GiveUp(b) \/ HearMessage(b) \/ HearDatagram(b) \/ Leave(b)
          PROVE  On(a)
      BY <1>0, <1>2, <3>2, ClientMoves DEF On
    <3> QED
      BY <1>0, <1>2, <3>1, <3>2, LinkCases DEF On
  <2>4. client[a].player = p /\ client[a].match = m
    BY <1>0, <2>3, ClientsSame DEF SameClients
  <2>5. p \notin players[m]
    BY <1>0, <2>1, <2>3, <2>4 DEF InGame, Seated, TypeOK
  <2>6. PICK j \in JoinTasks : RegisterStep(j) /\ joinTask[j].player = p
    <3> HIDE DEF p, m
    <3> QED
      BY <1>0, <2>1, <2>5, Newcomer
  <2>7. joinTask[j].pc = "claimed"
    BY <2>6 DEF RegisterStep, JoinAt
  <2>8. joinTask[j].addr \in Addrs
    BY <1>0, <2>7 DEF TasksTyped, WellFilled
  <2>9. On(joinTask[j].addr) /\ joinTask[j].player = client[joinTask[j].addr].player
    BY <1>0, <2>7 DEF Served, Serves
  <2>10. joinTask[j].addr = a
    BY <1>0, <2>3, <2>4, <2>6, <2>8, <2>9 DEF Launched
  <2> QED
    BY <2>7, <2>10 DEF InGame, Active
<1> QED
  BY <1>1, <1>2 DEF InGame

LEMMA TurnedStep ==
  ASSUME ServerSound, LinkInv, Errors, [LinkNext]_linkVars, NEW a \in Addrs, Turned(a)
  PROVE  Turned(a)'
<1>0. TypeOK /\ Mail /\ Launched /\ Served /\ Relayed
  BY DEF ServerSound, LinkInv
<1>1. \A j \in JoinTasks : /\ Tried(j, a) => Tried(j, a)'
                           /\ Past(j, a) => Past(j, a)'
  BY <1>0, TasksGoOn
<1>2. TurnedAway(a) => TurnedAway(a)'
  BY <1>0, PutStays DEF TurnedAway
<1>3. TurnedAway(a)' \/ InGame(a)' => \E j \in JoinTasks : Past(j, a)'
  BY <1>1, TurnNow, EnterGame DEF Turned
<1>4. ASSUME TurnedAway(a)', InGame(a)' PROVE Pair(a)'
  <2>1. CASE ~TurnedAway(a)
    BY <1>4, <2>1, TurnNow
  <2>2. CASE TurnedAway(a) /\ InGame(a)
    BY <1>1, <2>2 DEF Turned, Pair
  <2>3. CASE TurnedAway(a) /\ ~InGame(a)
    <3>1. PICK j \in JoinTasks : joinTask[j].pc = "checked" /\ Past(j, a)'
      BY <1>4, <2>3, EnterGame
    <3>2. PICK k \in JoinTasks : Past(k, a)
      BY <2>3 DEF Turned
    <3>3. k # j /\ Past(k, a)'
      BY <1>1, <3>1, <3>2 DEF Past
    <3> QED
      BY <3>1, <3>3 DEF Pair, Past, Tried
  <2> QED
    BY <2>1, <2>2, <2>3
<1>5. ASSUME client'[a].pc = "refused" PROVE TurnedAway(a)'
  <2>0. client \in [Addrs -> ClientRecord] /\ client[a] \in ClientRecord
    BY <1>0 DEF Launched
  <2>1. CASE client[a].pc = "refused"
    BY <1>2, <2>1 DEF Turned
  <2>2. ASSUME HearAnswer(a), client[a].pc # "refused" PROVE TurnedAway(a)
    <3>1. client[a].pc = "joining"
      BY <2>2 DEF HearAnswer
    <3>2. PICK msg \in Heard(a) : msg.type = "error"
      <4>1. ClientStep(a, "joined") => client'[a].pc = "joined"
        BY <2>0 DEF ClientStep, ClientRecord
      <4>2. ClientStep(a, "mistaken") => client'[a].pc = "mistaken"
        BY <2>0 DEF ClientStep, ClientRecord
      <4> QED
        BY <1>5, <2>2, <4>1, <4>2 DEF HearAnswer
    <3>3. Put(a, msg) /\ msg \in Reliable \cup Welcome
      BY <1>0, <3>2 DEF Heard, Put, Mail
    <3>4. On(a) /\ msg.code \notin ChangeCodes
      <4>1. ASSUME HasJoined(client[a].player) PROVE FALSE
        <5>1. PICK b \in Addrs : client[b].player = client[a].player /\ client[b].pc \in {"joined", "left"}
          BY <4>1 DEF HasJoined
        <5> QED
          BY <1>0, <3>1, <5>1 DEF Launched, On
      <4> QED
        BY <3>2, <3>3, <4>1 DEF Errors
    <3>5. PICK code \in Turns : msg = Error(code)
      BY <3>2, <3>3, <3>4 DEF Reliable, Welcome, Error, Turns, ChangeCodes
    <3> QED
      BY <3>3, <3>5 DEF TurnedAway
  <2>3. ASSUME NEW b \in Addrs, b # a,
               HearAnswer(b) \/ GiveUp(b) \/ HearMessage(b) \/ HearDatagram(b) \/ Leave(b)
        PROVE  client'[a] = client[a]
    BY <1>0, <2>3, ClientMoves
  <2>4. ASSUME NEW b \in Addrs, Launch(b) PROVE client[a].pc = "refused"
    <3>1. CASE b = a
      BY <1>5, <2>0, <2>4, <3>1 DEF Launch, ClientRecord
    <3>2. CASE b # a
      BY <1>5, <2>0, <2>4, <3>2 DEF Launch
    <3> QED
      BY <3>1, <3>2
  <2>5. GiveUp(a) => client'[a].pc = "gave_up"
    BY <2>0 DEF GiveUp, ClientStep, ClientRecord
  <2>6. Leave(a) => client'[a].pc = "left"
    BY <2>0 DEF Leave, ClientStep, ClientRecord
  <2>7. ASSUME HearMessage(a) \/ HearDatagram(a) PROVE client'[a].pc = client[a].pc
    <3>1. PICK new : \/ client' = [client EXCEPT ![a].observed = new]
                     \/ client' = [client EXCEPT ![a].cooldownErrorSeen = new]
                     \/ client' = [client EXCEPT ![a].fromPlayers = new]
      BY <2>7 DEF HearMessage, HearDatagram
    <3> QED
      BY <2>0, <3>1 DEF ClientRecord
  <2>8. client[a].pc = "refused" \/ HearAnswer(a)
    BY <1>0, <1>5, <2>3, <2>4, <2>5, <2>6, <2>7, LinkCases
  <2> QED
    BY <1>2, <2>1, <2>2, <2>8
<1> QED
  BY <1>3, <1>4, <1>5 DEF Turned

LEMMA TurnedInit == LinkInit => Errors /\ \A a \in Addrs : Turned(a)
<1> SUFFICES ASSUME LinkInit PROVE Errors /\ \A a \in Addrs : Turned(a)
  OBVIOUS
<1>1. /\ \A a \in Addrs : client[a].pc = "off" /\ sent[a] = <<>>
      /\ \A p \in Players : channel[p] = <<>>
      /\ \A j \in JoinTasks : joinTask[j].pc = "idle"
      /\ \A c \in ParamTasks : paramTask[c].pc = "idle"
      /\ casts = {}
  BY DEF LinkInit, UdpInit, IdleJoin, IdleParam, NoClient
<1>2. /\ \A a \in Addrs : \A msg : ~Put(a, msg)
      /\ \A p \in Players : \A msg : ~Queued(p, msg)
  BY <1>1 DEF Put, Queued
<1>3. Errors
  BY <1>1, <1>2 DEF Errors, InCast
<1>4. ASSUME NEW a \in Addrs PROVE Turned(a)
  BY <1>1, <1>2 DEF Turned, TurnedAway, InGame, On, Active
<1> QED
  BY <1>3, <1>4

LEMMA TurnedAlways == LinkSpec => [](Errors /\ \A a \in Addrs : Turned(a))
<1> DEFINE I == Errors /\ \A a \in Addrs : Turned(a)
<1>1. ServerSound /\ LinkInv /\ I /\ [LinkNext]_linkVars => I'
  BY ErrorsStep, TurnedStep
<1>2. LinkInit => I
  BY TurnedInit
<1> QED
  BY <1>1, <1>2, LinkInvAlways, LinkSound, PTL DEF LinkSpec

-----------------------------------------------------------------------------
(* What clients are told of their parameters *)

\* p has been registered, once and for all.
Settled(p) == p \in drawnPlayers /\ \A t \in tickets \cup joining : t.player # p

\* From parameters v with the next change at time t, one cooldown for each step to h.
PaidFrom(v, t, h) == ParamDistance(v, h.params) * Cooldown <= h.nextChange - t

\* The change that is reported is the current one, or an older one.
Reported(msg) ==
  LET p == msg.player IN
  /\ Settled(p)
  /\ msg.params \in PlayerParams
  /\ \A n \in Matches : p \in players[n] =>
       /\ msg.next <= handle[n][p].nextChange
       /\ msg.next = handle[n][p].nextChange => msg.params = handle[n][p].params
       /\ PaidFrom(msg.params, msg.next, handle[n][p])

Changed(p) ==
  Settled(p) /\ \A n \in Matches : p \in players[n] => handle[n][p].nextChange # 0

\* A handle as it was, or with one more change made when the cooldown was over.
Drifts(h, k) ==
  \/ k.nextChange = h.nextChange /\ k.params = h.params
  \/ now >= h.nextChange /\ k.nextChange = now + Cooldown

LEMMA SettledStays ==
  ASSUME TypeOK, [Next]_vars, NEW p, Settled(p)
  PROVE  /\ Settled(p)'
         /\ \A n \in Matches : p \in players'[n] => p \in players[n] /\ Drifts(handle[n][p], handle'[n][p])
<1> USE DEF roomVars, drawnVars
<1> DEFINE Goal == /\ Settled(p)'
                   /\ \A n \in Matches : p \in players'[n] =>
                        p \in players[n] /\ Drifts(handle[n][p], handle'[n][p])
<1>0. p \in Players
  BY DEF Settled, TypeOK
<1>1. ASSUME UNCHANGED <<tickets, joining, drawnPlayers, players, handle>> PROVE Goal
  BY <1>1 DEF Settled, Drifts
<1>2. ASSUME NEW n \in Matches, CreateRoom(n) PROVE Goal
  BY <1>1, <1>2 DEF CreateRoom
<1>3. ASSUME NEW n \in Matches, NEW q \in Players, IssueJoinTicket(n, q) PROVE Goal
  <2>1. q # p /\ NewTicket(n, q).player = q
    BY <1>3 DEF IssueJoinTicket, Settled, NewTicket
  <2> QED
    BY <1>3, <2>1 DEF IssueJoinTicket, Settled, Drifts
<1>4. ASSUME NEW n \in Matches, StartRoom(n) PROVE Goal
  <2>1. UNCHANGED <<tickets, joining, drawnPlayers, players>>
    BY <1>4 DEF StartRoom, Startable
  <2>2. PICK colouring, orders : handle' = [handle EXCEPT ![n] = WithLayout(@, colouring, orders)]
    BY <1>4 DEF StartRoom, Startable
  <2>3. ASSUME NEW h \in [Players -> PlayerHandle], NEW q \in Players
        PROVE  /\ WithLayout(h, colouring, orders)[q].nextChange = h[q].nextChange
               /\ WithLayout(h, colouring, orders)[q].params = h[q].params
    BY DEF WithLayout, PlayerHandle
  <2>4. handle \in [Matches -> [Players -> PlayerHandle]]
    BY DEF TypeOK
  <2>5. \A k \in Matches : handle'[k] = handle[k] \/ handle'[k] = WithLayout(handle[k], colouring, orders)
    BY <2>2, <2>4
  <2>6. \A k \in Matches : /\ handle'[k][p].nextChange = handle[k][p].nextChange
                           /\ handle'[k][p].params = handle[k][p].params
    BY <1>0, <2>3, <2>4, <2>5
  <2> QED
    BY <2>1, <2>6 DEF Settled, Drifts
<1>5. ASSUME NEW n \in Matches, NEW q \in Players, FinishRoom(n, q) PROVE Goal
  BY <1>1, <1>5 DEF FinishRoom
<1>6. ASSUME NEW S \in SUBSET matches, DropRooms(S), UNCHANGED <<joining, drawnVars>> PROVE Goal
  <2>1. tickets' \subseteq tickets
    BY <1>6 DEF DropRooms, TicketsWithout
  <2>2. \A n \in Matches : p \in players'[n] => p \in players[n] /\ handle'[n] = handle[n]
    BY <1>6 DEF DropRooms, TicketsWithout
  <2> QED
    BY <1>6, <2>1, <2>2 DEF Settled, Drifts
<1>7. ASSUME NEW n \in Matches, DeleteRoom(n) PROVE Goal
  BY <1>6, <1>7 DEF DeleteRoom
<1>8. ASSUME NEW t \in tickets, ConsumeTicket(t) PROVE Goal
  <2>1. \A u \in tickets' \cup joining' : \E v \in tickets \cup joining : u.player = v.player
    BY <1>8 DEF ConsumeTicket
  <2> QED
    BY <1>8, <2>1 DEF ConsumeTicket, Settled, Drifts
<1>9. ASSUME NEW c \in joining, RegisterPlayer(c) PROVE Goal
  <2>1. joining' \subseteq joining /\ UNCHANGED <<tickets, drawnPlayers>> /\ c.player # p
    BY <1>9 DEF RegisterPlayer, Settled
  <2>2. CASE UNCHANGED <<players, handle>>
    BY <2>1, <2>2 DEF Settled, Drifts
  <2>3. ASSUME NEW new, players' = [players EXCEPT ![c.match] = @ \cup {c.player}],
               handle' = [handle EXCEPT ![c.match][c.player] = new]
        PROVE  Goal
    <3>1. \A n \in Matches : (p \in players'[n] => p \in players[n]) /\ handle'[n][p] = handle[n][p]
      BY <1>0, <2>1, <2>3 DEF TypeOK
    <3> QED
      BY <2>1, <3>1 DEF Settled, Drifts
  <2> HIDE DEF Goal
  <2> QED
    BY <1>9, <2>2, <2>3 DEF RegisterPlayer
<1>10. ASSUME NEW n \in Matches, NEW q \in Players, RemovePlayer(n, q) PROVE Goal
  <2>1. UNCHANGED <<tickets, joining, drawnPlayers>>
    BY <1>10 DEF RemovePlayer
  <2>2. \A k \in Matches : p \in players'[k] => p \in players[k] /\ handle'[k][p] = handle[k][p]
    <3>1. players' = [players EXCEPT ![n] = @ \ {q}] /\ handle' = [handle EXCEPT ![n][q] = NewHandle]
      BY <1>10 DEF RemovePlayer
    <3> QED
      BY <1>0, <3>1 DEF TypeOK
  <2> QED
    BY <2>1, <2>2 DEF Settled, Drifts
<1>11. ASSUME NEW n \in Matches, NEW q \in Players, NEW param \in Kinds,
              NEW direction \in ParamDirection, UpdatePlayerParams(n, q, param, direction)
       PROVE  Goal
  <2>1. UNCHANGED <<tickets, joining, drawnPlayers, players>>
    BY <1>11 DEF UpdatePlayerParams
  <2>2. now >= handle[n][q].nextChange
    BY <1>11 DEF UpdatePlayerParams, ChangeAccepted
  <2>3. /\ \A k \in Matches : ~(k = n /\ p = q) => handle'[k][p] = handle[k][p]
        /\ handle'[n][q].nextChange = now + Cooldown
    BY <1>0, <1>11 DEF UpdatePlayerParams, TypeOK, PlayerHandle, NextChangeAfter
  <2> QED
    BY <2>1, <2>2, <2>3 DEF Settled, Drifts
<1>12. ASSUME SweepBegin PROVE Goal
  BY <1>1, <1>12 DEF SweepBegin
<1>13. ASSUME SweepApply PROVE Goal
  BY <1>6, <1>13 DEF SweepApply, Stale
<1>14. ASSUME Tick PROVE Goal
  BY <1>1, <1>14 DEF Tick
<1>15. ASSUME UNCHANGED vars PROVE Goal
  BY <1>1, <1>15 DEF vars
<1> HIDE DEF Goal
<1>16. Goal
  BY <1>2, <1>3, <1>4, <1>5, <1>7, <1>8, <1>9, <1>10, <1>11, <1>12, <1>13, <1>14, <1>15 DEF Next
<1> QED
  BY <1>16 DEF Goal

\* Every change waits for the cooldown of the one before it.
LEMMA PaidStays ==
  ASSUME TypeOK, TypeOK', [Next]_vars, NEW n \in Matches, NEW p \in players[n], p \in players'[n],
         NEW v \in PlayerParams, NEW t \in Nat, t <= handle[n][p].nextChange,
         PaidFrom(v, t, handle[n][p])
  PROVE  PaidFrom(v, t, handle'[n][p])
<1>1. now \in Nat /\ Cooldown \in Nat /\ p \in Players
  BY ConstantTypes DEF TypeOK
<1>2. handle[n][p] \in PlayerHandle
  BY <1>1 DEF TypeOK
<1>3. Moved(n, p)
  BY HandleStep
<1>4. CASE SameParams(handle'[n][p], handle[n][p])
  BY <1>4 DEF SameParams, PaidFrom
<1>5. CASE ChangedTo(handle[n][p], handle'[n][p])
  <2> DEFINE h == handle[n][p]
             g == handle'[n][p]
  <2>1. h.nextChange \in Nat /\ h.nextChange <= now
    BY <1>2, <1>5, ConstantTypes DEF PlayerHandle, ChangedTo, ChangeAccepted
  <2>2. Paid(v, t, g) /\ g.nextChange = now + Cooldown
    BY <1>1, <1>2, <1>5, <2>1, ChangePays DEF Paid, PaidFrom
  <2>3. CASE ParamDistance(v, g.params) = 0
    BY <1>1, <2>1, <2>2, <2>3 DEF PaidFrom
  <2> QED
    BY <2>2, <2>3 DEF Paid, PaidFrom
<1> QED
  BY <1>3, <1>4, <1>5 DEF Moved, Enters

\* With a cooldown no two changes have the same time, so a report stays right.
LEMMA ReportStays ==
  ASSUME Cooldown > 0, TypeOK, TypeOK', [Next]_vars, NEW msg, msg.next \in Nat, Reported(msg)
  PROVE  Reported(msg)'
<1> DEFINE p == msg.player
<1>1. /\ Settled(p)'
      /\ \A n \in Matches : p \in players'[n] => p \in players[n] /\ Drifts(handle[n][p], handle'[n][p])
  BY SettledStays DEF Reported
<1>2. ASSUME NEW n \in Matches, p \in players'[n]
      PROVE  /\ msg.next <= handle'[n][p].nextChange
             /\ msg.next = handle'[n][p].nextChange => msg.params = handle'[n][p].params
             /\ PaidFrom(msg.params, msg.next, handle'[n][p])
  <2>1. p \in Players /\ now \in Nat /\ Cooldown \in Nat
    BY CooldownAssumption, ClockAssumption DEF TypeOK, Reported, Settled
  <2>2. handle[n][p].nextChange \in Nat
    <3>1. handle[n][p] \in PlayerHandle
      BY <2>1 DEF TypeOK
    <3>2. MaxTime + Cooldown \in Nat
      BY <2>1, ClockAssumption
    <3> QED
      BY <3>1, <3>2 DEF PlayerHandle
  <2>3. /\ msg.next <= handle[n][p].nextChange
        /\ msg.next = handle[n][p].nextChange => msg.params = handle[n][p].params
    BY <1>1, <1>2 DEF Reported
  <2> DEFINE Older == /\ msg.next <= handle'[n][p].nextChange
                      /\ msg.next = handle'[n][p].nextChange => msg.params = handle'[n][p].params
  <2>4. ASSUME now >= handle[n][p].nextChange, handle'[n][p].nextChange = now + Cooldown
        PROVE  Older
    BY <2>1, <2>2, <2>3, <2>4
  <2>5. ASSUME handle'[n][p].nextChange = handle[n][p].nextChange,
               handle'[n][p].params = handle[n][p].params
        PROVE  Older
    BY <2>3, <2>5
  <2>6. Older
    BY <1>1, <1>2, <2>4, <2>5 DEF Drifts
  <2>7. PaidFrom(msg.params, msg.next, handle'[n][p])
    BY <1>1, <1>2, <2>3, PaidStays DEF Reported
  <2> QED
    BY <2>6, <2>7
<1> QED
  BY <1>1, <1>2 DEF Reported

LEMMA ChangedStays ==
  ASSUME Cooldown > 0, TypeOK, [Next]_vars, NEW p, Changed(p)
  PROVE  Changed(p)'
<1>1. /\ Settled(p)'
      /\ \A n \in Matches : p \in players'[n] => p \in players[n] /\ Drifts(handle[n][p], handle'[n][p])
  BY SettledStays DEF Changed
<1>2. now \in Nat /\ Cooldown \in Nat
  BY CooldownAssumption, ClockAssumption DEF TypeOK
<1> QED
  BY <1>1, <1>2 DEF Changed, Drifts

\* Whoever is in a room holds no ticket and no claim, and is in no other room.
LEMMA SeatedSettled ==
  ASSUME TypeOK, SingleAdmission, NEW m \in Matches, NEW p \in players[m]
  PROVE  Settled(p) /\ \A n \in Matches : p \in players[n] => n = m
BY DEF TypeOK, SingleAdmission, Settled

Fact(p, msg) ==
  /\ msg.type = "param_applied" => Reported(msg)
  /\ msg = Error("cooldown_active") => Changed(p)

\* Whatever is under way is true, wherever it is, the errors still to be sent too.
Truths ==
  /\ \A c \in ParamTasks :
       paramTask[c].pc = "refused" => Fact(paramTask[c].player, paramTask[c].error)
  /\ \A msg : InCast(msg) /\ msg.type = "param_applied" => Reported(msg)
  /\ \A p \in Players : \A msg : Queued(p, msg) => Fact(p, msg)
  /\ \A a \in Addrs : \A msg : Put(a, msg) => Fact(client[a].player, msg)

LEMMA ReportsTyped ==
  ASSUME ServerSound, NEW msg, msg.type = "param_applied",
         \/ InCast(msg) \/ \E p \in Players : Queued(p, msg)
         \/ \E a \in Addrs : Put(a, msg)
  PROVE  msg.next \in Nat
<1>1. MaxTime + Cooldown \in Nat
  BY ClockAssumption, CooldownAssumption
<1>2. ASSUME msg \in Reliable \cup Welcome PROVE msg.next \in Nat
  BY <1>1, <1>2 DEF Reliable, Welcome
<1> DEFINE M == Reliable
           N == Reliable \cup Welcome
<1>3. casts \subseteq Cast /\ channel \in [Players -> Seq(M)] /\ sent \in [Addrs -> Seq(N)]
  BY DEF ServerSound, Mail, ChannelsTyped
<1>4. InCast(msg) => msg \in M
  BY <1>3 DEF InCast, Cast
<1>5. M \subseteq N
  OBVIOUS
<1>6. ASSUME NEW p \in Players, Queued(p, msg) PROVE msg \in M
  <2> HIDE DEF M
  <2> QED
    BY <1>3, <1>6 DEF Queued
<1>7. ASSUME NEW a \in Addrs, Put(a, msg) PROVE msg \in N
  <2> HIDE DEF N
  <2> QED
    BY <1>3, <1>7 DEF Put
<1> QED
  BY <1>2, <1>4, <1>5, <1>6, <1>7

\* An applied change is reported as it is, a declined one by whoever has changed.
LEMMA AppliesTrue ==
  ASSUME ServerSound, TypeOK', [Next]_vars, NEW c \in ParamTasks, NEW msg, Applies(c, msg)
  PROVE  Reported(msg)'
<1>1. PICK m \in Matches, p \in Players :
        p \in players[m] /\ msg = ParamApplied(m, p, handle'[m][p])
  <2> DEFINE m == paramTask[c].match
             p == paramTask[c].player
  <2>1. /\ m \in matches /\ p \in players[m]
        /\ msg = ParamApplied(m, p, handle'[m][p])
    <3>1. /\ UpdatePlayerParams(m, p, paramTask[c].param, paramTask[c].direction)
          /\ msg = ParamApplied(m, p, handle'[m][p])
      BY DEF Applies
    <3> HIDE DEF m, p
    <3>2. m \in matches /\ p \in players[m]
      BY <3>1 DEF UpdatePlayerParams
    <3> QED
      BY <3>1, <3>2
  <2>2. m \in Matches /\ p \in Players
    BY <2>1 DEF ServerSound, TypeOK
  <2> QED
    BY <2>1, <2>2
<1>2. Settled(p) /\ \A n \in Matches : p \in players[n] => n = m
  BY <1>1, SeatedSettled DEF ServerSound
<1>3. Settled(p)' /\ \A n \in Matches : p \in players'[n] => p \in players[n]
  BY <1>2, SettledStays DEF ServerSound
<1>4. handle'[m][p].nextChange \in Nat /\ handle'[m][p].params \in PlayerParams
  <2>1. handle'[m][p] \in PlayerHandle
    BY DEF TypeOK
  <2>2. MaxTime + Cooldown \in Nat
    BY ClockAssumption, CooldownAssumption
  <2> QED
    BY <2>1, <2>2 DEF PlayerHandle
<1>5. msg.player = p /\ msg.next = handle'[m][p].nextChange /\ msg.params = handle'[m][p].params
  BY <1>1 DEF ParamApplied
<1>6. PaidFrom(msg.params, msg.next, handle'[m][p])
  <2>1. ParamDistance(msg.params, handle'[m][p].params) = 0
    BY <1>4, <1>5, NoDistance
  <2> QED
    BY <1>4, <1>5, <2>1, ConstantTypes DEF PaidFrom
<1> QED
  BY <1>2, <1>3, <1>4, <1>5, <1>6 DEF Reported

\* A refused change was refused before, or is refused now for what is so now.
LEMMA RefusedNow ==
  ASSUME ServerSound, [UdpNext]_allVars, NEW c \in ParamTasks, paramTask'[c].pc = "refused"
  PROVE  \/ paramTask'[c] = paramTask[c]
         \/ /\ paramTask'[c].player = paramTask[c].player
            /\ paramTask'[c].error = ChangeError(paramTask[c].match, paramTask[c].player)
<1> DEFINE Goal == \/ paramTask'[c] = paramTask[c]
                   \/ /\ paramTask'[c].player = paramTask[c].player
                      /\ paramTask'[c].error = ChangeError(paramTask[c].match, paramTask[c].player)
<1>0. paramTask \in [ParamTasks -> {IdleParam} \cup Change]
  BY DEF ServerSound, Mail, ChangesTyped
<1>1. ASSUME UNCHANGED paramTask PROVE Goal
  BY <1>1
<1>2. ASSUME NEW d \in ParamTasks, UpdateStep(d) PROVE Goal
  <2>1. CASE d # c
    <3>1. \/ paramTask' = [paramTask EXCEPT ![d].pc = "done"]
          \/ \E e : paramTask' = [paramTask EXCEPT ![d].pc = "refused", ![d].error = e]
      BY <1>2 DEF UpdateStep
    <3> QED
      BY <1>0, <2>1, <3>1
  <2>2. CASE d = c
    <3> DEFINE e == ChangeError(paramTask[c].match, paramTask[c].player)
    <3>1. \/ paramTask' = [paramTask EXCEPT ![c].pc = "done"]
          \/ paramTask' = [paramTask EXCEPT ![c].pc = "refused", ![c].error = e]
      BY <1>2, <2>2 DEF UpdateStep
    <3>2. paramTask[c] \in Change
      BY <1>0, <1>2, <2>2 DEF UpdateStep, IdleParam
    <3> HIDE DEF e
    <3>3. CASE paramTask' = [paramTask EXCEPT ![c].pc = "done"]
      <4>1. paramTask'[c].pc = "done"
        BY <1>0, <3>2, <3>3 DEF Change
      <4> QED
        BY <4>1
    <3>4. CASE paramTask' = [paramTask EXCEPT ![c].pc = "refused", ![c].error = e]
      <4>1. paramTask'[c].player = paramTask[c].player /\ paramTask'[c].error = e
        BY <1>0, <3>2, <3>4 DEF Change
      <4> QED
        BY <4>1 DEF e
    <3> QED
      BY <3>1, <3>3, <3>4
  <2> QED
    BY <2>1, <2>2
<1>3. ASSUME NEW d \in ParamTasks, ReplyError(d) PROVE Goal
  <2>1. paramTask' = [paramTask EXCEPT ![d].pc = "done"] /\ paramTask[d] \in Change
    BY <1>0, <1>3 DEF ReplyError, IdleParam
  <2>2. CASE d = c
    <3>1. paramTask'[c].pc = "done"
      BY <1>0, <2>1, <2>2 DEF Change
    <3> QED
      BY <3>1
  <2>3. CASE d # c
    BY <1>0, <2>1, <2>3
  <2> QED
    BY <2>2, <2>3
<1>4. ASSUME NEW d \in ParamTasks, NEW a \in Addrs, NEW param \in Kinds,
             NEW direction \in ParamDirection, ReceiveParamChange(d, a, param, direction)
      PROVE  Goal
  <2> DEFINE r == [pc |-> "received", addr |-> a, player |-> session[a].player,
                   match |-> session[a].match, param |-> param, direction |-> direction,
                   error |-> None]
  <2>1. paramTask' = [paramTask EXCEPT ![d] = r]
    BY <1>4 DEF ReceiveParamChange
  <2>2. r.pc = "received"
    OBVIOUS
  <2> HIDE DEF r
  <2> QED
    BY <1>0, <2>1, <2>2
<1>5. ASSUME NEW j \in JoinTasks, JoinProgress(j) PROVE UNCHANGED paramTask
  BY <1>5 DEF JoinProgress, ConsumeStep, RegisterStep, InsertSession, SendJoinOk, RemoveSession,
     RemoveStep
<1>6. ASSUME ~\E d \in ParamTasks : UpdateStep(d) \/ ReplyError(d),
             ~\E d \in ParamTasks, a \in Addrs, param \in Kinds, direction \in ParamDirection :
                 ReceiveParamChange(d, a, param, direction),
             ~\E j \in JoinTasks : JoinProgress(j)
      PROVE  UNCHANGED paramTask
  BY <1>6 DEF UdpNext, ServerStep, OtherCore, StartStep, CastProgress, ReadTargets, CastOn,
     AbandonCast, Pump, ReceiveJoin, allVars, udpVars, taskVars
<1> HIDE DEF Goal
<1>7. Goal
  BY <1>1, <1>2, <1>3, <1>4, <1>5, <1>6
<1> QED
  BY <1>7 DEF Goal

\* Whoever is told of the cooldown has changed.
LEMMA RefusalTrue ==
  ASSUME ServerSound, NEW c \in ParamTasks,
         ChangeError(paramTask[c].match, paramTask[c].player) = Error("cooldown_active")
  PROVE  Changed(paramTask[c].player)
<1> DEFINE m == paramTask[c].match
           p == paramTask[c].player
<1>1. m \in matches /\ p \in players[m] /\ now < handle[m][p].nextChange
  BY DEF ChangeError, Error
<1>2. m \in Matches /\ p \in Players /\ now \in Nat
  BY <1>1, ClockAssumption DEF ServerSound, TypeOK
<1> HIDE DEF m, p
<1>3. Settled(p) /\ \A n \in Matches : p \in players[n] => n = m
  BY <1>1, <1>2, SeatedSettled DEF ServerSound
<1>4. handle[m][p].nextChange # 0
  BY <1>1, <1>2
<1> QED
  BY <1>3, <1>4 DEF Changed, p

LEMMA RefusalTyped ==
  ASSUME Mail, NEW c \in ParamTasks, paramTask[c].pc = "refused"
  PROVE  paramTask[c].error.type = "error"
<1>1. paramTask[c] \in Change
  BY DEF Mail, ChangesTyped, IdleParam
<1> QED
  BY <1>1, RefusalsReliable DEF ChangeErrors, Error

LEMMA TruthsStep ==
  ASSUME Cooldown > 0, ServerSound, TypeOK', LinkInv, Errors, Truths, [LinkNext]_linkVars
  PROVE  Truths'
<1>0. /\ TypeOK /\ Mail /\ TasksTyped /\ Launched /\ Relayed /\ Served
      /\ [UdpNext]_allVars /\ [Next]_vars /\ SameClients
  <2>1. /\ TypeOK /\ Mail /\ TasksTyped /\ Launched /\ Relayed /\ Served /\ [UdpNext]_allVars
    BY LinkStep DEF ServerSound, LinkInv
  <2> QED
    BY <2>1, CoreStep, ClientsSame DEF ServerSound
<1>1. ASSUME NEW msg, msg.type = "param_applied", Reported(msg),
             \/ InCast(msg) \/ \E p \in Players : Queued(p, msg)
             \/ \E a \in Addrs : Put(a, msg)
      PROVE  Reported(msg)'
  BY <1>0, <1>1, ReportsTyped, ReportStays
<1>2. ASSUME NEW msg, InCast(msg)', msg.type = "param_applied" PROVE Reported(msg)'
  <2>1. CASE InCast(msg)
    BY <1>1, <1>2, <2>1 DEF Truths
  <2>2. ASSUME NEW c \in ParamTasks, Applies(c, msg) PROVE Reported(msg)'
    BY <1>0, <2>2, AppliesTrue
  <2> QED
    BY <1>0, <1>2, <2>1, <2>2, CastFrom
<1>3. ASSUME NEW p \in Players, NEW msg, Queued(p, msg)' PROVE Fact(p, msg)'
  <2>1. CASE Queued(p, msg)
    <3>1. Fact(p, msg)
      BY <2>1 DEF Truths
    <3>2. msg.type = "param_applied" => Reported(msg)'
      BY <1>1, <2>1, <3>1 DEF Fact
    <3>3. Changed(p) => Changed(p)'
      BY <1>0, ChangedStays
    <3> QED
      BY <3>1, <3>2, <3>3 DEF Fact, Error
  <2>2. CASE InCast(msg)
    <3>1. msg # Error("cooldown_active")
      BY <2>2 DEF Errors, Error
    <3>2. msg.type = "param_applied" => Reported(msg)'
      BY <1>1, <2>2 DEF Truths
    <3> QED
      BY <3>1, <3>2 DEF Fact, Error
  <2>3. ASSUME NEW c \in ParamTasks, Declines(c, p, msg) PROVE Fact(p, msg)'
    <3>1. paramTask[c].pc = "refused" /\ p = paramTask[c].player /\ msg = paramTask[c].error
      BY <2>3 DEF Declines, ReplyError
    <3>2. msg = Error("cooldown_active") => Changed(p)
      BY <3>1 DEF Truths, Fact
    <3>3. msg.type # "param_applied"
      BY <1>0, <3>1, RefusalTyped
    <3>4. Changed(p) => Changed(p)'
      BY <1>0, ChangedStays
    <3> QED
      BY <3>2, <3>3, <3>4 DEF Fact, Error
  <2> QED
    BY <1>0, <1>3, <2>1, <2>2, <2>3, QueuedFrom
<1>4. ASSUME NEW a \in Addrs, NEW msg, Put(a, msg)', NEW p, p = client'[a].player
      PROVE  /\ msg.type = "param_applied" => Reported(msg)'
             /\ msg = Error("cooldown_active") => Changed(p)'
  <2>0. ASSUME NEW q, Changed(q) PROVE Changed(q)'
    BY <1>0, <2>0, ChangedStays
  <2>1. CASE Put(a, msg)
    <3>1. Fact(client[a].player, msg)
      BY <2>1 DEF Truths
    <3>2. msg.type = "param_applied" => Reported(msg)'
      BY <1>1, <2>1, <3>1 DEF Fact
    <3>3. ASSUME msg = Error("cooldown_active") PROVE Changed(p)'
      <4>1. client[a].player = p
        <5>1. On(a)
          BY <2>1, <3>3 DEF Errors, Error
        <5> QED
          BY <1>0, <1>4, <5>1 DEF SameClients
      <4> QED
        BY <2>0, <3>1, <3>3, <4>1 DEF Fact
    <3> QED
      BY <3>2, <3>3
  <2>2. CASE Pump(a) /\ Queued(session[a].player, msg)
    <3>1. session[a].player \in Players /\ On(a) /\ client[a].player = session[a].player
      BY <1>0, <2>2 DEF Pump, Served, Hosts, TasksTyped, Session
    <3>2. session[a].player = p
      BY <1>0, <1>4, <3>1 DEF SameClients
    <3>3. p \in Players /\ Queued(p, msg) /\ Fact(p, msg)
      BY <2>2, <3>1, <3>2 DEF Truths
    <3> QED
      BY <1>1, <2>0, <3>3 DEF Fact
  <2>3. ASSUME NEW j \in JoinTasks, TurnsAway(j, msg) \/ msg.type = "join_ok"
        PROVE  msg.type # "param_applied" /\ msg # Error("cooldown_active")
    BY <2>3 DEF TurnsAway, Error
  <2> QED
    BY <1>0, <1>4, <2>1, <2>2, <2>3, PutFrom
<1>5. ASSUME NEW a \in Addrs, NEW msg, Put(a, msg)' PROVE Fact(client[a].player, msg)'
  <2>1. PICK p : p = client'[a].player
    OBVIOUS
  <2> QED
    BY <1>4, <1>5, <2>1 DEF Fact, Error, Changed, Settled
<1>6. ASSUME NEW c \in ParamTasks, paramTask'[c].pc = "refused"
      PROVE  Fact(paramTask[c].player, paramTask[c].error)'
  <2>1. paramTask'[c].error.type = "error"
    <3>1. Mail' /\ ChangesTyped'
      BY <1>0, MailStep DEF Mail
    <3>2. paramTask'[c] \in Change
      BY <1>6, <3>1 DEF ChangesTyped, IdleParam
    <3> QED
      BY <1>6, <3>2, RefusalsReliable DEF ChangeErrors, Error
  <2>2. paramTask'[c].error = Error("cooldown_active") => Changed(paramTask[c].player)
    <3>1. CASE paramTask'[c] = paramTask[c]
      BY <1>6, <3>1 DEF Truths, Fact
    <3>2. CASE paramTask'[c].error = ChangeError(paramTask[c].match, paramTask[c].player)
      BY <3>2, RefusalTrue
    <3> QED
      BY <1>0, <1>6, <3>1, <3>2, RefusedNow
  <2>3. paramTask'[c].player = paramTask[c].player
    BY <1>0, <1>6, RefusedNow
  <2>4. PICK p : p = paramTask'[c].player
    OBVIOUS
  <2>5. Changed(p) => Changed(p)'
    BY <1>0, ChangedStays
  <2>6. paramTask'[c].error = Error("cooldown_active") => Changed(p)'
    BY <2>2, <2>3, <2>4, <2>5
  <2> QED
    BY <2>1, <2>4, <2>6 DEF Fact, Error, Changed, Settled
<1> QED
  BY <1>2, <1>3, <1>5, <1>6 DEF Truths

\* What a client remembers was sent to it.
Remembers(a) ==
  /\ client[a].observed # None => \E msg :
       /\ Put(a, msg) /\ msg.type = "param_applied" /\ msg.player = client[a].player
       /\ client[a].observed = [params |-> msg.params, next |-> msg.next]
  /\ client[a].cooldownErrorSeen => Put(a, Error("cooldown_active"))
  /\ client[a].observed # None \/ client[a].cooldownErrorSeen => On(a)

\* Where the memory of a client comes from.
LEMMA MemoryFrom ==
  ASSUME Launched, TypeOK, [LinkNext]_linkVars, NEW a \in Addrs
  PROVE  /\ \/ client'[a].observed = client[a].observed
            \/ client'[a].observed = None
            \/ \E msg : /\ Put(a, msg) /\ msg.type = "param_applied"
                        /\ msg.player = client[a].player /\ On(a)
                        /\ client'[a].observed = [params |-> msg.params, next |-> msg.next]
         /\ \/ client'[a].cooldownErrorSeen = client[a].cooldownErrorSeen
            \/ Put(a, Error("cooldown_active")) /\ On(a)
<1> DEFINE Goal ==
         /\ \/ client'[a].observed = client[a].observed
            \/ client'[a].observed = None
            \/ \E msg : /\ Put(a, msg) /\ msg.type = "param_applied"
                        /\ msg.player = client[a].player /\ On(a)
                        /\ client'[a].observed = [params |-> msg.params, next |-> msg.next]
         /\ \/ client'[a].cooldownErrorSeen = client[a].cooldownErrorSeen
            \/ Put(a, Error("cooldown_active")) /\ On(a)
<1>0. client \in [Addrs -> ClientRecord]
  BY DEF Launched
<1>1. ASSUME client'[a].observed = client[a].observed,
             client'[a].cooldownErrorSeen = client[a].cooldownErrorSeen
      PROVE  Goal
  BY <1>1
<1>2. ASSUME UNCHANGED client PROVE Goal
  BY <1>1, <1>2
<1>3. ASSUME NEW b \in Addrs, Launch(b) PROVE Goal
  <2>1. PICK t \in tickets :
          /\ \A c \in Addrs : client[c].player # t.player
          /\ client' = [client EXCEPT ![b].pc = "joining", ![b].player = t.player,
                                      ![b].match = t.match]
    BY <1>3, Zenon DEF Launch
  <2>2. /\ client'[a].observed = client[a].observed
        /\ client'[a].cooldownErrorSeen = client[a].cooldownErrorSeen
    BY <1>0, <2>1 DEF ClientRecord
  <2> QED
    BY <1>1, <2>2
<1>4. ASSUME NEW b \in Addrs, HearAnswer(b) \/ GiveUp(b) \/ Leave(b) PROVE Goal
  <2>1. PICK pc : client' = [client EXCEPT ![b].pc = pc]
    BY <1>4 DEF HearAnswer, GiveUp, Leave, ClientStep
  <2> QED
    BY <1>0, <1>1, <2>1 DEF ClientRecord
<1>5. ASSUME NEW b \in Addrs, HearDatagram(b) PROVE Goal
  <2>1. PICK S : client' = [client EXCEPT ![b].fromPlayers = S]
    BY <1>5 DEF HearDatagram
  <2> QED
    BY <1>0, <1>1, <2>1 DEF ClientRecord
<1>6. ASSUME NEW b \in Addrs, HearMessage(b) PROVE Goal
  <2>1. CASE a # b
    <3>1. client'[a] = client[a]
      BY <1>0, <1>6, <2>1 DEF HearMessage
    <3> QED
      BY <1>1, <3>1
  <2>2. CASE a = b
    <3>1. client[a].pc = "joined" /\ On(a)
      BY <1>6, <2>2 DEF HearMessage, On
    <3>2. PICK msg \in Heard(a) :
            \/ /\ msg.type = "param_applied" /\ msg.player = client[a].player
               /\ client' = [client EXCEPT ![a].observed = [params |-> msg.params, next |-> msg.next]]
            \/ /\ msg = Error("cooldown_active")
               /\ client' = [client EXCEPT ![a].cooldownErrorSeen = TRUE]
      BY <1>6, <2>2 DEF HearMessage
    <3>3. Put(a, msg)
      BY <3>2 DEF Heard, Put
    <3>4. CASE /\ msg.type = "param_applied" /\ msg.player = client[a].player
               /\ client' = [client EXCEPT ![a].observed = [params |-> msg.params, next |-> msg.next]]
      <4>1. /\ client'[a].observed = [params |-> msg.params, next |-> msg.next]
            /\ client'[a].cooldownErrorSeen = client[a].cooldownErrorSeen
        BY <1>0, <3>4 DEF ClientRecord
      <4> QED
        BY <3>1, <3>3, <3>4, <4>1
    <3>5. CASE /\ msg = Error("cooldown_active")
               /\ client' = [client EXCEPT ![a].cooldownErrorSeen = TRUE]
      <4>1. client'[a].observed = client[a].observed
        BY <1>0, <3>5 DEF ClientRecord
      <4> QED
        BY <3>1, <3>3, <3>5, <4>1
    <3> HIDE DEF Goal
    <3> QED
      BY <3>2, <3>4, <3>5
  <2> HIDE DEF Goal
  <2> QED
    BY <2>1, <2>2
<1> HIDE DEF Goal
<1>7. Goal
  BY <1>2, <1>3, <1>4, <1>5, <1>6, LinkCases
<1> QED
  BY <1>7 DEF Goal

LEMMA RemembersStep ==
  ASSUME ServerSound, LinkInv, [LinkNext]_linkVars, NEW a \in Addrs, Remembers(a)
  PROVE  Remembers(a)'
<1>0. /\ TypeOK /\ Launched /\ Served
      /\ On(a) => On(a)' /\ client'[a].player = client[a].player
  BY ClientsSame DEF ServerSound, LinkInv, SameClients, On
<1>1. \A msg : Put(a, msg) => Put(a, msg)'
  BY <1>0, PutStays
<1>2. ASSUME client'[a].observed # None
      PROVE  On(a)' /\ \E msg :
               /\ Put(a, msg)' /\ msg.type = "param_applied" /\ msg.player = client'[a].player
               /\ client'[a].observed = [params |-> msg.params, next |-> msg.next]
  <2>1. PICK msg : /\ Put(a, msg) /\ msg.type = "param_applied" /\ msg.player = client[a].player
                   /\ On(a) /\ client'[a].observed = [params |-> msg.params, next |-> msg.next]
    BY <1>0, <1>2, MemoryFrom DEF Remembers
  <2> QED
    BY <1>0, <1>1, <2>1
<1>3. ASSUME client'[a].cooldownErrorSeen
      PROVE  On(a)' /\ Put(a, Error("cooldown_active"))'
  <2>1. Put(a, Error("cooldown_active")) /\ On(a)
    BY <1>0, <1>3, MemoryFrom DEF Remembers
  <2>2. PICK x : x = Error("cooldown_active")
    OBVIOUS
  <2>3. Put(a, x)'
    BY <1>1, <2>1, <2>2
  <2> QED
    BY <1>0, <2>1, <2>2, <2>3 DEF Error
<1> QED
  BY <1>2, <1>3 DEF Remembers, Error

LEMMA TruthsInit == LinkInit => Truths /\ \A a \in Addrs : Remembers(a)
<1> SUFFICES ASSUME LinkInit PROVE Truths /\ \A a \in Addrs : Remembers(a)
  OBVIOUS
<1>1. /\ \A a \in Addrs : client[a] = NoClient /\ sent[a] = <<>>
      /\ \A p \in Players : channel[p] = <<>>
      /\ casts = {}
      /\ \A c \in ParamTasks : paramTask[c].pc = "idle"
  BY DEF LinkInit, UdpInit, IdleParam
<1>2. /\ \A a \in Addrs : \A msg : ~Put(a, msg)
      /\ \A p \in Players : \A msg : ~Queued(p, msg)
      /\ \A msg : ~InCast(msg)
  BY <1>1 DEF Put, Queued, InCast
<1> QED
  BY <1>1, <1>2 DEF Truths, Remembers, NoClient

LEMMA TruthsAlways ==
  ASSUME Cooldown > 0 PROVE LinkSpec => [](Truths /\ \A a \in Addrs : Remembers(a))
<1> DEFINE I == Truths /\ \A a \in Addrs : Remembers(a)
           L == Errors /\ \A a \in Addrs : Turned(a)
<1>1. ServerSound /\ ServerSound' /\ LinkInv /\ L /\ I /\ [LinkNext]_linkVars => I'
  BY TruthsStep, RemembersStep DEF ServerSound
<1>2. LinkInit => I
  BY TruthsInit
<1>3. LinkSpec => []L
  BY TurnedAlways
<1> QED
  BY <1>1, <1>2, <1>3, LinkInvAlways, LinkSound, PTL DEF LinkSpec

-----------------------------------------------------------------------------
(* Who is in a room is answered, or being attended to *)

Answered(a) == \E i \in DOMAIN sent[a] : sent[a][i].type = "join_ok"

\* A task is between the registration and the end of its join.
Attends(j, a) ==
  joinTask[j].addr = a /\ joinTask[j].pc \in {"registered", "inserted", "failed", "removing"}

Attended(a) == On(a) /\ Seated(a) => Answered(a) \/ \E j \in JoinTasks : Attends(j, a)

\* A client comes into its room by a registration that its own task makes.
LEMMA NewlySeated ==
  ASSUME ServerSound, LinkInv, [LinkNext]_linkVars, NEW a \in Addrs,
         (On(a) /\ Seated(a))', ~(On(a) /\ Seated(a))
  PROVE  \E j \in JoinTasks : Attends(j, a)'
<1> DEFINE m == client[a].match
           p == client[a].player
<1>0. /\ TypeOK /\ SingleAdmission /\ Launched /\ Relayed /\ Served /\ Mail /\ TasksTyped
      /\ client \in [Addrs -> ClientRecord]
  BY DEF ServerSound, LinkInv, Launched
<1>1. [UdpNext]_allVars /\ UNCHANGED client
  <2>1. ASSUME UNCHANGED allVars, client'[a] = client[a] PROVE FALSE
    BY <2>1 DEF On, Seated, allVars, vars, roomVars
  <2>2. ASSUME NEW b \in Addrs, UNCHANGED allVars,
               HearAnswer(b) \/ GiveUp(b) \/ HearMessage(b) \/ HearDatagram(b) \/ Leave(b)
        PROVE  FALSE
    <3>1. /\ On(b) /\ client'[b].player = client[b].player /\ client'[b].match = client[b].match
          /\ \A c \in Addrs : c # b => client'[c] = client[c]
      BY <1>0, <2>2, ClientMoves
    <3> QED
      BY <2>1, <2>2, <3>1 DEF On, Seated, allVars, vars, roomVars
  <2>3. ASSUME NEW b \in Addrs, Launch(b) PROVE FALSE
    <3>1. PICK t \in tickets :
            client' = [client EXCEPT ![b].pc = "joining", ![b].player = t.player,
                                     ![b].match = t.match]
      BY <2>3 DEF Launch
    <3>2. UNCHANGED allVars
      BY <2>3 DEF Launch
    <3>3. CASE b # a
      BY <1>0, <2>1, <3>1, <3>2, <3>3
    <3>4. CASE b = a
      <4>1. client'[a].player = t.player /\ client'[a].match = t.match /\ t.match \in Matches
        BY <1>0, <3>1, <3>4 DEF ClientRecord, TypeOK, Ticket
      <4>2. t.player \notin players[t.match] /\ UNCHANGED players
        BY <1>0, <3>2, <4>1 DEF SingleAdmission, allVars, vars, roomVars
      <4> QED
        BY <4>1, <4>2 DEF Seated
    <3> QED
      BY <3>3, <3>4
  <2>4. ASSUME UNCHANGED <<allVars, client>> PROVE FALSE
    BY <2>1, <2>4
  <2> QED
    BY <1>0, <2>2, <2>3, <2>4, LinkCases
<1>2. On(a) /\ m \in matches' /\ p \in players'[m] /\ ~(m \in matches /\ p \in players[m])
  BY <1>1 DEF On, Seated
<1>3. TypeOK'
  BY <1>0, <1>1, CoreStep, TypeStep DEF ServerSound
<1>4. m \in Matches /\ p \notin players[m]
  BY <1>0, <1>2, <1>3 DEF TypeOK
<1>5. PICK j \in JoinTasks : RegisterStep(j) /\ joinTask[j].player = p
  BY <1>1, <1>2, <1>4, Newcomer
<1>6. JoinProgress(j)
  BY <1>5 DEF JoinProgress
<1>7. Effect(j)
  BY <1>0, <1>6, JoinEffect
<1>8. joinTask[j].addr = a
  <2> DEFINE b == joinTask[j].addr
  <2>1. joinTask[j].pc # "idle" /\ b \in Addrs
    BY <1>5, <1>7 DEF Effect, RegisterStep, JoinAt
  <2>2. On(b) /\ client[b].player = p
    BY <1>0, <1>5, <2>1 DEF Served, Serves
  <2>3. On(a)
    BY <1>2
  <2> HIDE DEF b
  <2>4. b = a
    BY <1>0, <2>1, <2>2, <2>3 DEF Launched
  <2> QED
    BY <2>4 DEF b
<1>9. JoinStep(j, "registered")
  <2>1. CASE ~Admissible(joinTask[j].match, joinTask[j].player)
    <3>1. UNCHANGED players
      BY <1>5, <2>1 DEF RegisterStep, RegisterPlayer
    <3> QED
      BY <1>2, <1>4, <3>1
  <2> QED
    BY <1>5, <2>1 DEF RegisterStep
<1> QED
  BY <1>0, <1>7, <1>8, <1>9 DEF JoinStep, Attends, Effect, TasksTyped, JoinTask

\* The task goes on attending to its client, or answers it, or takes it out again.
LEMMA StillAttended ==
  ASSUME ServerSound, LinkInv, [LinkNext]_linkVars, NEW a \in Addrs, (On(a) /\ Seated(a))',
         On(a) /\ Seated(a), NEW j \in JoinTasks, Attends(j, a)
  PROVE  Answered(a)' \/ Attends(j, a)'
<1>0. /\ TypeOK /\ Launched /\ Served /\ Mail /\ TasksTyped /\ [UdpNext]_allVars
      /\ joinTask \in [JoinTasks -> JoinTask]
  BY LinkStep DEF ServerSound, LinkInv, TasksTyped
<1>1. CASE joinTask'[j] = joinTask[j]
  BY <1>1 DEF Attends
<1>2. CASE joinTask'[j] # joinTask[j]
  <2>1. JoinProgress(j)
    BY <1>0, <1>2, OwnSteps DEF Attends, JoinAt
  <2>2. UNCHANGED client
    <3>1. ~UNCHANGED allVars
      BY <1>2 DEF allVars, udpVars, taskVars
    <3> QED
      BY <1>0, <3>1, LinkCases
  <2>3. Effect(j)
    BY <1>0, <2>1, JoinEffect
  <2>4. joinTask'[j].addr = a
    BY <2>3 DEF Effect, Attends
  <2>5. CASE InsertSession(j)
    BY <1>0, <2>4, <2>5 DEF InsertSession, SessionOf, JoinStep, Attends, JoinTask
  <2>6. CASE SendJoinOk(j)
    <3>1. CASE JoinStep(j, "failed")
      BY <1>0, <2>4, <3>1 DEF JoinStep, Attends, JoinTask
    <3>2. CASE Transmit(joinTask[j].addr, JoinOk(joinTask[j].match, joinTask[j].player))
      <4> DEFINE msg == JoinOk(joinTask[j].match, joinTask[j].player)
                 s == sent[a]
      <4>1. s \in Seq(Reliable \cup Welcome) /\ sent' = [sent EXCEPT ![a] = Append(s, msg)]
            /\ a \in DOMAIN sent
        BY <1>0, <3>2 DEF Mail, Transmit, Attends
      <4>2. sent'[a] = Append(s, msg) /\ msg.type = "join_ok"
        BY <4>1 DEF JoinOk
      <4>3. Len(s) + 1 \in DOMAIN Append(s, msg) /\ Append(s, msg)[Len(s) + 1] = msg
        <5> HIDE DEF s, msg
        <5> QED
          BY <4>1
      <4> QED
        BY <4>2, <4>3 DEF Answered
    <3> QED
      BY <2>6, <3>1, <3>2 DEF SendJoinOk
  <2>7. CASE RemoveSession(j)
    <3>1. session[a] # None
      BY <1>0, <2>7 DEF RemoveSession, JoinAt, Served, Serves, Attends
    <3>2. joinTask' = [joinTask EXCEPT ![j].pc = "removing",
                                       ![j].match = session[a].match,
                                       ![j].player = session[a].player]
      BY <2>7, <3>1 DEF RemoveSession, Attends
    <3>3. joinTask'[j].pc = "removing"
      BY <1>0, <3>2 DEF JoinTask
    <3> QED
      BY <2>4, <3>3 DEF Attends
  <2>8. CASE RemoveStep(j)
    <3> DEFINE m == client[a].match
               p == client[a].player
    <3>1. joinTask[j].match = m /\ joinTask[j].player = p
      BY <1>0 DEF Attends, Served, Serves, Active
    <3>2. m \in matches' /\ p \in players'[m]
      BY <2>2 DEF Seated
    <3>3. RemovePlayer(m, p) \/ (m \notin matches /\ UNCHANGED vars)
      BY <2>8, <3>1 DEF RemoveStep
    <3>4. CASE RemovePlayer(m, p)
      BY <1>0, <3>2, <3>4 DEF RemovePlayer, TypeOK
    <3> QED
      BY <3>2, <3>3, <3>4 DEF vars, roomVars
  <2>9. ~ConsumeStep(j) /\ ~RegisterStep(j)
    BY DEF ConsumeStep, RegisterStep, JoinAt, Attends
  <2> QED
    BY <2>1, <2>5, <2>6, <2>7, <2>8, <2>9 DEF JoinProgress
<1> QED
  BY <1>1, <1>2

-----------------------------------------------------------------------------
(* The theorems *)

\* A client that was told join_ok is in its room, with its session and its address,
\* for as long as the room exists, whatever became of copies of its join datagram
\* (udp_connection.rs, handle_join; test-client, run_one_client).
THEOREM JoinedAlwaysSeated == LinkSpec => []JoinedIsSeated
<1>1. ServerSound /\ LinkInv => JoinedIsSeated
  <2> SUFFICES ASSUME ServerSound, LinkInv, NEW a \in Addrs
               PROVE  /\ client[a].pc # "mistaken"
                      /\ client[a].pc \in {"joined", "left"} /\ client[a].match \in matches =>
                           /\ Seated(a)
                           /\ session[a] = [match |-> client[a].match, player |-> client[a].player]
                           /\ connection[client[a].player] = a
    BY DEF JoinedIsSeated
  <2>1. client[a].pc # "mistaken"
    BY DEF LinkInv, Believes
  <2>2. ASSUME client[a].pc \in {"joined", "left"}, client[a].match \in matches
        PROVE  /\ Seated(a)
               /\ session[a] = [match |-> client[a].match, player |-> client[a].player]
               /\ connection[client[a].player] = a
    <3>1. /\ session[a] # None /\ On(a)
          /\ session[a].match = client[a].match /\ session[a].player = client[a].player
      BY <2>2 DEF LinkInv, Believes, Served, Welcomed, Hosts
    <3>2. client[a].player \in players[client[a].match] /\ client[a].match \in Matches
      BY <2>2, <3>1 DEF ServerSound, Keepers, Backed, TypeOK
    <3>3. session[a] = [match |-> client[a].match, player |-> client[a].player]
      BY <3>1 DEF ServerSound, TasksTyped, Session
    <3>4. connection[client[a].player] = a
      BY <3>1, <3>2 DEF LinkInv, Connected, Launched
    <3> QED
      BY <2>2, <3>2, <3>3, <3>4 DEF Seated
  <2> QED
    BY <2>1, <2>2
<1> QED
  BY <1>1, LinkInvAlways, LinkSound, PTL

\* A relayed datagram reaches the sender's room only, and a position never comes
\* back to its sender (udp_connection.rs, handle_unreliable_message; room.rs,
\* broadcast_datagram_udp).
THEOREM RelayAlwaysInRoom == LinkSpec => []RelayStaysInRoom
<1>1. LinkInv => RelayStaysInRoom
  BY DEF LinkInv, Relayed, Addressed, SawOthers, RelayStaysInRoom
<1> QED
  BY <1>1, LinkInvAlways, PTL

\* A client that was refused has no place in its room, unless the network repeated
\* its join datagram (udp_connection.rs, handle_join's two refusals).
THEOREM RefusedAlwaysOut == LinkSpec => []RefusedIsOut
<1>1. (\A a \in Addrs : Turned(a)) => RefusedIsOut
  BY DEF Turned, InGame, On, Pair, Tried, RefusedIsOut, JoinTasksOf
<1> QED
  BY <1>1, TurnedAlways, PTL

\* What a client last heard of its own parameters is current if its time is, and older
\* otherwise, and a cooldown error is drawn only after an applied change, whatever was
\* lost, repeated or reordered (room.rs, broadcasts after the lock).  The cooldown,
\* which the code sets to 7 s (magicnums.rs), tells two changes apart.
THEOREM ObservationsStaySound == ASSUME Cooldown > 0 PROVE LinkSpec => []ObservationsSound
<1> DEFINE I == Truths /\ \A a \in Addrs : Remembers(a)
<1>1. ServerSound /\ I => ObservationsSound
  <2> SUFFICES ASSUME ServerSound, I, NEW a \in Addrs, Seated(a), NEW m, m = client[a].match,
                      NEW p, p = client[a].player
               PROVE  /\ client[a].observed # None =>
                           /\ client[a].observed.next <= handle[m][p].nextChange
                           /\ client[a].observed.next = handle[m][p].nextChange
                                => client[a].observed.params = handle[m][p].params
                      /\ client[a].cooldownErrorSeen => handle[m][p].nextChange # 0
    BY DEF ObservationsSound
  <2>1. m \in Matches /\ p \in players[m]
    BY DEF Seated, ServerSound, TypeOK
  <2>2. ASSUME client[a].observed # None
        PROVE  /\ client[a].observed.next <= handle[m][p].nextChange
               /\ client[a].observed.next = handle[m][p].nextChange
                    => client[a].observed.params = handle[m][p].params
    <3>1. PICK msg : /\ Put(a, msg) /\ msg.type = "param_applied" /\ msg.player = p
                     /\ client[a].observed = [params |-> msg.params, next |-> msg.next]
      BY <2>2 DEF Remembers
    <3>2. Reported(msg)
      BY <3>1 DEF Truths, Fact
    <3> QED
      BY <2>1, <3>1, <3>2 DEF Reported
  <2>3. ASSUME client[a].cooldownErrorSeen PROVE handle[m][p].nextChange # 0
    <3>1. Changed(p)
      BY <2>3 DEF Remembers, Truths, Fact
    <3> QED
      BY <2>1, <3>1 DEF Changed
  <2> QED
    BY <2>2, <2>3
<1>2. LinkSpec => []I
  BY TruthsAlways
<1> QED
  BY <1>1, <1>2, LinkSound, PTL

\* Between the change a client last heard of and the latest, its parameters have moved by
\* a step per cooldown at most, however many changes it asked for, at once or of different
\* parameters, and whatever was lost or reordered (params.rs, apply_param_change).
THEOREM ChangesKeepPace == ASSUME Cooldown > 0 PROVE LinkSpec => []ChangesInPace
<1> DEFINE I == Truths /\ \A a \in Addrs : Remembers(a)
<1>1. ServerSound /\ I => ChangesInPace
  <2> SUFFICES ASSUME ServerSound, I, NEW a \in Addrs, Seated(a), NEW m, m = client[a].match,
                      NEW p, p = client[a].player, client[a].observed # None
               PROVE  PaidFrom(client[a].observed.params, client[a].observed.next, handle[m][p])
    BY DEF ChangesInPace, PaidFrom
  <2>1. m \in Matches /\ p \in players[m]
    BY DEF Seated, ServerSound, TypeOK
  <2>2. PICK msg : /\ Put(a, msg) /\ msg.type = "param_applied" /\ msg.player = p
                   /\ client[a].observed = [params |-> msg.params, next |-> msg.next]
    BY DEF Remembers
  <2>3. Reported(msg)
    BY <2>2 DEF Truths, Fact
  <2> QED
    BY <2>1, <2>2, <2>3 DEF Reported
<1>2. LinkSpec => []I
  BY TruthsAlways
<1> QED
  BY <1>1, <1>2, LinkSound, PTL

\* Nobody is in a room unanswered once the joins have ended
\* (udp_connection.rs, handle_join and remove_client).
THEOREM SeatedAlwaysAnswered == LinkSpec => []SeatedIsAnswered
<1> DEFINE I == \A a \in Addrs : Attended(a)
<1>1. LinkInit => I
  BY DEF LinkInit, NoClient, Attended, On
<1>2. ServerSound /\ LinkInv /\ I /\ [LinkNext]_linkVars => I'
  <2> SUFFICES ASSUME ServerSound, LinkInv, I, [LinkNext]_linkVars, NEW a \in Addrs,
                      (On(a) /\ Seated(a))'
               PROVE  Answered(a)' \/ \E j \in JoinTasks : Attends(j, a)'
    BY DEF Attended
  <2>1. Answered(a) => Answered(a)'
    BY SentGrows DEF Answered, LinkInv
  <2> QED
    BY <2>1, NewlySeated, StillAttended DEF Attended
<1>3. I => SeatedIsAnswered
  <2>1. ASSUME NEW a \in Addrs, Answered(a) PROVE \E msg \in Heard(a) : msg.type = "join_ok"
    BY <2>1 DEF Answered, Heard
  <2> QED
    BY <2>1 DEF SeatedIsAnswered, Attended, Attends, On, JoinTasksOf, JoinAt
<1> QED
  BY <1>1, <1>2, <1>3, LinkInvAlways, LinkSound, PTL DEF LinkSpec

\* The joins of real clients end, and lobbies nobody uses are swept, whatever the
\* clients and the network do (udp_connection.rs, handle_join; cleanup.rs).
THEOREM LinkGoesOn ==
  LinkSpec /\ LinkFairness /\ []ReadyJoinsCanStep /\ []CleanupCanStep
    => JoinEnds /\ ExpiredLobbySwept
<1>1. LinkSpec => UdpSpec /\ Spec
  BY LinkImplementsUdp, UdpImplementsControlPlane, PTL DEF ImplementsControlPlane
<1>2. LinkFairness => UdpFairness /\ SweepFairness
  BY DEF LinkFairness
<1> QED
  BY <1>1, <1>2, JoinsAlwaysEnd, LobbiesAreSwept, PTL

\* Joins of real clients over a bad network keep what the core and the channels
\* promise: the lives of matches, who is admitted, and who is told of a start as far as
\* sends to the address do not fail
\* (player.rs, room.rs, udp_connection.rs, handle_join).
THEOREM PromisesKept ==
  LinkSpec => ImplementsLifecycle /\ ImplementsAdmission /\ OutForGood /\ []StartNeverLost
<1>1. LinkSpec => UdpSpec /\ Spec
  BY LinkImplementsUdp, UdpImplementsControlPlane, PTL DEF ImplementsControlPlane
<1> QED
  BY <1>1, LifecycleImplemented, AdmissionImplemented, StartIsNeverLost, PTL
=============================================================================
