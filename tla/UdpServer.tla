----------------------------- MODULE UdpServer ------------------------------
(***************************************************************************)
(* The UDP side of the realtime server (udp_connection.rs) on top of the   *)
(* control plane: one task per received datagram, a registry of sessions   *)
(* by address behind a mutex of its own, one bounded channel of reliable   *)
(* messages per player, and the pump that empties the channels of the      *)
(* registered sessions onto the socket.                                    *)
(*                                                                         *)
(* A task holds one lock at a time and takes several in turn; each action  *)
(* is the part of a task between two of its awaits.  A broadcast reads its *)
(* receivers under the core lock and sends after releasing it.             *)
(***************************************************************************)
EXTENDS ControlPlane

CONSTANTS
  Addrs,            \* client socket addresses
  JoinTasks,        \* join datagrams, each handled by a task
  ParamTasks,       \* param_change datagrams, each handled by a task
  ChannelCapacity,  \* mpsc::channel(1024)
  Hangups,          \* may callers of start_room go away before its answer?
  FailingAddrs,     \* addresses at which send_to may return an error
  None

ASSUME ChannelAssumption == ChannelCapacity \in Nat \ {0}
ASSUME HangupAssumption == Hangups \in BOOLEAN
ASSUME FailingAssumption == FailingAddrs \subseteq Addrs

VARIABLES
  session,     \* per address, the ClientSession or None
  connection,  \* per player, the address stored in its PlayerHandle
  channel,     \* per player, reliable messages sent but not yet pumped
  joinTask,    \* per join datagram, where its task stands
  paramTask,   \* per param_change datagram, where its task stands
  casts,       \* reliable broadcasts in progress
  sent         \* per address, reliable packets put on the socket so far

taskVars == <<joinTask, paramTask, casts>>
udpVars == <<session, connection, channel, taskVars, sent>>
allVars == <<vars, udpVars>>

-----------------------------------------------------------------------------
(* Data *)

Session == [match : Matches, player : Players]
ASSUME NoneAssumption == None \notin Session

\* Reliable messages; what no property tells apart is left out.
JoinOk(m, p) == [type |-> "join_ok", match |-> m, player |-> p]
MatchStarted(m, layout) == [type |-> "match_started", match |-> m, layout |-> layout]
ParamApplied(m, p, h) == [type |-> "param_applied", match |-> m, player |-> p,
                          params |-> h.params, next |-> h.nextChange]
Error(code) == [type |-> "error", code |-> code]

IdleJoin == [pc |-> "idle", addr |-> None, player |-> None, match |-> None]
IdleParam == [pc |-> "idle", addr |-> None, player |-> None, match |-> None,
              param |-> None, direction |-> None, error |-> None]

JoinAt(j, pc) == joinTask[j].pc = pc
JoinStep(j, pc) == joinTask' = [joinTask EXCEPT ![j].pc = pc]

\* The receiving half lives in the joining task until the session takes it.
HasReceiver(p) ==
  \/ \E a \in Addrs : session[a] # None /\ session[a].player = p
  \/ \E j \in JoinTasks : JoinAt(j, "registered") /\ joinTask[j].player = p

\* Mutant: try_send, a full channel loses the message.
TryEnqueue(p, msg) ==
  channel' = IF HasReceiver(p) /\ Len(channel[p]) < ChannelCapacity
             THEN [channel EXCEPT ![p] = Append(@, msg)] ELSE channel

\* mpsc send: it waits for room, and a closed channel swallows the message.
Enqueue(p, msg) ==
  IF HasReceiver(p)
  THEN /\ Len(channel[p]) < ChannelCapacity
       /\ channel' = [channel EXCEPT ![p] = Append(@, msg)]
  ELSE UNCHANGED channel

\* A session that leaves the registry takes its receiver along.
CloseChannelOf(a) ==
  channel' = IF session[a] = None THEN channel
             ELSE [channel EXCEPT ![session[a].player] = <<>>]

Transmit(a, msg) == sent' = [sent EXCEPT ![a] = Append(@, msg)]

\* A send_to whose result nobody looks at: when it fails, the message is lost.
Deliver(a, msg) == Transmit(a, msg) \/ (a \in FailingAddrs /\ UNCHANGED sent)

-----------------------------------------------------------------------------
UdpInit ==
  /\ Init
  /\ session = [a \in Addrs |-> None]
  /\ connection = [p \in Players |-> None]
  /\ channel = [p \in Players |-> <<>>]
  /\ joinTask = [j \in JoinTasks |-> IdleJoin]
  /\ paramTask = [c \in ParamTasks |-> IdleParam]
  /\ casts = {}
  /\ sent = [a \in Addrs |-> <<>>]

-----------------------------------------------------------------------------
(* handle_join, step by step *)

\* The registry check; an address with a session gets no answer at all.
ReceiveJoin(j, a, p) ==
  /\ JoinAt(j, "idle")
  /\ p \in drawnPlayers
  /\ session[a] = None
  /\ joinTask' = [joinTask EXCEPT ![j] =
                    [pc |-> "checked", addr |-> a, player |-> p, match |-> None]]
  /\ UNCHANGED <<vars, session, connection, channel, paramTask, casts, sent>>

\* A task that answers with an error is over, whether or not the answer goes out.
Refuse(j, code) == JoinStep(j, "done") /\ Deliver(joinTask[j].addr, Error(code))

\* Mutant: the task looks its ticket up and leaves it in the table.
ConsumeStepByLookup(j) ==
  /\ JoinAt(j, "checked")
  /\ \E t \in tickets :
       /\ t.player = joinTask[j].player
       /\ t.expires >= now
       /\ joining' = joining \cup {[player |-> t.player, match |-> t.match]}
       /\ joinTask' = [joinTask EXCEPT ![j].pc = "claimed", ![j].match = t.match]
  /\ UNCHANGED <<roomVars, tickets, now, sweepAt, drawnVars, session, connection,
                 channel, paramTask, casts, sent>>

ConsumeStep(j) ==
  /\ JoinAt(j, "checked")
  /\ \/ \E t \in tickets :
          /\ t.player = joinTask[j].player
          /\ ConsumeTicket(t)
          /\ \/ /\ t.expires >= now
                /\ joinTask' = [joinTask EXCEPT ![j].pc = "claimed",
                                                ![j].match = t.match]
                /\ UNCHANGED sent
             \/ t.expires < now /\ Refuse(j, "auth_failed")
     \/ /\ \A t \in tickets : t.player # joinTask[j].player
        /\ Refuse(j, "auth_failed")
        /\ UNCHANGED vars
  /\ UNCHANGED <<session, connection, channel, paramTask, casts>>

\* Mutant: a player who takes the last place is told that the room is full.
RegisterStepFull(j) ==
  LET p == joinTask[j].player  m == joinTask[j].match
      welcome == Admissible(m, p) /\ Cardinality(players[m]) + 1 < MaxPlayers IN
  /\ JoinAt(j, "claimed")
  /\ RegisterPlayer([player |-> p, match |-> m])
  /\ connection' = [connection EXCEPT ![p] = joinTask[j].addr]
  /\ \/ welcome /\ JoinStep(j, "registered") /\ UNCHANGED sent
     \/ ~welcome /\ Refuse(j, "join_failed")
  /\ UNCHANGED <<session, channel, paramTask, casts>>

RegisterStep(j) ==
  LET p == joinTask[j].player  m == joinTask[j].match IN
  /\ JoinAt(j, "claimed")
  /\ RegisterPlayer([player |-> p, match |-> m])
  /\ \/ /\ Admissible(m, p)
        /\ JoinStep(j, "registered")
        /\ connection' = [connection EXCEPT ![p] = joinTask[j].addr]
        /\ UNCHANGED sent
     \/ /\ ~Admissible(m, p)
        /\ Refuse(j, "join_failed")
        /\ UNCHANGED connection
  /\ UNCHANGED <<session, channel, paramTask, casts>>

\* Mutant: the two id strings of the session are swapped.
SessionSwapped(j) == [match |-> joinTask[j].player, player |-> joinTask[j].match]

SessionOf(j) == [match |-> joinTask[j].match, player |-> joinTask[j].player]

\* The insertion overwrites whatever session the address has by now.
InsertSession(j) ==
  LET a == joinTask[j].addr IN
  /\ JoinAt(j, "registered")
  /\ session' = [session EXCEPT ![a] = SessionOf(j)]
  /\ CloseChannelOf(a)
  /\ JoinStep(j, "inserted")
  /\ UNCHANGED <<vars, connection, paramTask, casts, sent>>

\* JoinOk goes straight to the socket, past the player's channel; this one result
\* is looked at.
SendJoinOk(j) ==
  LET a == joinTask[j].addr IN
  /\ JoinAt(j, "inserted")
  /\ \/ /\ Transmit(a, JoinOk(joinTask[j].match, joinTask[j].player))
        /\ JoinStep(j, "done")
     \/ /\ a \in FailingAddrs
        /\ JoinStep(j, "failed")
        /\ UNCHANGED sent
  /\ UNCHANGED <<vars, session, connection, channel, paramTask, casts>>

\* Mutant: remove_client stops after the registry, the player stays in the room.
ForgetPlayer(j) ==
  LET a == joinTask[j].addr IN
  /\ JoinAt(j, "failed")
  /\ session' = [session EXCEPT ![a] = None]
  /\ CloseChannelOf(a)
  /\ JoinStep(j, "done")
  /\ UNCHANGED <<vars, connection, paramTask, casts, sent>>

\* remove_client takes the session the address has now out of the registry.
RemoveSession(j) ==
  LET a == joinTask[j].addr IN
  /\ JoinAt(j, "failed")
  /\ session' = [session EXCEPT ![a] = None]
  /\ CloseChannelOf(a)
  /\ IF session[a] = None
     THEN JoinStep(j, "done")
     ELSE joinTask' = [joinTask EXCEPT ![j].pc = "removing",
                                       ![j].match = session[a].match,
                                       ![j].player = session[a].player]
  /\ UNCHANGED <<vars, connection, paramTask, casts, sent>>

RemoveStep(j) ==
  LET p == joinTask[j].player  m == joinTask[j].match IN
  /\ JoinAt(j, "removing")
  /\ JoinStep(j, "done")
  /\ \/ RemovePlayer(m, p)
     \/ m \notin matches /\ UNCHANGED vars
  /\ UNCHANGED <<session, connection, channel, paramTask, casts, sent>>

-----------------------------------------------------------------------------
(* handle_param_change *)

\* The registry lookup; a datagram from an address without session is dropped.
ReceiveParamChange(c, a, param, direction) ==
  /\ paramTask[c].pc = "idle"
  /\ session[a] # None
  /\ paramTask' = [paramTask EXCEPT ![c] =
       [pc |-> "received", addr |-> a, player |-> session[a].player,
        match |-> session[a].match, param |-> param, direction |-> direction,
        error |-> None]]
  /\ UNCHANGED <<vars, session, connection, channel, joinTask, casts, sent>>

\* A broadcast that has not read its receivers yet.
NewCast(m, msg) == [match |-> m, msg |-> msg, to |-> None, rest |-> {}]

\* A broadcast goes on with one of S, or is over.
Onward(b, S) ==
  casts' \in IF S = {} THEN {casts \ {b}}
            ELSE {(casts \ {b}) \cup {[b EXCEPT !.to = p, !.rest = S \ {p}]} : p \in S}

\* The error is told apart by what its message starts with.
ChangeError(m, p) ==
  Error(IF m \in matches /\ p \in players[m] /\ now < handle[m][p].nextChange
        THEN "cooldown_active" ELSE "param_update_failed")

\* update_player_params decides; a change that is applied is broadcast.
UpdateStep(c) ==
  LET task == paramTask[c]
      m == task.match  p == task.player IN
  /\ task.pc = "received"
  /\ \/ /\ UpdatePlayerParams(m, p, task.param, task.direction)
        /\ casts' = casts \cup {NewCast(m, ParamApplied(m, p, handle'[m][p]))}
        /\ paramTask' = [paramTask EXCEPT ![c].pc = "done"]
     \/ /\ m \in matches /\ p \in players[m]
             => ~ChangeAccepted(handle[m][p].params, handle[m][p].nextChange,
                                task.param, task.direction, now)
        /\ paramTask' = [paramTask EXCEPT ![c].pc = "refused",
                                          ![c].error = ChangeError(m, p)]
        /\ UNCHANGED <<vars, casts>>
  /\ UNCHANGED <<session, connection, channel, joinTask, sent>>

\* The error goes through the channel, which may be full for a while.
ReplyError(c) ==
  /\ paramTask[c].pc = "refused"
  /\ Enqueue(paramTask[c].player, paramTask[c].error)
  /\ paramTask' = [paramTask EXCEPT ![c].pc = "done"]
  /\ UNCHANGED <<vars, session, connection, joinTask, casts, sent>>

-----------------------------------------------------------------------------
(* Broadcasts and the pump *)

\* start_room: the layout is read under the lock, the broadcast comes after it.
StartStep(m) ==
  /\ StartRoom(m)
  /\ LET layout == [p \in players[m] |-> handle'[m][p].colour] IN
     casts' = casts \cup {NewCast(m, MatchStarted(m, layout))}
  /\ UNCHANGED <<session, connection, channel, joinTask, paramTask, sent>>

\* broadcast_reliable_udp takes the senders of the players there are now.
ReadTargets(b) ==
  /\ b.to = None
  /\ Onward(b, IF b.match \in matches THEN players[b.match] ELSE {})
  /\ UNCHANGED <<vars, session, connection, channel, joinTask, paramTask, sent>>

\* Senders are served one after the other: a full channel holds up the rest.
CastOn(b) ==
  /\ b.to # None
  /\ Enqueue(b.to, b.msg)
  /\ Onward(b, b.rest)
  /\ UNCHANGED <<vars, session, connection, joinTask, paramTask, sent>>

\* The start's broadcast is part of the gRPC handler: when the caller hangs up, the
\* handler is dropped at the await it has come to, and the rest is never sent.
AbandonCast(b) ==
  /\ Hangups
  /\ b.msg.type = "match_started"
  /\ casts' = casts \ {b}
  /\ UNCHANGED <<vars, session, connection, channel, joinTask, paramTask, sent>>

\* One turn of the pump's inner loop, which empties the channels of the registered
\* sessions: a message is taken out and sent, or lost when that fails.
Pump(a) ==
  /\ session[a] # None
  /\ LET p == session[a].player IN
     /\ channel[p] # <<>>
     /\ Deliver(a, Head(channel[p]))
     /\ channel' = [channel EXCEPT ![p] = Tail(@)]
  /\ UNCHANGED <<vars, session, connection, joinTask, paramTask, casts>>

-----------------------------------------------------------------------------
(* Control-plane critical sections that touch nothing here *)

OtherCore ==
  /\ \/ \E m \in Matches : CreateRoom(m) \/ DeleteRoom(m)
     \/ \E m \in Matches, p \in Players : IssueJoinTicket(m, p) \/ FinishRoom(m, p)
     \/ SweepBegin
     \/ SweepApply
     \/ Tick
  /\ UNCHANGED udpVars

JoinProgress(j) ==
  \/ ConsumeStep(j) \/ RegisterStep(j) \/ InsertSession(j)
  \/ SendJoinOk(j) \/ RemoveSession(j) \/ RemoveStep(j)

CastProgress == \E b \in casts : ReadTargets(b) \/ CastOn(b)

\* Whatever is not the receipt of a datagram.
ServerStep ==
  \/ OtherCore
  \/ \E m \in Matches : StartStep(m)
  \/ \E j \in JoinTasks : JoinProgress(j)
  \/ \E c \in ParamTasks : UpdateStep(c) \/ ReplyError(c)
  \/ CastProgress
  \/ \E b \in casts : AbandonCast(b)
  \/ \E a \in Addrs : Pump(a)

UdpNext ==
  \/ ServerStep
  \/ \E j \in JoinTasks, a \in Addrs, p \in Players : ReceiveJoin(j, a, p)
  \/ \E c \in ParamTasks, a \in Addrs, param \in Kinds, direction \in ParamDirection :
        ReceiveParamChange(c, a, param, direction)

UdpSpec == UdpInit /\ [][UdpNext]_allVars

\* Tasks run on, the pump loop comes round, and both mutexes are fair.
JoinFairness(j) == WF_allVars(JoinProgress(j))
PumpFairness(a) == WF_allVars(Pump(a))
CastFairness == WF_allVars(CastProgress)

UdpFairness ==
  /\ \A j \in JoinTasks : JoinFairness(j)
  /\ \A a \in Addrs : PumpFairness(a)
  /\ CastFairness

FairUdpSpec == UdpSpec /\ UdpFairness

-----------------------------------------------------------------------------
(* Safety *)

Sessions == {session[a] : a \in Addrs} \ {None}

Messages == {msg \in (UNION {{channel[p][i] : i \in DOMAIN channel[p]} : p \in Players})
                     \cup (UNION {{sent[a][i] : i \in DOMAIN sent[a]} : a \in Addrs})
                     \cup {b.msg : b \in casts} : msg.type = "match_started"}

Welcome == [type : {"join_ok"}, match : Matches, player : Players]

Layouts == UNION {[S -> Colours \cup {NoColour}] : S \in SUBSET Players}

ChangeErrors == {Error("cooldown_active"), Error("param_update_failed")}

\* What goes through the channels, and the errors of handle_join.
Reliable ==
  [type : {"match_started"}, match : Matches, layout : Layouts]
    \cup [type : {"param_applied"}, match : Matches, player : Players,
          params : PlayerParams, next : 0 .. MaxTime + Cooldown]
    \cup [type : {"error"}, code : {"auth_failed", "join_failed", "cooldown_active",
                                    "param_update_failed"}]

Cast == [match : Matches, msg : Reliable, to : Players \cup {None}, rest : SUBSET Players]

\* What the receipt of a param_change leaves a task with, and how it goes on.
Change ==
  [pc : {"received", "done"}, addr : Addrs, player : Players, match : Matches,
   param : Kinds, direction : ParamDirection, error : {None}]
    \cup [pc : {"refused", "done"}, addr : Addrs, player : Players, match : Matches,
          param : Kinds, direction : ParamDirection, error : ChangeErrors]

\* The types of the UDP side: what a task remembers depends on how far it is, no
\* channel holds more than its capacity, join_ok never goes through a channel or a
\* broadcast, and what is told of a player's parameters or of a layout is one that
\* can be (ClientSession, ServerReliable, the senders and the pump).
UdpTypeOK ==
  /\ session \in [Addrs -> Session \cup {None}]
  /\ connection \in [Players -> Addrs \cup {None}]
  /\ channel \in [Players -> Seq(Reliable)]
  /\ \A p \in Players : Len(channel[p]) <= ChannelCapacity
  /\ casts \subseteq Cast
  /\ sent \in [Addrs -> Seq(Reliable \cup Welcome)]
  /\ \A j \in JoinTasks :
       \/ joinTask[j] = IdleJoin
       \/ joinTask[j] \in [pc : {"checked", "done"}, addr : Addrs, player : Players,
                           match : Matches \cup {None}]
       \/ joinTask[j] \in [pc : {"claimed", "registered", "inserted", "failed", "removing"},
                           addr : Addrs, player : Players, match : Matches]
  /\ \A c \in ParamTasks : paramTask[c] = IdleParam \/ paramTask[c] \in Change

\* A consumed ticket is in the hands of exactly one join task until that task
\* registers or refuses its player: a duplicated join datagram, whose task waits
\* for the same ticket, never shares it.
ClaimsHeld ==
  /\ joining = {[player |-> joinTask[j].player, match |-> joinTask[j].match] :
                   j \in {k \in JoinTasks : JoinAt(k, "claimed")}}
  /\ \A j, k \in JoinTasks :
       j # k /\ joinTask[j].pc \in {"claimed", "registered"}
             /\ joinTask[k].pc \in {"claimed", "registered"}
          => joinTask[j].player # joinTask[k].player

\* A session stands for a registered player for as long as its room exists, and
\* for no player another address has a session for.
SessionsAreBacked ==
  /\ \A s \in Sessions : s.match \in matches => s.player \in players[s.match]
  /\ \A a, b \in Addrs : a # b /\ session[a] # None /\ session[b] # None
                           => session[a].player # session[b].player

\* A match_started packet, however long it has been under way, tells the layout
\* the room has: everyone it lists who is still there has the colour it says,
\* and whoever it does not list has none.
LayoutAsAnnounced ==
  \A msg \in Messages : msg.match \in matches =>
    \A p \in players[msg.match] :
      handle[msg.match][p].colour =
        IF p \in DOMAIN msg.layout THEN msg.layout[p] ELSE NoColour

-----------------------------------------------------------------------------
(* Liveness *)

IsStart(msg, m) == msg.type = "match_started" /\ msg.match = m

ToldOfStart(a, m) ==
  \E i \in DOMAIN sent[a] : IsStart(sent[a][i], m)

\* The broadcast of a start has not come to p yet, or has filled p's channel.
StartDue(p, m) ==
  \/ \E i \in DOMAIN channel[p] : IsStart(channel[p][i], m)
  \/ \E b \in casts : IsStart(b.msg, m) /\ (b.to = None \/ p \in b.rest \cup {b.to})

\* No match_started is lost on its way but by a send that fails, however full the
\* channels are and whoever joins or leaves meanwhile: whoever has a session and was
\* dealt a colour at the start has it on the socket, in the channel or in a broadcast,
\* unless the caller of the start hung up (start_room, broadcast_reliable_udp).
StartNeverLost ==
  ~Hangups =>
    \A a \in Addrs \ FailingAddrs, m \in matches, p \in Players :
      session[a] = [match |-> m, player |-> p] /\ handle[m][p].colour # NoColour
        => ToldOfStart(a, m) \/ StartDue(p, m)

ToldAfterJoin(a, m) ==
  \E i, k \in DOMAIN sent[a] :
    i < k /\ sent[a][i].type = "join_ok"
          /\ sent[a][k].type = "match_started" /\ sent[a][k].match = m

Busy(j) == joinTask[j].pc \notin {"idle", "done"}

\* What is in a channel can be taken out: the pump waits for nothing else.
PumpCanStep ==
  \A a \in Addrs : session[a] # None /\ channel[session[a].player] # <<>>
                     => ENABLED <<Pump(a)>>_allVars

\* A join that reached the server comes to an end.
JoinEnds == \A j \in JoinTasks : Busy(j) ~> JoinAt(j, "done")

\* In room m, which has started, player p has a session and a colour; a has not been
\* sent match_started.
Untold(a, m, p) ==
  /\ session[a] = [match |-> m, player |-> p]
  /\ m \in matches /\ handle[m][p].colour # NoColour
  /\ ~ToldOfStart(a, m)

\* docs/matchmaking-api.md:166, "connected realtime clients also receive a
\* match_started reliable message": whoever has a session in a room when it starts
\* is sent match_started, unless the session or the room goes first, however full
\* the channels are, if sends to the address do not fail.
StartReachesSessions ==
  \A a \in Addrs \ FailingAddrs, m \in Matches, p \in Players :
    Untold(a, m, p) ~> ~Untold(a, m, p)

-----------------------------------------------------------------------------
(* Refinement *)

\* Whatever the UDP tasks do to the core state is what ControlPlane allows.
ImplementsControlPlane == Spec

-----------------------------------------------------------------------------
(* What documents and comments say, and the code does not do *)

\* udp_connection.rs:152, "Check if already connected": an address has at most one
\* registered player.
OnePlayerPerAddress ==
  \A m, n \in matches : \A p \in players[m], q \in players[n] :
    p # q => connection[p] # connection[q]

\* docs/udp-realtime-protocol-ja.md:191-195: a client may join after the start; it
\* receives join_ok, and then match_started.
LateJoinerIsTold ==
  \A a \in Addrs, m \in Matches, p \in Players :
    LET Waiting == /\ session[a] = [match |-> m, player |-> p]
                   /\ m \in matches /\ Started(m)
                   /\ ~ToldAfterJoin(a, m) IN
    Waiting ~> ~Waiting

\* docs/matchmaking-api.md:222: a player who finished can finish again and is told
\* the same rank, so whoever is ranked is still found in the room.
FinishIsRepeatable == \A m \in matches : Finishers(m) \subseteq players[m]
=============================================================================
