----------------------------- MODULE ClientLink -----------------------------
(***************************************************************************)
(* The clients of the UDP server (test-client/src/main.rs and              *)
(* bin/remote-rtt.rs), the network between them and the server, and the    *)
(* relay of unreliable datagrams (udp_connection.rs, room.rs).             *)
(*                                                                         *)
(* The network loses, repeats, delays and reorders.  What a client has     *)
(* sent follows from how far it is, and may reach the server at any time   *)
(* after that, any number of times or never; of what the server put on the *)
(* socket for it, a client hears anything at any time.                     *)
(***************************************************************************)
EXTENDS UdpServer

CONSTANT RelayTasks   \* unreliable datagrams, each handled by a task

VARIABLES
  client,    \* per address, the program that owns the socket
  relayTask  \* per unreliable datagram, where its task stands

linkVars == <<allVars, client, relayTask>>

-----------------------------------------------------------------------------
(* Data *)

\* player and match are what the HTTP join answered, the rest is ClientStats.
NoClient == [pc |-> "off", player |-> None, match |-> None, observed |-> None,
             cooldownErrorSeen |-> FALSE, fromPlayers |-> {}]

IdleRelay == [pc |-> "idle", type |-> None, player |-> None, match |-> None, to |-> {}]

Unreliable == {"pos", "stage_progress"}

Heard(a) == {sent[a][i] : i \in DOMAIN sent[a]}

\* Clients go on sending until they stop; what is under way arrives later still.
MayHaveSent(a) == client[a].pc \in {"joined", "left"}

LinkInit ==
  /\ UdpInit
  /\ client = [a \in Addrs |-> NoClient]
  /\ relayTask = [r \in RelayTasks |-> IdleRelay]

-----------------------------------------------------------------------------
(* run_one_client, and connect_and_join of remote-rtt *)

ClientStep(a, pc) == client' = [client EXCEPT ![a].pc = pc]

\* With a token in hand, bind a socket and send join, once.
Launch(a) ==
  /\ client[a].pc = "off"
  /\ \E t \in tickets :
       /\ \A b \in Addrs : client[b].player # t.player
       /\ client' = [client EXCEPT ![a].pc = "joining", ![a].player = t.player,
                                   ![a].match = t.match]
  /\ UNCHANGED <<allVars, relayTask>>

\* Waiting for the answer; match_started and param_applied are thrown away.
HearAnswer(a) ==
  /\ client[a].pc = "joining"
  /\ \E msg \in Heard(a) :
       \/ /\ msg.type = "join_ok"
          /\ ClientStep(a, IF msg.player = client[a].player THEN "joined" ELSE "mistaken")
       \/ msg.type = "error" /\ ClientStep(a, "refused")
  /\ UNCHANGED <<allVars, relayTask>>

\* remote-rtt waits ten seconds; the test client has no timeout.
GiveUp(a) ==
  /\ client[a].pc = "joining"
  /\ ClientStep(a, "gave_up")
  /\ UNCHANGED <<allVars, relayTask>>

\* The reader and the tick loop: a client's own changes and cooldown errors.
HearMessage(a) ==
  /\ client[a].pc = "joined"
  /\ \E msg \in Heard(a) :
       \/ /\ msg.type = "param_applied"
          /\ msg.player = client[a].player
          /\ client' = [client EXCEPT ![a].observed = [params |-> msg.params,
                                                       next   |-> msg.next]]
       \/ /\ msg = Error("cooldown_active")
          /\ client' = [client EXCEPT ![a].cooldownErrorSeen = TRUE]
  /\ UNCHANGED <<allVars, relayTask>>

\* These clients understand pos only.
HearDatagram(a) ==
  /\ client[a].pc = "joined"
  /\ \E r \in RelayTasks :
       /\ a \in relayTask[r].to
       /\ relayTask[r].type = "pos"
       /\ client' = [client EXCEPT ![a].fromPlayers = @ \cup {relayTask[r].player}]
  /\ UNCHANGED <<allVars, relayTask>>

\* The ticks are over.  Nothing tells the server.
Leave(a) ==
  /\ client[a].pc = "joined"
  /\ ClientStep(a, "left")
  /\ UNCHANGED <<allVars, relayTask>>

-----------------------------------------------------------------------------
(* The relay: handle_unreliable_message *)

\* Without a session the datagram is dropped.
ReceiveDatagram(r, a, type) ==
  /\ relayTask[r].pc = "idle"
  /\ MayHaveSent(a)
  /\ session[a] # None
  /\ relayTask' = [relayTask EXCEPT ![r] =
       [pc |-> "received", type |-> type, player |-> session[a].player,
        match |-> session[a].match, to |-> {}]]
  /\ UNCHANGED <<allVars, client>>

\* Mutant: whoever has a connection receives it, whatever the room.
ReceiversAnywhere(type, m, p) ==
  UNION {players[n] : n \in matches} \ (IF type = "pos" THEN {p} ELSE {})

\* pos goes to the others of the room, stage_progress to everyone in it.
Receivers(type, m, p) ==
  IF m \in matches THEN players[m] \ (IF type = "pos" THEN {p} ELSE {}) ELSE {}

\* broadcast_datagram_udp reads the addresses under the lock, and then sends.
Relay(r) ==
  LET task == relayTask[r] IN
  /\ task.pc = "received"
  /\ relayTask' = [relayTask EXCEPT ![r].pc = "done",
       ![r].to = {connection[p] : p \in Receivers(task.type, task.match, task.player)}]
  /\ UNCHANGED <<allVars, client>>

-----------------------------------------------------------------------------
ServerAlone == ServerStep /\ UNCHANGED <<client, relayTask>>

\* A join datagram names the token of the client that sent it.
JoinArrives(j, a) ==
  /\ client[a].pc # "off"
  /\ ReceiveJoin(j, a, client[a].player)
  /\ UNCHANGED <<client, relayTask>>

ChangeArrives(c, a, param, direction) ==
  /\ MayHaveSent(a)
  /\ ReceiveParamChange(c, a, param, direction)
  /\ UNCHANGED <<client, relayTask>>

LinkNext ==
  \/ ServerAlone
  \/ \E j \in JoinTasks, a \in Addrs : JoinArrives(j, a)
  \/ \E c \in ParamTasks, a \in Addrs, param \in Kinds, direction \in ParamDirection :
        ChangeArrives(c, a, param, direction)
  \/ \E a \in Addrs : Launch(a) \/ HearAnswer(a) \/ GiveUp(a) \/ HearMessage(a)
                        \/ HearDatagram(a) \/ Leave(a)
  \/ \E r \in RelayTasks, a \in Addrs, type \in Unreliable : ReceiveDatagram(r, a, type)
  \/ \E r \in RelayTasks : Relay(r)

\* Nothing is assumed of the clients and of the network.
LinkSpec == LinkInit /\ [][LinkNext]_linkVars
LinkFairness == UdpFairness /\ SweepFairness
FairLinkSpec == LinkSpec /\ LinkFairness

-----------------------------------------------------------------------------
(* Safety *)

Seated(a) == client[a].match \in matches /\ client[a].player \in players[client[a].match]

JoinTasksOf(a) == {j \in JoinTasks : joinTask[j].addr = a}

\* A client that counts itself in is in its room and has its session for as long as
\* the room exists, although its join may have arrived twice and one of the copies
\* may have failed; and no client is taken for another (run_one_client's
\* "joined with unexpected player_id" never happens).
JoinedIsSeated ==
  \A a \in Addrs :
    /\ client[a].pc # "mistaken"
    /\ client[a].pc \in {"joined", "left"} /\ client[a].match \in matches =>
         /\ Seated(a)
         /\ session[a] = [match |-> client[a].match, player |-> client[a].player]
         /\ connection[client[a].player] = a

\* A client that was refused is not in the room, unless its join datagram was
\* repeated by the network: then the copy that came too late draws auth_failed for a
\* client that is in (handle_join).
RefusedIsOut ==
  \A a \in Addrs :
    client[a].pc = "refused" /\ Seated(a) => \E j, k \in JoinTasksOf(a) : j # k

\* A relayed datagram is sent to clients of the sender's room only, and a pos never
\* back to its sender, whatever joins, failed joins and closings did to the room
\* between the lookup of the session and that of the addresses.
RelayStaysInRoom ==
  /\ \A r \in RelayTasks : \A a \in relayTask[r].to :
       /\ client[a].match = relayTask[r].match
       /\ relayTask[r].type = "pos" => client[a].player # relayTask[r].player
  /\ \A a \in Addrs : \A p \in client[a].fromPlayers :
       \E b \in Addrs \ {a} : client[b].player = p /\ client[b].match = client[a].match

\* What a client last heard of its own parameters is what they are if the time of
\* the next change is the current one, and older otherwise: however broadcasts and
\* packets overtake each other, the time tells the receiver.  And a cooldown error
\* is drawn only by a client one of whose changes was applied.
ObservationsSound ==
  \A a \in Addrs : Seated(a) =>
    LET h == handle[client[a].match][client[a].player]
        seen == client[a].observed IN
    /\ seen # None => /\ seen.next <= h.nextChange
                      /\ seen.next = h.nextChange => seen.params = h.params
    /\ client[a].cooldownErrorSeen => h.nextChange # 0

\* Since the change that a client last heard of, its parameters have moved by no more
\* steps than cooldowns lie between that change and the latest: no step is gained by
\* changing another parameter, by a change that was refused, or by asking twice at
\* once (update_player_params, apply_param_change).
ChangesInPace ==
  \A a \in Addrs : Seated(a) =>
    LET h == handle[client[a].match][client[a].player]
        seen == client[a].observed IN
    seen # None =>
      ParamDistance(seen.params, h.params) * Cooldown <= h.nextChange - seen.next

\* Nobody is left in a room unanswered: a client that is in when its joins have come to
\* their ends has been sent join_ok, although a send may fail between the registration
\* and the session's removal, and its join datagram may have been repeated.
SeatedIsAnswered ==
  \A a \in Addrs :
    /\ client[a].pc # "off" /\ Seated(a)
    /\ \A j \in JoinTasksOf(a) : JoinAt(j, "done")
    => \E msg \in Heard(a) : msg.type = "join_ok"
=============================================================================
