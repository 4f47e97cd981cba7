# A verification model of kotatsu_backend

TLA+ modules, TLC configurations and TLAPS proofs for the room, ticket, join and
broadcast logic of `realtime-split/`.  Paths below are relative to the repository;
`rs/` abbreviates `realtime-split/realtime-server/src/`.

## 1. The system

    organiser, guests --HTTP--> api-server --gRPC--> realtime-server <--UDP--> game clients

| component | state | operations |
|---|---|---|
| parameter rule (`rs/params.rs`, `rs/magicnums.rs`) | none | `apply_param_change`: cooldown check, saturating step, bounds |
| core state (`rs/types.rs`, `rs/room.rs`, `rs/player.rs`) | `CoreState` behind one `tokio::sync::Mutex`: table of rooms (players, `started_at_unix`, `last_activity_unix`, ranking), table of tickets | start, finish, register, remove, change parameters, drop stale lobbies |
| gRPC control plane (`rs/grpc_service.rs`) | none of its own | create, list, get, issue ticket, start (and broadcast), finish, delete |
| tickets (`rs/ticket.rs`) | in the core state | consume once, refuse when expired |
| cleanup (`rs/cleanup.rs`) | none | every interval: read the clock, lock, drop stale lobbies with their tickets |
| UDP server (`rs/udp_connection.rs`) | session registry by address behind a second mutex; a bounded mpsc channel per player | one task per datagram: join, param change, relay; the pump drains the channels onto the socket |
| datagram relay (`rs/udp_connection.rs`, `rs/room.rs`) | none | `pos` to the others, `stage_progress` to all |
| HTTP API (`api-server/src/main.rs`) | one gRPC client behind a mutex | each route is one gRPC call with the mutex held; maps status codes |
| test client (`test-client/src/main.rs`) | per client: what it observed of its parameters, cooldown errors, whose positions it saw | create, join four players over HTTP and UDP, change parameters, move, compare |
| latency probe (`test-client/src/bin/remote-rtt.rs`) | samples delivered and lost | create, join two clients, measure numbered positions from one to the other |
| DDNS updater (`scripts/cloudflare-ddns-update.sh`) | a file with the last address | ask for the address, compare with the file, look the record up, update it, write the file |
| `rs/connection.rs`, `rs/server.rs`, `rs/protocol.rs` | | an older QUIC server, not compiled: `main.rs` does not declare them |

Interaction.  The API server calls the control plane; the control plane, the UDP
tasks and the cleanup share `CoreState` through its mutex; UDP tasks and the pump
share the session registry; broadcasts and error replies go through the players'
channels to the pump, `join_ok` goes to the socket directly.

What is hard here, and what should hold all the same:

* A join is two critical sections of the core mutex (consume, register) and two of
  the registry mutex (look up, insert), each in a different lock period: a ticket
  must admit one player once, into a room that exists and has a place.
* Tickets are issued against registered players, so they may outnumber the places:
  the capacity has to be enforced at registration, and is.
* The cleanup reads the clock before it waits for the lock: it must not remove a
  room that was used in the meantime.
* The start deals colours and stages; players can leave and come after it, and
  start can be called again: what was announced must stay true.
* Broadcasts read their receivers under the lock and send after it; a full channel
  makes the sender wait; the pump takes a message out before it sends it, and does
  not look whether the sending failed.
* Datagrams are handled by tasks without an order between them; the server is
  memoryless across restarts; UDP loses, repeats and reorders packets in both
  directions, and neither side sends anything twice on purpose.
* A relayed datagram looks up its sender's session, and later the addresses of a room
  that may have changed.
* The probe tells late answers from current ones by their number only.
* The DDNS updater writes the record and the file one after the other and may be cut
  off between them; the file alone decides whether the next run does anything.
* HTTP handlers share one gRPC client behind a mutex and are dropped when their
  client hangs up, while the call they made may still be executed; so may a call
  whose answer is lost, and the client makes it again.

`PROJECT.json` lists these as hazards, each at its line with the properties that
cover it, and says of the others why nothing covers them yet.

## 2. Modules

| module | models |
|---|---|
| `Params` | the parameter rule, as pure operators |
| `MatchLifecycle` | abstract: what a client may rely on about a match |
| `Admission` | abstract: what a ticket is worth: invited once, to one match, in while there is a seat, and out for good |
| `ControlPlane` | the core state and all its critical sections |
| `UdpServer` | `ControlPlane` extended by join and param_change tasks, sessions, channels, broadcasts, pump |
| `ClientLink` | `UdpServer` extended by its clients, the network between them and the relay |
| `ApiServer` | `ControlPlane` behind the HTTP API: requests, the client lock, calls, restarts |
| `Probe` | the latency probe, with the network and the server as its surroundings |
| `DdnsUpdater` | the updater script, the DNS record and the host's address |
| `MCControlPlane`, `MCUdpServer`, `MCClientLink`, `MCApiServer`, `MCProbe` | the instances TLC checks (`DdnsUpdater` needs none) |
| `MatchLifecycleProofs` | theorems about the abstract match |
| `ControlPlaneProofs` | theorems about `ControlPlane` |
| `LifecycleProofs` | `ControlPlane` implements `MatchLifecycle` and inherits its theorems; it implements `Admission` |
| `UdpProofs` | `UdpServer` implements `ControlPlane`; joins, sessions, channels, the announced layout and the announcement itself |
| `LinkProofs` | `ClientLink` implements `UdpServer`; clients are seated where they think, the refused are out, datagrams stay in their room, reports of changes tell which is current |
| `ApiProofs` | theorems about `ApiServer` |
| `ProbeProofs`, `DdnsProofs` | theorems about `Probe` and `DdnsUpdater` |

Composition: `Params` < `ControlPlane` < `UdpServer` < `ClientLink`, and `ControlPlane` <
`ApiServer`, each extending the one before with the same state; `ControlPlane`
implements `MatchLifecycle` and `Admission`, `UdpServer` implements `ControlPlane`, and
`ApiServer`, whose server restarts, implements `MatchLifecycle` with crashes (`CrashSpec`: a
`Crash` closes every open match) and `Admission` as it stands (any set of matches may close).  `Probe` and `DdnsUpdater` stand alone: the programs they model see the rest from outside only.

### ControlPlane

One action is one period of the core mutex.

| action | code |
|---|---|
| `CreateRoom`, `IssueJoinTicket`, `DeleteRoom` | the handlers of that name in `grpc_service.rs` |
| `StartRoom` | `start_match_and_snapshot_players`, with `assign_randomized_layout` as `Colourings` and `WithLayout` |
| `FinishRoom` | `finish_player` |
| `ConsumeTicket`, `RegisterPlayer` | `consume_ticket`, `register_player_udp`; between the two, the claim is in `joining` |
| `RemovePlayer` | `remove_player` |
| `UpdatePlayerParams` | `update_player_params` and `apply_param_change` |
| `SweepBegin`, `SweepApply` | the two halves of `delete_stale_lobby_rooms`: the clock reading, and the lock period |
| `Tick` | a second goes by |

`matches` is the key set of the room table and `players[m]` that of a room's
player table; entries for absent rooms and players hold what a new one would hold,
so that equal states are equal.  Calls that change nothing (a refusal, a second
start, a finish by somebody already ranked) are not actions.

### Admission

The control plane sees tickets, claims, rooms and players; a guest sees an invitation.
`Invitations` maps one to the other: a ticket in the table, or one that a join task has
consumed and not yet registered, as long as its room is there.  So `ConsumeTicket` is a
stutter, or `Lapse` when it finds the ticket expired; `RegisterPlayer` is `Admit`, or
`Lapse` when the room is full, or a stutter when the room has gone; `DeleteRoom`, `SweepApply` and a restart are `Close`.
`OutForGood` says what that forbids: an id that has been invited and has neither
invitation nor seat any more never gets one again.

### UdpServer

A join task goes through `checked`, `claimed`, `registered`, `inserted` and `done`,
or `failed` and `removing` when its reply could not be sent; each step is what
`handle_join` or `remove_client` does between two awaits that let others in.
`casts` holds the broadcasts under way: `ReadTargets` is the core lock period of
`broadcast_reliable_udp`, `CastOn` one `send` to one player's channel, which waits
while the channel is full.  A `param_change` task decides in one lock period
(`UpdateStep`); what it refuses is put into the channel later, when there is room
(`ReplyError`).  `Pump(a)` takes one message out of a session's channel and sends it.
Sending fails only at the addresses in the constant `FailingAddrs`, any number of times:
the pump ignores a failure, and the message is gone, `match_started` too, although
`docs/matchmaking-api.md:166` promises it to every connected client (`Deliver`); a join ends without
`join_ok` and is undone.  `sent[a]` is what went onto the socket, in order.

`AbandonCast` is the end of a `match_started` whose `start_room` handler is dropped
because its caller hung up; the constant `Hangups` says whether callers do that.

`ServerStep` is everything the server does by itself; `UdpNext` adds datagrams that
may arrive from any address at any time.

### ClientLink

| action | code |
|---|---|
| `Launch` | `run_one_client` takes the token of an HTTP join, binds a socket, sends `join`; the tokens of `tickets` are those HTTP joins answered |
| `HearAnswer` | the wait for the answer: `join_ok` or an error ends it, everything else is thrown away |
| `GiveUp` | `connect_and_join` of the probe stops after ten seconds, the test client never |
| `HearMessage`, `HearDatagram` | the reader task and the drains of its channel |
| `Leave` | the client ends and tells nobody |
| `JoinArrives`, `ChangeArrives`, `ReceiveDatagram` | a packet reaches the server: what a client has sent follows from how far it is (`MayHaveSent`), and may arrive any number of times, at any later moment, or never |
| `Relay` | `broadcast_datagram_udp` and `..._to_all`: the addresses are read in one core lock period, after the session was looked up in a registry lock period |

In the other direction `sent[a]`, of `UdpServer`, and `relayTask[r].to` are what the
server put onto the socket; a client hears any of it, at any time, in any order, any
number of times or never.  That is loss, repetition, delay and reordering without a
network in between to be emptied.  The datagram constants (`JoinTasks`, `ParamTasks`,
`RelayTasks`) bound how many packets reach the server.

### Probe

One action per await of `remote-rtt`: the three HTTP calls (`Call`), the two joins
(`HearAnswer`, `ConnectTimeout`), and per sample `SendProbe`, then `HearProbe` for each
packet in b's buffer until one is a's position of this sample, or `SampleTimeout`, then
`NextSample`.  `Arrive` puts a packet into a socket's buffer: an answer to the join, any
position a has sent so far, as often as the network likes, or the chatter of others.
Relaying is left to `ClientLink`; here the server may or may not do it.

### DdnsUpdater

One action per request and per write of the script; `CutOff` ends a run anywhere (`set
-e`, a kill, a power cut, a request that fails), after an update that may have been
executed, or with the state file emptied by the redirection.  `ChangeAddress` may bring
back an earlier address.  `cutOff` remembers that a run changed the record and did not
get to the state file: as long as it is false, the file is a copy of the record; when
it is true and the address goes back to the one in the file, the script answers
"[ok] unchanged" and leaves a wrong record alone.  The script's test lets more pass than addresses (any text with a colon, numbers
above 255): `LookAlikes`, which the provider refuses as the content of a record
(`Accepted`, external), so the update fails and the run ends.  Runs do not overlap in the model
(cron starts one every five minutes; a `curl` that hangs longer, having no timeout,
would make them: listed as a hazard), and nobody else edits the record.

### ApiServer

| action | code (`api-server/src/main.rs` unless said otherwise) |
|---|---|
| `Arrive` | the router and the extractors, of a request they can read: a route, a match and perhaps a player |
| `Reject` | the extractors refuse the request and answer it themselves: the handler does not run, no lock is taken, no call goes out; `Rejections` says with which codes (400 for what is not UTF-8 in a path; 400, 413, 415 and 422 for what is no JSON of the expected form) |
| `CallOut` | `state.grpc.lock().await` is granted and the call goes out |
| `ListRooms`, `Create`, `Join`, `GetRoom`, `Start`, `Finish`, `Delete` | the gRPC handler executes the call, refusals included, and `Return` gives the HTTP handler its status, which `HttpCode` turns into the answer |
| `ConnectionLost` | the call fails before it is known whether it was executed |
| `HangUp` | the HTTP client goes away; its handler is dropped, and with it the lock or the place in the queue |
| `DropCall` | a call nobody waits for any more is never executed |
| `Restart` | the realtime server comes up with empty tables (`realtime-server/src/main.rs`) |
| `Cleanup`, `OtherCore` | what the cleanup, the UDP tasks and the clock do meanwhile |

`request[r]` is a handler's view, `call[r]` the call's fate, which the handler may
not know; `queue` is the fair queue of the client mutex, its head the holder.
`request[r].after` remembers which requests had been answered when `r` arrived, for
`AnswersInOrder`.  The execution of a call and the arrival of its reply are one step,
or the reply is lost: between the two, the caller holds the lock and does nothing.
`Cleanup` makes one step of the two of the cleanup, with any reading of the clock
since the start, which includes those that waited for the lock.
The status of the extractors is kept apart from the answers of handlers: `ApiTypeOK`
says which codes either may have, and the properties that compare answers are about
handlers.  What the extractors answer contradicts the documents: `docs/matchmaking-api.md`
lists codes per route and none of 400, 413, 415, 422, and says that errors have the
shape `{"error":"..."}` (line 15), which theirs, plain texts, have not.
`Arrive` is bounded: a request that draws an id comes only while there is one left.

### Abstractions

* A token and a player id are drawn together by `issue_join_ticket`, both as fresh
  uuids; the model uses one value for both and never draws a value twice.
* The clock moves forward.  The code reads the wall clock, which an operator or NTP
  may set back; then cooldowns and tickets last longer, and the saturating
  subtraction of the cleanup makes a room look used.  `now_unix()` read twice in one
  lock period is taken as one reading.
* `current_stage_index` is always 0 in the code and is left out, as are display
  names and the text of errors.
* The lookup of a session and the receipt of the datagram are one step: nothing the
  task does before the lookup is visible to others.
* The pump holds the registry while it goes over all sessions; a turn of the model is
  one message, and others may come in between, which only adds behaviours.
* Whether sending fails depends on the address, not on the message: an address in
  `FailingAddrs` may fail at any time and need not.
* Stage orders are kept as dealt, although the properties ask of them only that they do
  not change.
* A request for a match or player that never existed is one for a member of the finite
  sets that has not been drawn, and answered like one for what is gone.
* Malformed packets are dropped by the parser and change nothing; `list` and `get` only
  read.  (`list` leaves out started rooms, although `docs/matchmaking-api.md:166` says
  guests see the start there; a guest has to ask for the match by its id.)

## 3. Runs

| run | question | result |
|---|---|---|
| `lobby` | tickets, rosters and rooms under over-issue, expiry, closing, cleanup; each player ranked once, ranks never rewritten; colours distinct and dealt once; the abstract life of a match; the abstract admission to it | holds |
| `udp_joins` | two join tasks, on the same or different tickets and addresses, around start, deletion and failed replies: who holds a consumed ticket, whose player a session is, what is announced of the layout | holds |
| `udp_start` | is `match_started` never lost on its way to an address that can be sent to, and does it reach its session, though the channels are full and sending to another address fails | holds if no caller hangs up, the second under fairness |
| `client` | over a bad network: is whoever heard `join_ok` seated, and whoever was refused not; is nobody seated without having been sent `join_ok`; does every join end; does a relayed datagram stay in its room | holds, the join's end under `LinkFairness` |
| `changes` | parameters share one cooldown: how far can they move between two changes, and do they stay in range; can a client tell which report of its parameters is the latest; is a lobby whose client just stays removed in the end | holds, the last under `LinkFairness` |
| `api` | do answers agree with each other, and later ones with earlier ones, across hang-ups, lost replies, abandoned calls and restarts; has every answer of a handler a code of its route; does a deletion stand; does a match live its abstract life but for restarts, which only close it; can whoever has the client lock, or is next to get it, go on; is every request answered | holds, the last under `ApiFairness` |
| `probe` | is a latency measured on its own sample, every sample counted once, `--samples 0` refused; does the summary read inside the latencies; does the probe end | holds, the last under `ProbeFairness` |
| `ddns` | does anything but an address get into the record or the file; when is "[ok] unchanged" right; does a new address reach the record | holds, the last under `DdnsFairness` |
| `second_join` | one registered player per address? | no |
| `late_joiner` | is a client that joins a match that is started told of it, after its `join_ok`? | no |
| `finish_again` | can whoever is ranked ask for the rank again? | no |
| `start_abandoned` | does `match_started` reach the sessions although the caller of the start hangs up? | no |

`Capacity`, `RankingSound` and `OutForGood` are in no run of their own: they follow from
`ImplementsAdmission` and `ImplementsLifecycle`, which `lobby` checks, and are theorems
(`NeverOverfull`, `RankedOnce`, `AdmissionImplemented`).  `ParamRate`, which compares any two
moments and not only changes a client heard of, is a theorem, too (`ParamsDriftSlowly`).

The four "no" runs each check one statement of a document or comment and end in a
counterexample; `PROJECT.json` quotes the statement and names the line of code.

Bounds.  In `lobby`, two rooms are enough for a ticket or a player to be confused
between rooms, three players for a room of two places to be full with a ticket left
over; a ticket lifetime and an idle timeout of 1 bring expiry, a late cleanup and use
between the two within two ticks.  One stage to deal one from
suffices, because the properties are about colours and about dealing again.
In `udp_joins` a ticket is valid in the second it was issued in (lifetime 0), so that
one tick makes it expire.  Channels of one message make every second message meet a
full channel.  In `udp_start` and `start_abandoned` the run begins with the players
seated (`SeatedInit`, a state `UdpSpec` reaches by two joins), because the joins are
the subject of `udp_joins` and the broadcast is that of these.  `client` begins with
two started rooms, one client in the first and a ticket for either (`GuestInit`), so
that the second client's two join datagrams meet every order of lookup, consumption,
failed reply and removal, and the relayed datagram every roster in between; its clock
stands still, because expiry is the subject of `udp_joins`.  `udp_start` has two addresses, and sending fails at one of
them: the one that can be sent to must be reached all the same.  `changes` begins with a
seated client in a lobby (`TableInit`) and has two changes, of one parameter or two,
and one tick of the clock for a cooldown and an idle timeout of one: enough for a second
change to be refused, in or out of range, or accepted with the broadcast of the first still under way, and
for the lobby to be removed.  `probe`
has up to three samples and six packets that reach the sockets, so that a late or
repeated position meets the two samples after its own; the bound also ends the chatter
that would keep `connect_and_join` waiting for ever.  `ddns` has three addresses and
three changes, so that an address comes back, one answer that only looks like an
address, and two runs that are cut off.  `api` has two requests, well formed or not, and a third that belongs to the
time before: it is over, or its client hung up and its call, a start or a finish, is still
on its way, to be executed before, between or after the two (`Afterwards`).  There is one
room of one place and two players, so that a join may find it full and the second player
gets in when the first has left; it begins with nothing, or with a room in which none or
one has joined (`OneRoomInit`, states `ApiSpec` reaches by earlier requests), so that two
requests suffice to start and to delete, to finish and to finish again, or to abandon a
join and to delete.  `MaxTime`
stops the clock; everything else stops when ids, requests and datagrams are used up,
except the cleanup and the restart, which repeat for ever.  Runs of safety properties
use symmetry of ids where it helps; runs of liveness properties do not.

Fairness.  `SweepFairness` is weak fairness of the cleanup's two halves: the loop in
`cleanup.rs` never ends and `tokio::sync::Mutex` grants the lock in order of request.
`UdpFairness` is weak fairness of each join task, of the broadcasts and of the pump
for each address: the runtime polls spawned tasks, and the pump is a loop with a short
sleep over all sessions.  `ApiFairness` is weak fairness of each request's next step:
handlers are polled, the mutex is fair, and a call is answered or its connection
breaks.  The last is an assumption about the network: no call has a timeout, so a
connection that neither answers nor breaks stops every request (listed as a hazard).
`LinkFairness` is the server's fairness only: nothing is assumed of clients, of the
network or of the clock.  `ProbeFairness` is weak fairness of the probe's own steps,
timers included; that a request or a reception fails is never required.
`DdnsFairness` says that cron starts runs again and again, that a run under way goes on
or is cut off, and that the address service, asked again and again, is right again and
again; a run need not be spared, but only finitely many are cut off (`MaxFaults`).

## 4. Proofs

All theorems hold for every value of the constants within the named assumptions:
`RoomAssumption` (at least one place), `TimeoutAssumption`, `StageAssumption`,
`KindsAssumption`, `ClockAssumption` (the epoch is not a start time, because 0 stands
for "not started"), `CooldownAssumption`, `ChannelAssumption`, `HangupAssumption`, `FailingAssumption`,
`NoneAssumption` (no session is not a session); for
the probe `SamplesAssumption` (the default is a positive number), `ArrivalsAssumption`
and `UnsetAssumption`; for the updater `AddressAssumption` (what only looks like an address is none).
Any number of rooms and players may exist; room and player sets may be infinite.

| theorem | argument |
|---|---|
| `TypeCorrect` | `TypeOK` is inductive: it also says that nothing of a closed room lingers, and that tickets and claims name drawn ids |
| `AdmitsOnce` | `SingleAdmission` is inductive relative to `TypeOK`: an id just issued is not drawn, hence in no ticket, claim or room |
| `NeverOverfull` | strengthened to `RostersFit`, which adds finiteness, without which cardinalities cannot be compared |
| `TicketsFollowRooms` | inductive as it stands: every step that takes a room takes its tickets |
| `CleanupSparesActive` | from `ActivityCovers`: no ticket is younger than its room's last activity, and no activity is later than the clock; a reading `sweepAt <= now` only underestimates the idle time |
| `ChangesKeepPace` | `Truths` again (see below): every report of a change, wherever it is, is paid for by the cooldowns since (`PaidFrom`), and a change waits for the one before it |
| `ParamsDriftSlowly` | between any two moments, and of any player, however late: from the earlier moment on, the cooldown still to wait is counted against the distance gone since, so that a change pays for the step it makes; the first is free, because it may have been due |
| `ColoursDiffer` | `Layout` is inductive; a late joiner has no colour, which is why it says nothing of two uncoloured players |
| `LayoutNeverRedealt` | from `Layout`, `RostersFit` and `EveryoneIsColoured`, a counting argument: as many colours as places |
| `LifecycleImplemented` | refinement mapping `PhaseOf`, `players`, `finished`; uses `TypeOK`, `SingleAdmission`, `RostersFit` |
| `RankedOnce`, `RanksStand` | of the abstract match in `MatchLifecycleProofs` (the ranking is searched before it is extended, and only extended), crashes included, carried to `ControlPlane` by `LifecycleImplemented` |
| `AdmissionImplemented` | refinement mapping `Invitations`; strengthened by `ClaimsDrawn`: a join under way names a room id drawn before, so no new room inherits an invitation.  A step keeps all invitations but those it uses up, because no other ticket or claim has the same id (`SingleAdmission`), and whoever takes a seat had one; `OutForGood` follows, because only `Invite` gives an invitation and it draws a new id |
| `UdpImplementsControlPlane` | every step of a UDP task is one action of `ControlPlane` or a stutter, given that requests have been parsed (`ParamTasksTyped`); so all theorems above hold of `UdpSpec` |
| `ClaimsAlwaysHeld`, `SessionsAlwaysBacked` | strengthened to `Keepers`: a player whose ticket is consumed is in the hands of one join task or one session, or in the room only, whoever has it knows that no ticket, task or session has it besides, and the player of a task that has registered, or is about to remove it, is in its room while the room is there (`Placed`); uses `TypeOK`, `SingleAdmission` and `TicketsNameLiveRooms` of the core through `UdpImplementsControlPlane` |
| `UdpTypeCorrect` | `TasksTyped`, of join tasks and sessions, and `Mail`, of everything on its way to the clients: a message changes place, from broadcast to channel to socket, and never its content; so `UdpTypeOK` says of each channel, broadcast and socket which messages it may hold |
| `LayoutStaysAnnounced` | strengthened to `AllTold`: the room of a `match_started` under way is started, and whoever it lists holds no ticket and no claim any more, hence never registers again and has no second colour |
| `StartIsNeverLost` | strengthened to `StartsArrive`, which needs the joins, too: whoever was dealt a colour is reached (a broadcast that has not read its receivers, or has not come to the player, or the player's channel) already while the join has not inserted its session, unless that join is about to fail; from there a message only moves on (`MoreMail`, `EnqueueAdds`, `TransmitAdds`), because sending fails only at the addresses the property leaves out, and `CastsAgree` says that a room is announced by its own start only; uses `Keepers`, without which an address could have another player's session |
| `JoinsAlwaysReady` | from `Keepers`: the claim a join is about to register is there, and so is the player it is about to remove |
| `FrontStaysAlive` | `OnlyWaiting`: everybody in the queue waits or calls, and is there once, so a handler that is dropped leaves neither lock nor place behind; uses `OrderInv` |
| `PromisesKept` | `LinkImplementsUdp` and `UdpImplementsControlPlane` carry `LifecycleImplemented`, `AdmissionImplemented` and `StartIsNeverLost` to clients and a bad network |
| `LinkImplementsUdp` | a packet that reaches the server is one of those `UdpNext` lets arrive at any time; so all theorems about `UdpSpec` hold of `LinkSpec` |
| `JoinedAlwaysSeated`, `RelayAlwaysInRoom` | strengthened to `LinkInv`: a client has one ticket, so at most one task at its address ever consumed it, however often its join arrives; `join_ok` is the last step of that task, so no failed copy can take the seat away afterwards; and the address of a player in a room is that of its client; uses `Keepers` and `Mail` |
| `RefusedAlwaysOut` | strengthened to `Turned` and `Errors`: a refusal, like a place, comes from a task that has tried the ticket, a task ends with one of the two, so whoever has both has two tasks; errors of changes go only to clients that have joined, so none is taken for a refusal |
| `ObservationsStaySound` | strengthened to `Truths`, of every `param_applied` and cooldown error under way: the reported change is the current one or an older one, whoever it is about is registered and never registers again; assumes a cooldown above zero (the code's is 7 s), without which two changes share a time |
| `DeletionsStand`, `AnswersConsistent` | from `ApiInv`: each answer is borne out by the state while its match is open (`Borne`), a match that is closed stays closed, and a new answer is always about an open match; so two answers about one match agree when the later one is given, and neither changes afterwards |
| `ApiTypeCorrect` | of what handlers answer, and of what extractors refuse; `Line` and `CallType`: whoever waits or calls is in the queue, once, and the caller is its head; a code comes from the status of the call through the handlers' own tables |
| `AnswersStayInOrder` | strengthened to `OrderInv`: the status of an answer is one the table justified in the critical section of its call (`Heard`), and what an answer said of a match's life stays so (`Shown`), because a closed room stays closed and a start is not undone; a restart closes rooms and changes nothing else of it |
| `CoreStaysSound` | a restart and a one-step cleanup are not steps of `ControlPlane`; they only take rooms away (`Dropped`), which keeps the core invariants |
| `LifeAcrossRestarts` | the same mapping as `LifecycleImplemented`, step by step (`LifecycleStep` for what is a step of `ControlPlane`); a cleanup in one step is `Expire`, a restart `Crash`: the rooms that `Dropped` takes away are all of them or lobbies |
| `RanksAcrossRestarts` | from the theorems about the abstract match, through `LifeAcrossRestarts` |
| `AdmissionAcrossRestarts` | `GuestInv` (types, `SingleAdmission`, `RostersFit`, `TicketsNameLiveRooms`, `ClaimsDrawn`) is kept by steps of the control plane, each of which is a step of `Admission`, and by dropping rooms with their tickets, which is `Close`; claims of joins under way are only ever lost by it |
| `ProbeTyped`, `CountsAllSamples`, `SummaryAlwaysInside` | inductive; `parse_config` never yields zero, the loop ends at the last sample, a summary is made only of one latency or more, and the index of the 95th percentile, rounded, stays below the count |
| `MeasuresOwnSample`, `NothingUncounted` | strengthened to `Booked`: whatever is delivered belongs to a sample already decided, so the next one is new |
| `DdnsTyped`, `UnchangedIsRight` | `DdnsTyped` is that of the state the script leaves behind: what only looks like an address comes as far as the request, which the provider refuses, and the run ends before the file; strengthened to `Cached`: the file is empty or equals the record unless a run was cut off, and a run about to write the file has just seen or made the record right |

Liveness.  The provers cannot work out what ENABLED means for an action, and have no
induction over data; but LS4 takes an `ENABLED` formula as it stands.  So the theorems
about liveness split a proof of progress in three.  That a task finds what its next step
needs, whatever others do meanwhile, is a predicate of states and is proved
(`JoinsAlwaysReady`, `FrontStaysAlive`).  That a step which finds it is ENABLED is a fact
about the formulas of the actions, which have no guard but those just proved; the theorem
assumes it (`ReadyJoinsCanStep`, `FrontCanStep`, `CleanupCanStep`, `PumpCanStep`,
`RunsGoOn`).  Only the second asks for something that could be otherwise, and the run
`api` checks it as `HandlersNeverBlocked`: a handler that is dropped must leave neither the
lock nor its place in the queue.  That
under the fairness of the specification the rest then happens, for every value of the
constants and in every interleaving, is proved:

| theorem | argument |
|---|---|
| `LobbiesAreSwept` | an idle lobby stays one until it is removed (`IdleStays`); the cleanup goes from one half to the other for ever, and a reading taken since the lobby became stale removes it; weak fairness of the two halves |
| `JoinsAlwaysEnd` | a step of a join task leads to a later one of its steps, and no step of anyone else moves it (`JoinLeaves`, `OwnSteps`); weak fairness of the task |
| `ChannelsMoveOn` | each message in the channel of a session comes a place nearer the front, and from the front out of the channel, onto the socket unless sending fails; or the session goes (`HeldStays`); weak fairness of the pump.  Together with `StartIsNeverLost` it is all of `StartReachesSessions` but the counting: places of the channel, and receivers of the broadcast |
| `LinkGoesOn` | `LinkImplementsUdp` carries `LobbiesAreSwept` and `JoinsAlwaysEnd` to clients and a bad network |
| `QueueMovesOn` | whoever waits for the client lock gets nearer to it, and at the front gets it, although requests arrive, clients hang up and the server restarts: a place only ever improves (`PlaceStep`), and who is in front leaves, by the lock (`FrontLeaves`) and then by an answer or a broken call.  By induction over the place that is freedom from starvation; the induction itself is not machine-checked (`RequestsAnswered`, by TLC).  It rests on `ApiFairness`, hence on calls that are answered or break, which no timeout guarantees |
| `RecordDoesCatchUp` | an address that is due stays due (`StaysDue`); a run that has learnt it aims at the record until it is there (`AimHolds`); every run ends; strong fairness of cron's start and of a right answer; assumes that runs are cut off finitely often, which `MaxFaults` says in the model |

`SeatedAlwaysAnswered` is the safety half of what a client without an answer is owed:
`Attended` says that a player in a room has a task that will answer or remove him, or
that `join_ok` is already on the socket.

Model-checked only: `StartReachesSessions`, `RequestsAnswered` and `ProbeEnds`.  The first
needs an induction over the receivers that are left and the places of the channels, the
second over the place in the queue of the client lock (its step is `QueueMovesOn`), the third over the packets that may
still arrive and the samples that are left: inductions over data, which the installed
provers cannot do.

## 5. Not modelled

* The QUIC modules (`rs/connection.rs`, `rs/server.rs`, `rs/protocol.rs`) are dead
  code; deployment scripts, slides and diagrams hold no state of the system.
* Start-up (`rs/main.rs`): only the initial state.  Whether the sockets can be bound is
  I/O; the hazard list says what happens if not.
* The numbers the test client compares at its end, and the wording of what the clients
  and the updater print.
* A server or a neighbour whose chatter never lets `connect_and_join` of the probe come to
  its timeout: `MaxArrivals` bounds it, and `ProbeEnds` is about chatter that ends.
* A clock that steps back, gRPC calls that neither end nor break, updater runs that
  overlap: each is listed as a hazard with the reason.

## 6. Plan

Done: all modules of section 2 with their runs; the theorems of section 4.

Every safety property the passing runs check is also proved (of
`HandlersNeverBlocked` the half that is about states), and so is the liveness whose argument is a fixed number of steps.  What is left is outside the
prover's reach (section 4) or outside these models (section 5).
