----------------------------- MODULE ApiServer ------------------------------
(***************************************************************************)
(* The HTTP API (api-server/src/main.rs) in front of the control plane.    *)
(* Every route of a match is one gRPC call, made with the only client      *)
(* handle locked, and an answer derived from the call's status.  The lock  *)
(* is fair and is held until the handler is over, so requests are served   *)
(* one after the other.                                                    *)
(*                                                                         *)
(* What can go wrong: a client hangs up, and its handler is dropped, lock, *)
(* place in the queue and all; the connection to the control plane breaks; *)
(* the realtime server restarts and forgets its rooms.  A call whose       *)
(* caller is gone may be executed all the same, now or later.  A request   *)
(* the extractors refuse is answered before its handler is called.         *)
(***************************************************************************)
EXTENDS ControlPlane, SequencesExt

CONSTANTS
  Requests,   \* HTTP requests that can be made, a retry is another request
  None

VARIABLES
  request,    \* per HTTP request, what its handler is about
  queue,      \* requests that hold or wait for the client lock, in order
  call        \* per HTTP request, how far its gRPC call is

apiVars == <<request, queue, call>>
everything == <<vars, apiVars>>

-----------------------------------------------------------------------------
(* Data *)

Routes == {"list", "create", "join", "get", "start", "finish", "delete"}

\* code is the status answered, number the start time or the rank it tells, or
\* how many rooms it lists; what else an answer says is left out.  after holds
\* the requests that had been answered when this one arrived.
Fresh(pc, route, m, p, after) ==
  [pc |-> pc, route |-> route, match |-> m, player |-> p, code |-> 0, number |-> 0,
   after |-> after]
Unsent == Fresh("unsent", None, None, None, {})
Gone == Fresh("gone", None, None, None, {})
Rejected(route, code) == [Fresh("rejected", route, None, None, {}) EXCEPT !.code = code]

At(r, pc) == request[r].pc = pc
Without(r) == RemoveAt(queue, CHOOSE i \in DOMAIN queue : queue[i] = r)

\* Mutant: every error is taken for a match that is not there.
HttpCodeNotFound(route, status) ==
  IF status # "ok" THEN 404 ELSE IF route = "delete" THEN 204 ELSE 200

\* The status codes of the seven handlers.
HttpCode(route, status) ==
  CASE status = "ok" -> IF route = "delete" THEN 204 ELSE 200
    [] status = "not_found" /\ route \notin {"list", "create"} -> 404
    [] status = "failed_precondition" /\ route \in {"join", "finish"} -> 409
    [] OTHER -> 502

-----------------------------------------------------------------------------
(* Handlers *)

\* Bound: ids run out, so a request that may draw one arrives only if there is
\* one left for it.
Drawing(route) == {r \in Requests : request[r].route = route /\ call[r] # "over"}
IdsLeft(route) ==
  CASE route = "create" -> Cardinality(Drawing(route)) < Cardinality(Matches \ drawnMatches)
    [] route = "join" -> Cardinality(Drawing(route)) < Cardinality(Players \ drawnPlayers)
    [] OTHER -> TRUE

\* The codes of the extractors: of Path for a name that is no text, of Json for a
\* body that is too long, has another type, is no JSON or lacks a field.
Rejections(route) ==
  CASE route = "list" -> {}
    [] route \in {"get", "start", "delete"} -> {400}
    [] route \in {"create", "join", "finish"} -> {400, 413, 415, 422}

\* A request that cannot be read is answered at once, without the lock.
Reject(r, route, code) ==
  /\ At(r, "unsent")
  /\ code \in Rejections(route)
  /\ request' = [request EXCEPT ![r] = Rejected(route, code)]
  /\ UNCHANGED <<vars, queue, call>>

\* One that can be read asks for the lock.  Paths name matches that exist or did.
Arrive(r, route, m, p) ==
  /\ At(r, "unsent")
  /\ IdsLeft(route)
  /\ route \in {"list", "create"} <=> m = None
  /\ route = "finish" <=> p # None
  /\ request' = [request EXCEPT ![r] =
                   Fresh("waiting", route, m, p, {q \in Requests : At(q, "answered")})]
  /\ queue' = Append(queue, r)
  /\ UNCHANGED <<vars, call>>

\* The lock is granted and the call goes out.
CallOut(r) ==
  /\ At(r, "waiting")
  /\ Head(queue) = r
  /\ request' = [request EXCEPT ![r].pc = "calling"]
  /\ call' = [call EXCEPT ![r] = "sent"]
  /\ UNCHANGED <<vars, queue>>

\* The handler ends with an answer and releases the lock.
Answer(r, status, number) ==
  /\ request' = [request EXCEPT ![r].pc = "answered",
                                ![r].code = HttpCode(request[r].route, status),
                                ![r].number = number]
  /\ queue' = Tail(queue)

\* The connection breaks: what becomes of the call, the handler cannot tell.
ConnectionLost(r) ==
  /\ At(r, "calling")
  /\ Answer(r, "unavailable", 0)
  /\ UNCHANGED <<vars, call>>

\* Mutant: the lock, or the place in the queue, is not given up.
HangUpLocked(r) ==
  /\ request[r].pc \in {"waiting", "calling"}
  /\ request' = [request EXCEPT ![r] = IF call[r] = "sent" THEN [@ EXCEPT !.pc = "gone"]
                                       ELSE Gone]
  /\ UNCHANGED <<vars, queue, call>>

\* The HTTP client goes away and its handler is dropped.
HangUp(r) ==
  /\ request[r].pc \in {"waiting", "calling"}
  /\ request' = [request EXCEPT ![r] = IF call[r] = "sent" THEN [@ EXCEPT !.pc = "gone"]
                                       ELSE Gone]
  /\ queue' = Without(r)
  /\ UNCHANGED <<vars, call>>

\* A call nobody waits for any more is over, done or not.
Abandoned(r) ==
  /\ request[r].pc \in {"answered", "gone"}
  /\ request' = [request EXCEPT ![r] = IF @.pc = "gone" THEN Gone ELSE @]
  /\ UNCHANGED queue

\* It was cancelled or never delivered.
DropCall(r) ==
  /\ call[r] = "sent"
  /\ Abandoned(r)
  /\ call' = [call EXCEPT ![r] = "over"]
  /\ UNCHANGED vars

-----------------------------------------------------------------------------
(* The control plane executes a call in one critical section.  The reply comes *)
(* back, or the connection breaks before it does.                              *)

Return(r, status, number) ==
  /\ call[r] = "sent"
  /\ call' = [call EXCEPT ![r] = "over"]
  /\ \/ At(r, "calling") /\ Answer(r, status, number)
     \/ At(r, "calling") /\ Answer(r, "unavailable", 0)
     \/ Abandoned(r)

ListRooms(r) ==
  /\ request[r].route = "list"
  /\ Return(r, "ok", Cardinality({m \in matches : ~Started(m)}))
  /\ UNCHANGED vars

Create(r) ==
  /\ request[r].route = "create"
  /\ Return(r, "ok", 0)
  /\ \E m \in Matches : CreateRoom(m)

Join(r) ==
  LET m == request[r].match IN
  /\ request[r].route = "join"
  /\ \/ Return(r, "ok", 0) /\ \E p \in Players : IssueJoinTicket(m, p)
     \/ m \notin matches /\ Return(r, "not_found", 0) /\ UNCHANGED vars
     \/ m \in matches /\ Full(m) /\ Return(r, "failed_precondition", 0) /\ UNCHANGED vars

GetRoom(r) ==
  LET m == request[r].match IN
  /\ request[r].route = "get"
  /\ \/ m \in matches /\ Return(r, "ok", startedAt[m])
     \/ m \notin matches /\ Return(r, "not_found", 0)
  /\ UNCHANGED vars

Start(r) ==
  LET m == request[r].match IN
  /\ request[r].route = "start"
  /\ \/ StartRoom(m) /\ Return(r, "ok", startedAt'[m])
     \/ m \in matches /\ Started(m) /\ Return(r, "ok", startedAt[m]) /\ UNCHANGED vars
     \/ m \notin matches /\ Return(r, "not_found", 0) /\ UNCHANGED vars

\* The place of a player in a ranking.
RankIn(ranking, p) == CHOOSE i \in DOMAIN ranking : ranking[i] = p

Finish(r) ==
  LET m == request[r].match  p == request[r].player IN
  /\ request[r].route = "finish"
  /\ \/ FinishRoom(m, p) /\ Return(r, "ok", Len(finished'[m]))
     \/ /\ m \in matches /\ Started(m) /\ p \in players[m] \cap Finishers(m)
        /\ Return(r, "ok", RankIn(finished[m], p))
        /\ UNCHANGED vars
     \/ /\ m \in matches => Started(m) /\ p \notin players[m]
        /\ Return(r, "not_found", 0)
        /\ UNCHANGED vars
     \/ /\ m \in matches /\ ~Started(m)
        /\ Return(r, "failed_precondition", 0)
        /\ UNCHANGED vars

Delete(r) ==
  LET m == request[r].match IN
  /\ request[r].route = "delete"
  /\ \/ DeleteRoom(m) /\ Return(r, "ok", 0)
     \/ m \notin matches /\ Return(r, "not_found", 0) /\ UNCHANGED vars

Serve(r) ==
  \/ ListRooms(r) \/ Create(r) \/ Join(r) \/ GetRoom(r)
  \/ Start(r) \/ Finish(r) \/ Delete(r)

-----------------------------------------------------------------------------
(* What else happens to the core state *)

\* Mutant: ids are numbers that count from the start of the process.
RestartNumbering ==
  /\ DropRooms(matches)
  /\ joining' = {} /\ drawnMatches' = {}
  /\ call' = [r \in Requests |-> IF call[r] = "sent" THEN "over" ELSE call[r]]
  /\ UNCHANGED <<now, sweepAt, drawnPlayers, request, queue>>

\* The realtime server comes up again, with an empty table; the connections of
\* the calls it had not answered are broken.
Restart ==
  /\ DropRooms(matches)
  /\ joining' = {}
  /\ call' = [r \in Requests |-> IF call[r] = "sent" THEN "over" ELSE call[r]]
  /\ UNCHANGED <<now, sweepAt, drawnVars, request, queue>>

\* A cleanup, with whatever time it read before it got the lock.
Cleanup ==
  /\ \E time \in StartTime .. now : DropRooms(Stale(time))
  /\ UNCHANGED <<joining, now, sweepAt, drawnVars>>

OtherCore ==
  /\ \/ \E t \in tickets : ConsumeTicket(t)
     \/ \E c \in joining : RegisterPlayer(c)
     \/ \E m \in Matches, p \in Players : RemovePlayer(m, p)
     \/ \E m \in Matches, p \in Players, param \in Kinds, direction \in ParamDirection :
           UpdatePlayerParams(m, p, param, direction)
     \/ Cleanup
     \/ Tick
  /\ UNCHANGED apiVars

-----------------------------------------------------------------------------
ApiInit ==
  /\ Init
  /\ request = [r \in Requests |-> Unsent]
  /\ queue = <<>>
  /\ call = [r \in Requests |-> "none"]

Progress(r) == CallOut(r) \/ Serve(r) \/ ConnectionLost(r)

ApiNext ==
  \/ \E r \in Requests, route \in Routes, m \in drawnMatches \cup {None},
        p \in drawnPlayers \cup {None} : Arrive(r, route, m, p)
  \/ \E r \in Requests, route \in Routes : \E code \in Rejections(route) : Reject(r, route, code)
  \/ \E r \in Requests : Progress(r) \/ HangUp(r) \/ DropCall(r)
  \/ Restart
  \/ OtherCore

ApiSpec == ApiInit /\ [][ApiNext]_everything

\* Handlers are polled, and a call is answered or its connection breaks.
ProgressFairness(r) == WF_everything(Progress(r))
ApiFairness == \A r \in Requests : ProgressFairness(r)

FairApiSpec == ApiSpec /\ ApiFairness

-----------------------------------------------------------------------------
(* Properties *)

\* The codes of each route that docs/matchmaking-api.md and the annotations of the
\* handlers list.
Documented(route) ==
  CASE route \in {"list", "create"} -> {200, 502}
    [] route \in {"get", "start"} -> {200, 404, 502}
    [] route \in {"join", "finish"} -> {200, 404, 409, 502}
    [] route = "delete" -> {204, 404, 502}

\* The types of the API.  What a handler answers has one of the codes its route is
\* documented with; what the extractors refuse has one of theirs, and is no call.
ApiTypeOK ==
  /\ \A r \in Requests :
       \/ request[r] \in {Unsent, Gone}
       \/ /\ \E route \in Routes : \E code \in Rejections(route) :
               request[r] = Rejected(route, code)
          /\ call[r] = "none"
       \/ /\ request[r].pc \in {"waiting", "calling", "answered", "gone"}
          /\ request[r].route \in Routes
          /\ request[r].match \in Matches \cup {None}
          /\ request[r].player \in Players \cup {None}
          /\ request[r].number \in Nat
          /\ request[r].after \subseteq Requests \ {r}
          /\ request[r].code \in IF At(r, "answered") THEN Documented(request[r].route)
                                 ELSE {0}
  /\ call \in [Requests -> {"none", "sent", "over"}]
  /\ queue \in Seq(Requests)

Succeeded(r, routes) ==
  At(r, "answered") /\ request[r].code = 200 /\ request[r].route \in routes

\* Answers given at different times agree with each other, across retries, calls
\* whose answer was lost, players who come and go, and restarts: a match has one
\* start time, whoever asks for it, and the ranks of its players are theirs alone.
AnswersAgree ==
  \A r, s \in Requests :
    LET a == request[r]  b == request[s] IN
    a.match = b.match =>
      /\ Succeeded(r, {"start", "get"}) /\ Succeeded(s, {"start", "get"})
           => a.number = b.number \/ 0 \in {a.number, b.number}
      /\ Succeeded(r, {"finish"}) /\ Succeeded(s, {"finish"})
           => (a.number = b.number <=> a.player = b.player)

\* What an answer tells about its match: that it runs, or that it is no more (a
\* finish is answered 404 for other reasons too).
ToldRunning(r) ==
  \/ Succeeded(r, {"start", "finish"})
  \/ Succeeded(r, {"get"}) /\ request[r].number # 0
ToldClosed(r) ==
  /\ At(r, "answered")
  /\ \/ request[r].code = 204
     \/ request[r].code = 404 /\ request[r].route # "finish"

\* A request that arrives after another was answered finds the match no earlier in
\* its life than that answer said, although calls of clients who hung up may be
\* executed in between: a match that ran is not a lobby again, and a match that was
\* gone is not there again.
AnswersInOrder ==
  \A s \in Requests : \A r \in request[s].after :
    LET b == request[s] IN
    request[r].match = b.match =>
      /\ ToldRunning(r) => /\ Succeeded(s, {"get"}) => b.number # 0
                           /\ b.route = "finish" => b.code # 409
      /\ ToldClosed(r) => b.code \in {0, 404, 502}

\* Once a deletion has been answered the match is gone for good, and so is every
\* ticket for it; a call for it that was abandoned before, or a join that holds a
\* consumed ticket, does not bring anything back.
DeleteIsFinal ==
  \A r \in Requests : At(r, "answered") /\ request[r].code = 204 =>
    LET m == request[r].match IN
    /\ m \notin matches
    /\ players[m] = {} /\ startedAt[m] = 0 /\ finished[m] = <<>>
    /\ \A t \in tickets : t.match # m

\* Behind the API a match lives the life of MatchLifecycle, whoever hangs up, retries or
\* joins and whichever calls break, but that a restart closes whatever is open: no call
\* that was under way meets a match of an earlier life.
RestartsOnlyClose ==
  [][Lifecycle!Next \/ Lifecycle!Crash]_(Lifecycle!lifecycleVars)

AtFront(r) == queue # <<>> /\ Head(queue) = r

\* Whoever has the client lock, or is next to get it, has a step to take: a handler that
\* was dropped leaves neither the lock nor its place in the queue behind.
HandlersNeverBlocked ==
  \A r \in Requests : AtFront(r) => ENABLED <<Progress(r)>>_everything

\* No request waits for ever for the lock or for its answer, whoever hangs up in
\* front of it.
RequestsAnswered ==
  \A r \in Requests : At(r, "waiting") ~> request[r].pc \in {"answered", "gone"}
=============================================================================
