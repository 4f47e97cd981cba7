------------------------------ MODULE ApiProofs -----------------------------
(***************************************************************************)
(* Theorems about ApiServer: what an answer said stays true, through       *)
(* abandoned calls, lost replies, retries and restarts.                    *)
(***************************************************************************)
EXTENDS ApiServer, LifecycleProofs, SequenceTheorems

-----------------------------------------------------------------------------
(* The core state behind the API *)

\* A restart takes all rooms away, a cleanup in one step lobbies; they do nothing
\* else but forget claims.
Dropped ==
  \E S \in SUBSET matches :
    /\ S = matches \/ \A m \in S : ~Started(m)
    /\ DropRooms(S)
    /\ joining' = joining \/ (joining' = {} /\ S = matches)
    /\ UNCHANGED <<now, sweepAt, drawnVars>>

\* To the core state, a step behind the API is a step of the control plane or a
\* removal of rooms.
LEMMA CoreStep ==
  ASSUME TypeOK, [ApiNext]_everything
  PROVE  [Next]_vars \/ Dropped
<1>0. matches \subseteq Matches
  BY DEF TypeOK
<1>1. ASSUME UNCHANGED vars PROVE [Next]_vars
  BY <1>1
<1>2. ASSUME NEW r \in Requests, Serve(r) PROVE [Next]_vars
  <2>1. CASE ListRooms(r) \/ GetRoom(r)
    BY <1>1, <2>1 DEF ListRooms, GetRoom
  <2>2. CASE Create(r)
    BY <2>2 DEF Create, Next
  <2>3. CASE Join(r)
    <3>1. UNCHANGED vars \/ \E m \in matches, p \in Players : IssueJoinTicket(m, p)
      BY <2>3 DEF Join, IssueJoinTicket
    <3> QED
      BY <1>0, <1>1, <3>1 DEF Next
  <2>4. CASE Start(r)
    <3>1. UNCHANGED vars \/ \E m \in matches : StartRoom(m)
      BY <2>4 DEF Start, StartRoom, Startable
    <3> QED
      BY <1>0, <1>1, <3>1 DEF Next
  <2>5. CASE Finish(r)
    <3>1. UNCHANGED vars \/ \E m \in matches : \E p \in players[m] : FinishRoom(m, p)
      BY <2>5 DEF Finish, FinishRoom
    <3>2. \A m \in matches : players[m] \subseteq Players
      BY <1>0 DEF TypeOK
    <3> QED
      BY <1>0, <1>1, <3>1, <3>2 DEF Next
  <2>6. CASE Delete(r)
    <3>1. UNCHANGED vars \/ \E m \in matches : DeleteRoom(m)
      BY <2>6 DEF Delete, DeleteRoom
    <3> QED
      BY <1>0, <1>1, <3>1 DEF Next
  <2> QED
    BY <1>2, <2>1, <2>2, <2>3, <2>4, <2>5, <2>6 DEF Serve
<1>3. ASSUME NEW r \in Requests, CallOut(r) \/ ConnectionLost(r) \/ HangUp(r) \/ DropCall(r)
      PROVE  [Next]_vars
  BY <1>1, <1>3 DEF CallOut, ConnectionLost, HangUp, DropCall
<1>4. ASSUME NEW r, NEW route, NEW m, NEW p, Arrive(r, route, m, p)
      PROVE  [Next]_vars
  BY <1>1, <1>4 DEF Arrive
<1>9. ASSUME NEW r, NEW route, NEW code, Reject(r, route, code)
      PROVE  [Next]_vars
  BY <1>1, <1>9 DEF Reject
<1>5. CASE Restart
  BY <1>5 DEF Restart, Dropped
<1>6. CASE Cleanup
  BY <1>6 DEF Cleanup, Stale, Started, Dropped
<1>7. CASE OtherCore
  BY <1>6, <1>7 DEF OtherCore, Next
<1>8. CASE UNCHANGED everything
  BY <1>1, <1>8 DEF everything
<1> HIDE DEF Dropped
<1> QED
  BY <1>2, <1>3, <1>4, <1>5, <1>7, <1>8, <1>9 DEF ApiNext, Progress

\* Nobody is ranked twice.
NoRepeats ==
  \A m \in Matches : \A i, j \in DOMAIN finished[m] :
    finished[m][i] = finished[m][j] => i = j

\* What the state keeps of what it showed: closed rooms stay closed, and in a room
\* that stays open a start time and ranks once given are there to stay.
Kept ==
  /\ drawnMatches \subseteq drawnMatches'
  /\ matches' \cap drawnMatches \subseteq matches
  /\ \A m \in matches \cap matches' :
       /\ Started(m) => startedAt'[m] = startedAt[m]
       /\ \A i \in DOMAIN finished[m] :
            i \in DOMAIN finished'[m] /\ finished'[m][i] = finished[m][i]

CoreInv == TypeOK /\ TicketsNameLiveRooms /\ NoRepeats /\ IsFiniteSet(matches)

\* The start and the ranks are written once per room (room.rs), and only
\* create_room adds rooms.
LEMMA KeptStep ==
  ASSUME TypeOK, NoRepeats, IsFiniteSet(matches), [Next]_vars \/ Dropped
  PROVE  NoRepeats' /\ IsFiniteSet(matches') /\ Kept
<1> DEFINE Goal == NoRepeats' /\ IsFiniteSet(matches') /\ Kept
<1>0. /\ matches \subseteq drawnMatches /\ drawnMatches \subseteq Matches
      /\ finished \in [Matches -> Seq(drawnPlayers)]
      /\ startedAt \in [Matches -> Time]
      /\ \A m \in Matches \ matches : finished[m] = <<>>
  BY DEF TypeOK
<1>1. ASSUME UNCHANGED <<matches, startedAt, finished, drawnMatches>> PROVE Goal
  BY <1>1 DEF NoRepeats, Kept
<1>2. ASSUME NEW S \in SUBSET matches, DropRooms(S), UNCHANGED drawnVars PROVE Goal
  <2>1. matches' = matches \ S /\ IsFiniteSet(matches')
    BY <1>2, FS_Subset DEF DropRooms, TicketsWithout
  <2>2. NoRepeats'
    BY <1>0, <1>2 DEF DropRooms, TicketsWithout, NoRepeats
  <2>3. Kept
    BY <1>0, <1>2 DEF DropRooms, TicketsWithout, Kept, drawnVars
  <2> QED
    BY <2>1, <2>2, <2>3
<1>3. ASSUME NEW m \in Matches, CreateRoom(m) PROVE Goal
  <2>1. matches' = matches \cup {m} /\ IsFiniteSet(matches')
    BY <1>3, FS_AddElement DEF CreateRoom
  <2> QED
    BY <1>0, <1>3, <2>1 DEF CreateRoom, NoRepeats, Kept
<1>4. ASSUME NEW m \in Matches, StartRoom(m) PROVE Goal
  <2>1. /\ UNCHANGED <<matches, finished, drawnMatches>>
        /\ \A n \in matches : Started(n) => startedAt'[n] = startedAt[n]
    BY <1>0, <1>4 DEF StartRoom, Startable, Started, drawnVars
  <2> QED
    BY <2>1 DEF NoRepeats, Kept
<1>5. ASSUME NEW m \in Matches, NEW p \in Players, FinishRoom(m, p) PROVE Goal
  <2>1. /\ UNCHANGED <<matches, startedAt, drawnMatches>>
        /\ finished[m] \in Seq(drawnPlayers)
        /\ finished' = [finished EXCEPT ![m] = Append(@, p)]
        /\ \A i \in DOMAIN finished[m] : finished[m][i] # p
    BY <1>0, <1>5 DEF FinishRoom, Finishers, drawnVars
  <2>2. /\ finished'[m] = Append(finished[m], p)
        /\ \A n \in Matches \ {m} : finished'[n] = finished[n]
    BY <1>0, <2>1
  <2>3. \A i, j \in DOMAIN finished'[m] : finished'[m][i] = finished'[m][j] => i = j
    BY <2>1, <2>2 DEF NoRepeats
  <2>4. NoRepeats'
    BY <2>2, <2>3 DEF NoRepeats
  <2>5. \A n \in Matches : \A i \in DOMAIN finished[n] :
          i \in DOMAIN finished'[n] /\ finished'[n][i] = finished[n][i]
    BY <2>1, <2>2
  <2> QED
    BY <1>0, <2>1, <2>4, <2>5 DEF Kept
<1> HIDE DEF Goal
<1>6. ASSUME NEW m \in Matches, DeleteRoom(m) PROVE Goal
  BY <1>2, <1>6 DEF DeleteRoom
<1>7. ASSUME SweepApply PROVE Goal
  BY <1>2, <1>7 DEF SweepApply, Stale
<1>8. ASSUME Dropped PROVE Goal
  BY <1>2, <1>8 DEF Dropped
<1>9. ASSUME NEW m \in Matches, NEW p \in Players, IssueJoinTicket(m, p) PROVE Goal
  BY <1>1, <1>9 DEF IssueJoinTicket
<1>10. ASSUME NEW m \in Matches, NEW p \in Players, RemovePlayer(m, p) PROVE Goal
  BY <1>1, <1>10 DEF RemovePlayer, drawnVars
<1>11. ASSUME NEW t \in tickets, ConsumeTicket(t) PROVE Goal
  BY <1>1, <1>11 DEF ConsumeTicket, roomVars, drawnVars
<1>12. ASSUME NEW c \in joining, RegisterPlayer(c) PROVE Goal
  BY <1>1, <1>12 DEF RegisterPlayer, drawnVars
<1>13. ASSUME NEW m \in Matches, NEW p \in Players, NEW param \in Kinds,
              NEW direction \in ParamDirection,
              UpdatePlayerParams(m, p, param, direction)
       PROVE  Goal
  BY <1>1, <1>13 DEF UpdatePlayerParams, drawnVars
<1>14. ASSUME SweepBegin \/ Tick \/ UNCHANGED vars PROVE Goal
  BY <1>1, <1>14 DEF SweepBegin, Tick, vars, roomVars, drawnVars
<1>15. Goal
  BY <1>3, <1>4, <1>5, <1>6, <1>7, <1>8, <1>9, <1>10, <1>11, <1>12, <1>13, <1>14
  DEF Next
<1> QED
  BY <1>15 DEF Goal

\* A restart leaves a well-typed state with no ticket for a room that is gone.
LEMMA CoreInvStep ==
  ASSUME CoreInv, [ApiNext]_everything
  PROVE  CoreInv' /\ Kept
<1>1. [Next]_vars \/ Dropped
  BY CoreStep DEF CoreInv
<1>2. NoRepeats' /\ IsFiniteSet(matches') /\ Kept
  BY <1>1, KeptStep DEF CoreInv
<1>3. TypeOK' /\ TicketsNameLiveRooms'
  <2>1. CASE [Next]_vars
    BY <2>1, TypeStep, TicketsStep DEF CoreInv
  <2>2. ASSUME NEW S \in SUBSET matches, DropRooms(S), joining' \subseteq joining,
               UNCHANGED <<now, sweepAt, drawnVars>>
        PROVE  TypeOK' /\ TicketsNameLiveRooms'
    <3>1. TypeOK'
      BY <2>2, NewHandleType, ConstantTypes
      DEF CoreInv, TypeOK, DropRooms, TicketsWithout, NoHandles, Time, drawnVars
    <3>2. TicketsNameLiveRooms'
      BY <2>2 DEF CoreInv, TicketsNameLiveRooms, DropRooms, TicketsWithout
    <3> QED
      BY <3>1, <3>2
  <2> QED
    BY <1>1, <2>1, <2>2 DEF Dropped
<1> QED
  BY <1>2, <1>3 DEF CoreInv

-----------------------------------------------------------------------------
(* Answers *)

Codes == {0, 200, 204, 400, 404, 409, 413, 415, 422, 502}
Refusals == {"not_found", "failed_precondition", "unavailable"}

RequestRecord == [pc     : {"unsent", "waiting", "calling", "answered", "gone", "rejected"},
                  route  : Routes \cup {None},
                  match  : Matches \cup {None},
                  player : Players \cup {None},
                  code   : Codes,
                  number : Nat,
                  after  : SUBSET Requests]

RequestType == request \in [Requests -> RequestRecord]

\* The answers that tell something about a match.
Telling == {"start", "get", "finish"}

\* What the state still shows of an answer: a deleted match is closed, and while a
\* match is open it has the start time and the rank that were told.
Borne(r) ==
  LET a == request[r] IN
  /\ At(r, "answered") /\ a.code = 204 => a.match \in drawnMatches \ matches
  /\ Succeeded(r, Telling) => a.match \in drawnMatches
  /\ a.match \in matches =>
       /\ Succeeded(r, {"start", "get"}) => a.number \in {0, startedAt[a.match]}
       /\ Succeeded(r, {"finish"}) => /\ a.number \in DOMAIN finished[a.match]
                                      /\ finished[a.match][a.number] = a.player

\* An answer is about an open match.
Live(r) == Succeeded(r, Telling) => request[r].match \in matches

JustAnswered(r) == At(r, "answered")' /\ request'[r] # request[r]

\* A step answers at most one request, about an open match, and truthfully.
Truthful ==
  /\ RequestType'
  /\ \A r \in Requests : JustAnswered(r) =>
       Borne(r)' /\ Live(r)' /\ \A s \in Requests \ {r} : request'[s] = request[s]

\* Only "ok" becomes 200 or 204, the latter for deletions only.
LEMMA OkCodes ==
  ASSUME NEW route, NEW status \in Refusals \cup {"ok"}
  PROVE  /\ HttpCode(route, status) \in Codes
         /\ HttpCode(route, status) \in {200, 204} => status = "ok"
         /\ HttpCode(route, status) = 204 <=> status = "ok" /\ route = "delete"
BY DEF HttpCode, Codes, Refusals

\* What the extractors answer is no answer of a handler.
LEMMA RejectedFields ==
  ASSUME NEW route \in Routes, NEW code \in Rejections(route)
  PROVE  LET a == Rejected(route, code) IN
         /\ a \in RequestRecord
         /\ a.pc = "rejected" /\ a.route = route /\ a.code = code /\ a.after = {}
<1>1. code \in Codes
  BY DEF Rejections, Codes, Routes
<1> QED
  BY <1>1 DEF Rejected, Fresh, RequestRecord

\* An answer changes the request it answers and no other.
LEMMA AnswerStep ==
  ASSUME RequestType, NEW r \in Requests, NEW status \in Refusals \cup {"ok"},
         NEW number \in Nat, Answer(r, status, number)
  PROVE  /\ RequestType'
         /\ \A s \in Requests \ {r} : request'[s] = request[s]
         /\ request'[r].code = HttpCode(request[r].route, status)
         /\ request'[r].number = number
         /\ request'[r].route = request[r].route
         /\ request'[r].match = request[r].match
         /\ request'[r].player = request[r].player
         /\ request'[r].after = request[r].after
         /\ request'[r].pc = "answered"
<1> DEFINE code == HttpCode(request[r].route, status)
           answer == [request[r] EXCEPT !.pc = "answered", !.code = code,
                                        !.number = number]
<1>1. code \in Codes
  BY OkCodes
<1>2. request[r] \in RequestRecord
  BY DEF RequestType
<1>3. request' = [request EXCEPT ![r] = answer]
  BY <1>2 DEF Answer, RequestRecord
<1> HIDE DEF code
<1>4. /\ answer.code = code /\ answer.number = number /\ answer.pc = "answered"
      /\ answer.route = request[r].route /\ answer.match = request[r].match
      /\ answer.player = request[r].player /\ answer.after = request[r].after
  BY <1>2 DEF RequestRecord
<1>5. answer \in RequestRecord
  BY <1>1, <1>2 DEF RequestRecord
<1> HIDE DEF answer
<1> QED
  BY <1>3, <1>4, <1>5 DEF RequestType, code

\* A handler that ends without an answer, or has ended, tells nothing.
LEMMA SilentStep ==
  ASSUME RequestType, NEW r \in Requests, NEW pc \in {"waiting", "calling", "gone"},
         \/ request' = [request EXCEPT ![r].pc = pc]
         \/ request' = [request EXCEPT ![r] = Gone]
         \/ request' = request
  PROVE  Truthful
<1>1. Gone \in RequestRecord /\ Gone.pc = "gone"
  BY DEF Gone, Fresh, Codes, RequestRecord
<1>2. RequestType'
  BY <1>1 DEF RequestType, RequestRecord
<1>3. ASSUME NEW s \in Requests PROVE request'[s] = request[s] \/ request'[s].pc # "answered"
  <2>1. CASE request' = [request EXCEPT ![r].pc = pc]
    <3>1. s # r => request'[s] = request[s]
      BY <2>1 DEF RequestType
    <3>2. request'[r].pc = pc
      BY <2>1 DEF RequestType, RequestRecord
    <3> QED
      BY <3>1, <3>2
  <2>2. CASE request' = [request EXCEPT ![r] = Gone]
    BY <1>1, <2>2 DEF RequestType
  <2> QED
    BY <2>1, <2>2
<1> QED
  BY <1>2, <1>3 DEF Truthful, JustAnswered, At

\* A refusal, or a broken connection, tells nothing about the match.
LEMMA RefusalStep ==
  ASSUME RequestType, NEW r \in Requests, NEW status \in Refusals, Answer(r, status, 0)
  PROVE  Truthful
<1>1. /\ RequestType'
      /\ \A s \in Requests \ {r} : request'[s] = request[s]
      /\ request'[r].code = HttpCode(request[r].route, status)
  BY AnswerStep
<1>2. request'[r].code \notin {200, 204}
  BY <1>1, OkCodes DEF Refusals
<1>3. Borne(r)' /\ Live(r)'
  BY <1>2 DEF Borne, Live, Succeeded
<1>4. \A s \in Requests : JustAnswered(s) => s = r
  BY <1>1 DEF JustAnswered
<1> QED
  BY <1>1, <1>3, <1>4 DEF Truthful

\* Nor does a call nobody waits for (a handler that was dropped).
LEMMA AbandonedStep ==
  ASSUME RequestType, NEW r \in Requests, Abandoned(r)
  PROVE  Truthful
<1>1. \/ request' = [request EXCEPT ![r] = Gone]
      \/ request' = request
  BY DEF Abandoned, RequestType
<1> QED
  BY <1>1, SilentStep

\* A refused call tells nothing either, whether or not its reply arrives.
LEMMA ReturnRefused ==
  ASSUME RequestType, NEW r \in Requests, NEW status \in Refusals, Return(r, status, 0)
  PROVE  Truthful
BY RefusalStep, AbandonedStep DEF Return, Refusals

\* The reply "ok" tells what the call left behind, if it arrives.
LEMMA ReturnOk ==
  ASSUME RequestType, NEW r \in Requests, NEW number \in Nat, Return(r, "ok", number),
         request[r].route = "delete"
           => request[r].match \in drawnMatches' \ matches',
         request[r].route \in Telling
           => request[r].match \in drawnMatches' \cap matches',
         request[r].route \in {"start", "get"}
           => number \in {0, startedAt'[request[r].match]},
         request[r].route = "finish"
           => /\ number \in DOMAIN finished'[request[r].match]
              /\ finished'[request[r].match][number] = request[r].player
  PROVE  Truthful
<1>1. CASE Answer(r, "ok", number)
  <2>1. /\ RequestType'
        /\ \A s \in Requests \ {r} : request'[s] = request[s]
        /\ request'[r].code = HttpCode(request[r].route, "ok")
        /\ request'[r].number = number
        /\ request'[r].route = request[r].route
        /\ request'[r].match = request[r].match
        /\ request'[r].player = request[r].player
    BY <1>1, AnswerStep
  <2>2. request'[r].code = 204 => request[r].route = "delete"
    BY <2>1, OkCodes
  <2>3. Borne(r)' /\ Live(r)'
    BY <2>1, <2>2 DEF Borne, Live, Succeeded, Telling
  <2>4. \A s \in Requests : JustAnswered(s) => s = r
    BY <2>1 DEF JustAnswered
  <2> QED
    BY <2>1, <2>3, <2>4 DEF Truthful
<1>2. CASE Answer(r, "unavailable", 0)
  BY <1>2, RefusalStep DEF Refusals
<1>3. CASE Abandoned(r)
  BY <1>3, AbandonedStep
<1> QED
  BY <1>1, <1>2, <1>3 DEF Return

-----------------------------------------------------------------------------
(* Routes *)

\* list and create tell nothing about a match that exists already.
LEMMA ListCreateTruthful ==
  ASSUME RequestType, IsFiniteSet(matches), NEW r \in Requests,
         ListRooms(r) \/ Create(r)
  PROVE  Truthful
<1>1. Cardinality({m \in matches : ~Started(m)}) \in Nat
  <2>1. {m \in matches : ~Started(m)} \subseteq matches
    OBVIOUS
  <2> QED
    BY <2>1, FS_Subset, FS_CardinalityType
<1>2. CASE ListRooms(r)
  BY <1>1, <1>2, ReturnOk DEF ListRooms, Telling
<1>3. CASE Create(r)
  BY <1>3, ReturnOk DEF Create, Telling
<1> QED
  BY <1>2, <1>3

\* join tells nothing the theorems are about.
LEMMA JoinTruthful ==
  ASSUME RequestType, NEW r \in Requests, Join(r)
  PROVE  Truthful
BY ReturnOk, ReturnRefused DEF Join, Telling, Refusals

\* get reads the start time of a room that is there.
LEMMA GetTruthful ==
  ASSUME TypeOK, RequestType, NEW r \in Requests, GetRoom(r)
  PROVE  Truthful
<1> DEFINE m == request[r].match
<1>1. request[r].route = "get" /\ UNCHANGED vars
  BY DEF GetRoom
<1>2. CASE m \in matches /\ Return(r, "ok", startedAt[m])
  <2>1. m \in drawnMatches /\ startedAt[m] \in Nat
    BY <1>2, ConstantTypes DEF TypeOK, Time
  <2>2. /\ m \in drawnMatches' \cap matches'
        /\ startedAt[m] \in {0, startedAt'[m]}
    BY <1>1, <1>2, <2>1 DEF vars, roomVars, drawnVars
  <2> QED
    BY <1>1, <1>2, <2>1, <2>2, ReturnOk
<1>3. CASE Return(r, "not_found", 0)
  BY <1>3, ReturnRefused DEF Refusals
<1> QED
  BY <1>2, <1>3 DEF GetRoom

\* start tells the start time it set, or the one it found.
LEMMA StartTruthful ==
  ASSUME TypeOK, RequestType, NEW r \in Requests, Start(r)
  PROVE  Truthful
<1> DEFINE m == request[r].match
<1>0. request[r].route = "start" /\ matches \subseteq drawnMatches
      /\ drawnMatches \subseteq Matches /\ startedAt \in [Matches -> Nat] /\ now \in Nat
  BY ConstantTypes DEF Start, TypeOK, Time
<1>1. CASE StartRoom(m) /\ Return(r, "ok", startedAt'[m])
  <2>1. /\ m \in matches /\ UNCHANGED <<matches, drawnMatches>>
        /\ startedAt' = [startedAt EXCEPT ![m] = now]
    BY <1>1 DEF StartRoom, Startable, drawnVars
  <2>2. m \in drawnMatches' \cap matches' /\ startedAt'[m] \in Nat
    BY <1>0, <2>1
  <2> QED
    BY <1>0, <1>1, <2>2, ReturnOk
<1>2. CASE m \in matches /\ Return(r, "ok", startedAt[m]) /\ UNCHANGED vars
  <2>1. /\ m \in drawnMatches' \cap matches' /\ startedAt[m] \in Nat
        /\ startedAt[m] = startedAt'[m]
    BY <1>0, <1>2 DEF vars, roomVars, drawnVars
  <2> QED
    BY <1>0, <1>2, <2>1, ReturnOk
<1>3. CASE Return(r, "not_found", 0)
  BY <1>3, ReturnRefused DEF Refusals
<1> QED
  BY <1>1, <1>2, <1>3 DEF Start

\* finish tells the place the player has in the ranking, new or not.
LEMMA FinishTruthful ==
  ASSUME TypeOK, RequestType, NEW r \in Requests, Finish(r)
  PROVE  Truthful
<1> DEFINE m == request[r].match
           p == request[r].player
<1>0. /\ request[r].route = "finish" /\ matches \subseteq drawnMatches
      /\ drawnMatches \subseteq Matches /\ finished \in [Matches -> Seq(drawnPlayers)]
      /\ m \in Matches => finished[m] \in Seq(drawnPlayers)
  BY DEF Finish, TypeOK
<1>1. CASE FinishRoom(m, p) /\ Return(r, "ok", Len(finished'[m]))
  <2>1. /\ m \in matches /\ UNCHANGED <<matches, drawnMatches>>
        /\ finished' = [finished EXCEPT ![m] = Append(@, p)]
    BY <1>1 DEF FinishRoom, drawnVars
  <2>2. m \in Matches /\ finished'[m] = Append(finished[m], p)
    BY <1>0, <2>1
  <2>3. /\ Len(finished'[m]) \in Nat /\ Len(finished'[m]) \in DOMAIN finished'[m]
        /\ finished'[m][Len(finished'[m])] = p
    BY <1>0, <2>2
  <2>4. m \in drawnMatches' \cap matches'
    BY <1>0, <2>1
  <2> QED
    BY <1>0, <1>1, <2>3, <2>4, ReturnOk
<1>2. CASE /\ m \in matches /\ Started(m) /\ p \in players[m] \cap Finishers(m)
           /\ Return(r, "ok", RankIn(finished[m], p))
           /\ UNCHANGED vars
  <2> DEFINE i == RankIn(finished[m], p)
  <2>1. i \in DOMAIN finished[m] /\ finished[m][i] = p
    BY <1>2 DEF Finishers, RankIn
  <2>2. i \in Nat
    BY <1>0, <1>2, <2>1
  <2>3. /\ m \in drawnMatches' \cap matches'
        /\ finished' = finished
    BY <1>0, <1>2 DEF vars, roomVars, drawnVars
  <2> HIDE DEF i
  <2> QED
    BY <1>0, <1>2, <2>1, <2>2, <2>3, ReturnOk DEF i
<1>3. CASE Return(r, "not_found", 0) \/ Return(r, "failed_precondition", 0)
  BY <1>3, ReturnRefused DEF Refusals
<1> QED
  BY <1>1, <1>2, <1>3 DEF Finish

\* delete tells that the room is gone.
LEMMA DeleteTruthful ==
  ASSUME TypeOK, RequestType, NEW r \in Requests, Delete(r)
  PROVE  Truthful
<1> DEFINE m == request[r].match
<1>1. CASE DeleteRoom(m) /\ Return(r, "ok", 0)
  <2>1. m \in drawnMatches' \ matches' /\ request[r].route = "delete"
    BY <1>1 DEF DeleteRoom, DropRooms, TicketsWithout, drawnVars, Delete, TypeOK
  <2> QED
    BY <1>1, <2>1, ReturnOk DEF Telling
<1>2. CASE Return(r, "not_found", 0)
  BY <1>2, ReturnRefused DEF Refusals
<1> QED
  BY <1>1, <1>2 DEF Delete

\* Whatever happens, what is answered is true when it is answered.
LEMMA StepTruthful ==
  ASSUME TypeOK, IsFiniteSet(matches), RequestType, [ApiNext]_everything
  PROVE  Truthful
<1>1. ASSUME NEW r \in Requests, Serve(r) PROVE Truthful
  BY <1>1, ListCreateTruthful, JoinTruthful, GetTruthful, StartTruthful,
     FinishTruthful, DeleteTruthful DEF Serve
<1>2. ASSUME NEW r \in Requests, CallOut(r) PROVE Truthful
  BY <1>2, SilentStep DEF CallOut
<1>3. ASSUME NEW r \in Requests, ConnectionLost(r) PROVE Truthful
  BY <1>3, RefusalStep DEF ConnectionLost, Refusals
<1>4. ASSUME NEW r \in Requests, HangUp(r) PROVE Truthful
  <2>1. \/ request' = [request EXCEPT ![r].pc = "gone"]
        \/ request' = [request EXCEPT ![r] = Gone]
    BY <1>4 DEF HangUp
  <2> QED
    BY <2>1, SilentStep
<1>5. ASSUME NEW r \in Requests, DropCall(r) PROVE Truthful
  BY <1>5, AbandonedStep DEF DropCall
<1>6. ASSUME NEW r \in Requests, NEW route \in Routes,
             NEW m \in drawnMatches \cup {None}, NEW p \in drawnPlayers \cup {None},
             Arrive(r, route, m, p)
      PROVE  Truthful
  <2> DEFINE record == Fresh("waiting", route, m, p,
                             {q \in Requests : At(q, "answered")})
  <2>1. record \in RequestRecord /\ record.pc = "waiting"
    <3>1. m \in Matches \cup {None} /\ p \in Players \cup {None}
      BY DEF TypeOK
    <3> QED
      BY <3>1 DEF Fresh, RequestRecord, Codes
  <2>2. request' = [request EXCEPT ![r] = record]
    BY <1>6 DEF Arrive
  <2> HIDE DEF record
  <2>3. RequestType'
    BY <2>1, <2>2 DEF RequestType
  <2>4. \A s \in Requests : request'[s] = request[s] \/ request'[s].pc # "answered"
    BY <2>1, <2>2 DEF RequestType
  <2> QED
    BY <2>3, <2>4 DEF Truthful, JustAnswered, At
<1>9. ASSUME NEW r \in Requests, NEW route \in Routes, NEW code \in Rejections(route),
             Reject(r, route, code)
      PROVE  Truthful
  <2> DEFINE record == Rejected(route, code)
  <2>1. record \in RequestRecord /\ record.pc = "rejected"
    BY RejectedFields
  <2>2. request' = [request EXCEPT ![r] = record]
    BY <1>9 DEF Reject
  <2> HIDE DEF record
  <2>3. RequestType'
    BY <2>1, <2>2 DEF RequestType
  <2>4. \A s \in Requests : request'[s] = request[s] \/ request'[s].pc # "answered"
    BY <2>1, <2>2 DEF RequestType
  <2> QED
    BY <2>3, <2>4 DEF Truthful, JustAnswered, At
<1>7. ASSUME request' = request PROVE Truthful
  BY <1>7 DEF Truthful, RequestType, JustAnswered
<1>8. CASE Restart \/ OtherCore \/ UNCHANGED everything
  BY <1>7, <1>8 DEF Restart, OtherCore, apiVars, everything
<1> QED
  BY <1>1, <1>2, <1>3, <1>4, <1>5, <1>6, <1>8, <1>9 DEF ApiNext, Progress

-----------------------------------------------------------------------------
(* Theorems *)

AllBorne == \A r \in Requests : Borne(r)

ApiInv == CoreInv /\ RequestType /\ AllBorne /\ AnswersAgree

\* What two answers about one match must not contradict each other about.
Agree(r, s) ==
  LET a == request[r]  b == request[s] IN
  /\ Succeeded(r, {"start", "get"}) /\ Succeeded(s, {"start", "get"})
       => a.number = b.number \/ 0 \in {a.number, b.number}
  /\ Succeeded(r, {"finish"}) /\ Succeeded(s, {"finish"})
       => (a.number = b.number <=> a.player = b.player)

OpenAgree ==
  \A r, s \in Requests :
    request[r].match = request[s].match /\ request[r].match \in matches => Agree(r, s)

\* Nothing has been asked yet.
LEMMA ApiInvInit == ApiInit => ApiInv
<1> SUFFICES ASSUME ApiInit PROVE ApiInv
  OBVIOUS
<1>1. CoreInv
  BY TypeInit, FS_EmptySet
  DEF ApiInit, Init, CoreInv, TicketsNameLiveRooms, NoRepeats
<1>2. RequestType /\ \A r \in Requests : request[r].pc = "unsent"
  BY DEF ApiInit, Unsent, Fresh, RequestType, RequestRecord, Codes
<1>3. AllBorne /\ AnswersAgree
  BY <1>2 DEF AllBorne, Borne, AnswersAgree, Succeeded, At
<1> QED
  BY <1>1, <1>2, <1>3 DEF ApiInv

\* An answer already given is borne out by the next state too: the state keeps
\* what it showed.
LEMMA BorneStays ==
  ASSUME ApiInv, Kept, NEW r \in Requests, request'[r] = request[r]
  PROVE  Borne(r)'
<1>1. Borne(r)
  BY DEF ApiInv, AllBorne
<1>2. Succeeded(r, Telling)' = Succeeded(r, Telling)
      /\ Succeeded(r, {"start", "get"})' = Succeeded(r, {"start", "get"})
      /\ Succeeded(r, {"finish"})' = Succeeded(r, {"finish"})
      /\ At(r, "answered")' = At(r, "answered")
  BY DEF Succeeded, At
<1> DEFINE m == request[r].match
           i == request[r].number
<1>3. At(r, "answered") /\ request[r].code = 204 => m \in drawnMatches' \ matches'
  BY <1>1 DEF Borne, Kept
<1>4. Succeeded(r, Telling) => m \in drawnMatches'
  BY <1>1 DEF Borne, Kept
<1>5. m \in matches' /\ Succeeded(r, Telling) => m \in matches \cap matches'
  BY <1>1 DEF Borne, Kept
<1>6. m \in matches' /\ Succeeded(r, {"start", "get"}) => i \in {0, startedAt'[m]}
  <2>1. Succeeded(r, {"start", "get"}) => Succeeded(r, Telling)
    BY DEF Succeeded, Telling
  <2> QED
    BY <1>1, <1>5, <2>1 DEF Borne, Kept, Started
<1>7. m \in matches' /\ Succeeded(r, {"finish"})
        => i \in DOMAIN finished'[m] /\ finished'[m][i] = request[r].player
  <2>1. Succeeded(r, {"finish"}) => Succeeded(r, Telling)
    BY DEF Succeeded, Telling
  <2> QED
    BY <1>1, <1>5, <2>1 DEF Borne, Kept
<1> QED
  BY <1>2, <1>3, <1>4, <1>6, <1>7 DEF Borne

\* Answers about a match that is open, all borne out by it, agree.
LEMMA BorneAgree == CoreInv /\ AllBorne => OpenAgree
<1> SUFFICES ASSUME CoreInv, AllBorne, NEW r \in Requests, NEW s \in Requests,
                    request[r].match = request[s].match, request[r].match \in matches
             PROVE  Agree(r, s)
  BY DEF OpenAgree
<1>1. request[r].match \in Matches
  BY DEF CoreInv, TypeOK
<1> QED
  BY <1>1 DEF AllBorne, Borne, Agree, CoreInv, NoRepeats

\* A new answer is about an open match, and an answer about a closed match is old.
LEMMA ApiInvStep ==
  ASSUME ApiInv, [ApiNext]_everything
  PROVE  ApiInv'
<1>1. CoreInv' /\ Kept
  BY CoreInvStep DEF ApiInv
<1>2. Truthful
  BY StepTruthful DEF ApiInv, CoreInv
<1>3. AllBorne'
  <2> SUFFICES ASSUME NEW r \in Requests PROVE Borne(r)'
    BY DEF AllBorne
  <2>1. CASE request'[r] = request[r]
    BY <1>1, <2>1, BorneStays
  <2>2. CASE JustAnswered(r)
    BY <1>2, <2>2 DEF Truthful
  <2>3. CASE ~At(r, "answered")'
    BY <2>3 DEF Borne, Succeeded
  <2> QED
    BY <2>1, <2>2, <2>3 DEF JustAnswered
<1>4. OpenAgree'
  BY <1>1, <1>3, BorneAgree, PTL
<1>5. ASSUME NEW r \in Requests, NEW s \in Requests,
             request'[r].match = request'[s].match
      PROVE  Agree(r, s)'
  <2>1. CASE request'[r].match \in matches'
    BY <1>4, <1>5, <2>1 DEF OpenAgree
  <2>2. ASSUME request'[r].match \notin matches',
               JustAnswered(r) \/ JustAnswered(s)
        PROVE  Agree(r, s)'
    <3>1. ~(Succeeded(r, Telling)' /\ Succeeded(s, Telling)')
      BY <1>2, <1>5, <2>2 DEF Truthful, Live
    <3> QED
      BY <3>1 DEF Agree, Succeeded, Telling
  <2>3. ASSUME request'[r] = request[r], request'[s] = request[s]
        PROVE  Agree(r, s)'
    BY <1>5, <2>3 DEF ApiInv, AnswersAgree, Agree, Succeeded, At
  <2>4. ASSUME ~(At(r, "answered")' /\ At(s, "answered")')
        PROVE  Agree(r, s)'
    BY <2>4 DEF Agree, Succeeded
  <2> QED
    BY <2>1, <2>2, <2>3, <2>4 DEF JustAnswered
<1>6. AnswersAgree'
  BY <1>5 DEF AnswersAgree, Agree
<1> QED
  BY <1>1, <1>2, <1>3, <1>6 DEF ApiInv, Truthful

\* So the invariant holds in every state the API can be in.
LEMMA ApiInvHolds == ApiSpec => []ApiInv
BY ApiInvInit, ApiInvStep, PTL DEF ApiSpec

\* Once a deletion is answered, the match and every ticket for it are gone for good,
\* whatever calls are still under way and whether or not the server restarts
\* (delete_match, delete_room).
THEOREM DeletionsStand == ApiSpec => []DeleteIsFinal
<1>1. ApiInv => DeleteIsFinal
  <2> SUFFICES ASSUME ApiInv, NEW r \in Requests, At(r, "answered"),
                      request[r].code = 204
               PROVE  LET m == request[r].match IN
                      /\ m \notin matches
                      /\ players[m] = {} /\ startedAt[m] = 0 /\ finished[m] = <<>>
                      /\ \A t \in tickets : t.match # m
    BY DEF DeleteIsFinal
  <2>1. request[r].match \in drawnMatches \ matches
    BY DEF ApiInv, AllBorne, Borne
  <2> QED
    BY <2>1 DEF ApiInv, CoreInv, TypeOK, TicketsNameLiveRooms
<1> QED
  BY <1>1, ApiInvHolds, PTL

\* No two answers contradict each other about a start time or a rank, across
\* retries, calls whose answer was lost, and restarts (start_match, get_match,
\* finish_match).
THEOREM AnswersConsistent == ApiSpec => []AnswersAgree
<1>1. ApiInv => AnswersAgree
  BY DEF ApiInv
<1> QED
  BY <1>1, ApiInvHolds, PTL

\* Restarts and cleanups between the calls leave a well-typed table, in which every
\* ticket names a room that is there (main.rs, delete_stale_lobby_rooms).
THEOREM CoreStaysSound == ApiSpec => [](TypeOK /\ TicketsNameLiveRooms)
<1>1. ApiInv => TypeOK /\ TicketsNameLiveRooms
  BY DEF ApiInv, CoreInv
<1> QED
  BY <1>1, ApiInvHolds, PTL

-----------------------------------------------------------------------------
(* The life of a match, across restarts *)

\* What is dropped makes room, and gives nobody a second place.
LEMMA GuestInvStep ==
  ASSUME GuestInv, CoreInv, [ApiNext]_everything
  PROVE  GuestInv'
<1>1. TypeOK' /\ TicketsNameLiveRooms'
  BY CoreInvStep DEF CoreInv
<1>2. CASE [Next]_vars
  BY <1>1, <1>2, AdmissionStep, RostersStep, ClaimsStep DEF GuestInv
<1>3. ASSUME NEW S \in SUBSET matches, DropRooms(S), joining' \subseteq joining,
             UNCHANGED drawnVars
      PROVE  SingleAdmission' /\ RostersFit' /\ ClaimsDrawn'
  <2>1. /\ tickets' \subseteq tickets
        /\ \A m \in Matches : players'[m] \in {players[m], {}}
    BY <1>3 DEF DropRooms, TicketsWithout
  <2>2. SingleAdmission'
    BY <1>3, <2>1 DEF GuestInv, SingleAdmission
  <2>3. RostersFit'
    BY <2>1, FS_EmptySet, ConstantTypes DEF GuestInv, RostersFit
  <2>4. ClaimsDrawn'
    BY <1>3 DEF GuestInv, ClaimsDrawn, drawnVars
  <2> QED
    BY <2>2, <2>3, <2>4
<1> QED
  BY <1>1, <1>2, <1>3, CoreStep DEF CoreInv, GuestInv, Dropped

LEMMA GuestInvHolds == ApiSpec => []GuestInv
<1>1. ApiInit => GuestInv
  BY TypeInit, FS_EmptySet, ConstantTypes
  DEF ApiInit, Init, GuestInv, SingleAdmission, RostersFit, TicketsNameLiveRooms,
      ClaimsDrawn
<1>2. ApiInv => CoreInv
  BY DEF ApiInv
<1>3. CoreInv /\ GuestInv /\ [ApiNext]_everything => GuestInv'
  BY GuestInvStep
<1> QED
  BY <1>1, <1>2, <1>3, ApiInvHolds, PTL DEF ApiSpec

\* A restart is a crash of the abstract server, a cleanup the end of some lobbies.
LEMMA DroppedCloses ==
  ASSUME TypeOK, Dropped
  PROVE  Lifecycle!Next \/ Lifecycle!Crash
<1>1. PICK S \in SUBSET matches :
        /\ S = matches \/ \A m \in S : ~Started(m)
        /\ DropRooms(S) /\ UNCHANGED drawnVars
  BY DEF Dropped
<1>2. Lifecycle!CloseAll(S)
  BY <1>1, RoomsClose
<1>3. matches \subseteq drawnMatches /\ drawnMatches \subseteq Matches
  BY DEF TypeOK
<1>4. CASE S = matches
  <2>1. S = {m \in Matches : Lifecycle!Open(m)}
    BY <1>3, <1>4 DEF Lifecycle!Open, PhaseOf
  <2> QED
    BY <1>2, <2>1 DEF Lifecycle!Crash
<1>5. CASE \A m \in S : ~Started(m)
  <2>1. \A m \in S : PhaseMap[m] = "lobby"
    BY <1>3, <1>5 DEF PhaseMap, PhaseOf
  <2>2. Lifecycle!Expire(S)
    BY <1>2, <2>1 DEF Lifecycle!Expire, PhaseMap
  <2> QED
    BY <1>3, <2>2 DEF Lifecycle!Next
<1> QED
  BY <1>1, <1>4, <1>5

\* So the control plane behind the API is what MatchLifecycle says of a server that
\* may go down: no abandoned call, retry or restart gives a match a second life
\* (main.rs; create_room draws its ids afresh).
THEOREM LifeAcrossRestarts == ApiSpec => Lifecycle!CrashSpec /\ RestartsOnlyClose
<1>1. ApiInit => Lifecycle!Init
  BY DEF ApiInit, Init, Lifecycle!Init, PhaseOf
<1>2. GuestInv /\ [ApiNext]_everything
        => [Lifecycle!Next \/ Lifecycle!Crash]_(Lifecycle!lifecycleVars)
  BY CoreStep, LifecycleStep, DroppedCloses DEF GuestInv
<1> QED
  BY <1>1, <1>2, GuestInvHolds, PTL
  DEF ApiSpec, Lifecycle!CrashSpec, RestartsOnlyClose

\* Whatever restarts and retries do, nobody is ranked twice, and a rank stands while
\* its room is there (finish_player).
THEOREM RanksAcrossRestarts == ApiSpec => []RankingSound /\ RankIsFinal
BY LifeAcrossRestarts, RanksOfALife, PTL

\* Behind the API, too, a ticket admits once, to its own room, no room is overfull, and
\* whoever is out stays out: a restart is no chance to come in again (main.rs).
THEOREM AdmissionAcrossRestarts ==
  ApiSpec => [](SingleAdmission /\ Capacity) /\ ImplementsAdmission /\ OutForGood
<1>1. ApiInit => Guests!Init
  BY DEF ApiInit, Init, Guests!Init, Invitations
<1>2. GuestInv /\ [ApiNext]_everything => [Guests!Next]_(Guests!admissionVars)
  <2>1. ASSUME GuestInv, Dropped PROVE Guests!Next
    <3>1. PICK S \in SUBSET matches :
            /\ DropRooms(S) /\ UNCHANGED drawnVars
            /\ joining' = joining \/ (joining' = {} /\ S = matches)
      BY <2>1 DEF Dropped
    <3>2. Guests!Close(S)
      BY <2>1, <3>1, GuestsGo DEF drawnVars
    <3> QED
      BY <3>2 DEF Guests!Next
  <2> QED
    BY <2>1, CoreStep, GuestStep DEF GuestInv
<1>3. GuestInv => SingleAdmission /\ Capacity
  BY DEF GuestInv, RostersFit, Capacity
<1>4. Guests!Init /\ []GuestInv /\ [][Guests!Next]_(Guests!admissionVars)
        => ImplementsAdmission /\ OutForGood
  BY GuestsPromise
<1> QED
  BY <1>1, <1>2, <1>3, <1>4, GuestInvHolds, PTL DEF ApiSpec

-----------------------------------------------------------------------------
(* Answers in order *)

Listing == {"list", "create"}

\* What a handler may answer of the match it was called for, and when.
Says(r, status, number) ==
  LET m == request[r].match  route == request[r].route IN
  /\ status \in Refusals \cup {"ok"} /\ number \in Nat
  /\ status = "ok" /\ route \notin Listing => m \in matches
  /\ status = "ok" /\ route = "get" =>
       m \in matches' /\ number = startedAt[m] /\ startedAt'[m] = startedAt[m]
  /\ status = "ok" /\ route \in {"start", "finish"} => m \in matches' /\ startedAt'[m] # 0
  /\ status = "ok" /\ route = "delete" => m \notin matches'
  /\ status = "not_found" /\ route # "finish" => m \notin matches'
  /\ status = "failed_precondition" =>
       /\ route \in {"join", "finish"} /\ m \in matches
       /\ route = "finish" => startedAt[m] = 0

\* The handler of r answers, whether or not its call is over.
Answered(r, status, number) ==
  /\ At(r, "calling")
  /\ Answer(r, status, number)
  /\ Says(r, status, number)
  /\ call' = call \/ call' = [call EXCEPT ![r] = "over"]

\* A call ends that nobody waits for.
Forgotten(r) == Abandoned(r) /\ call' = [call EXCEPT ![r] = "over"]

\* The request is answered, or its handler is gone already.
Ends(r) ==
  \/ Forgotten(r)
  \/ \E status \in Refusals \cup {"ok"}, number \in Nat : Answered(r, status, number)

LEMMA ReturnEnds ==
  ASSUME NEW r \in Requests, NEW status, NEW number, Return(r, status, number),
         Says(r, status, number)
  PROVE  Ends(r)
<1>1. Says(r, "unavailable", 0)
  BY DEF Says, Refusals
<1>2. status \in Refusals \cup {"ok"} /\ number \in Nat
  BY DEF Says
<1>3. "unavailable" \in Refusals \cup {"ok"} /\ 0 \in Nat
  BY DEF Refusals
<1> QED
  BY <1>1, <1>2, <1>3 DEF Return, Ends, Answered, Forgotten

\* Every handler answers what the table shows in the critical section of its call.
LEMMA ServeEnds ==
  ASSUME TypeOK, IsFiniteSet(matches), NEW r \in Requests, Serve(r)
  PROVE  Ends(r)
<1> DEFINE m == request[r].match
           p == request[r].player
<1>0. /\ matches \subseteq Matches /\ startedAt \in [Matches -> Nat]
      /\ finished \in [Matches -> Seq(drawnPlayers)] /\ now \in Nat \ {0}
  BY ConstantTypes DEF TypeOK, Time
<1>1. CASE ListRooms(r)
  <2>1. {n \in matches : ~Started(n)} \subseteq matches
    OBVIOUS
  <2>2. Cardinality({n \in matches : ~Started(n)}) \in Nat
    BY <2>1, FS_Subset, FS_CardinalityType
  <2>3. Says(r, "ok", Cardinality({n \in matches : ~Started(n)}))
    BY <1>1, <2>2 DEF ListRooms, Says, Refusals, Listing
  <2> QED
    BY <1>1, <2>3, ReturnEnds DEF ListRooms
<1>2. CASE Create(r)
  <2>1. Says(r, "ok", 0)
    BY <1>2 DEF Create, Says, Refusals, Listing
  <2> QED
    BY <1>2, <2>1, ReturnEnds DEF Create
<1>3. CASE Join(r)
  <2>1. CASE Return(r, "ok", 0) /\ \E q \in Players : IssueJoinTicket(m, q)
    <3>1. m \in matches
      BY <2>1 DEF IssueJoinTicket
    <3>2. Says(r, "ok", 0)
      BY <1>3, <3>1 DEF Join, Says, Refusals
    <3> QED
      BY <2>1, <3>2, ReturnEnds
  <2>2. CASE m \notin matches /\ Return(r, "not_found", 0) /\ UNCHANGED vars
    <3>1. Says(r, "not_found", 0)
      BY <1>3, <2>2 DEF Join, Says, Refusals, vars, roomVars
    <3> QED
      BY <2>2, <3>1, ReturnEnds
  <2>3. CASE m \in matches /\ Return(r, "failed_precondition", 0)
    <3>1. Says(r, "failed_precondition", 0)
      BY <1>3, <2>3 DEF Join, Says, Refusals
    <3> QED
      BY <2>3, <3>1, ReturnEnds
  <2> QED
    BY <1>3, <2>1, <2>2, <2>3 DEF Join
<1>4. CASE GetRoom(r)
  <2>0. matches' = matches /\ startedAt' = startedAt
    BY <1>4 DEF GetRoom, vars, roomVars
  <2>1. CASE m \in matches /\ Return(r, "ok", startedAt[m])
    <3>1. Says(r, "ok", startedAt[m])
      BY <1>0, <1>4, <2>0, <2>1 DEF GetRoom, Says, Refusals
    <3> QED
      BY <2>1, <3>1, ReturnEnds
  <2>2. CASE m \notin matches /\ Return(r, "not_found", 0)
    <3>1. Says(r, "not_found", 0)
      BY <1>4, <2>0, <2>2 DEF GetRoom, Says, Refusals
    <3> QED
      BY <2>2, <3>1, ReturnEnds
  <2> QED
    BY <1>4, <2>1, <2>2 DEF GetRoom
<1>5. CASE Start(r)
  <2>1. CASE StartRoom(m) /\ Return(r, "ok", startedAt'[m])
    <3>1. m \in matches /\ matches' = matches /\ startedAt'[m] = now
      BY <1>0, <2>1 DEF StartRoom, Startable
    <3>2. Says(r, "ok", startedAt'[m])
      BY <1>0, <1>5, <3>1 DEF Start, Says, Refusals
    <3> QED
      BY <2>1, <3>2, ReturnEnds
  <2>2. CASE m \in matches /\ Started(m) /\ Return(r, "ok", startedAt[m]) /\ UNCHANGED vars
    <3>1. Says(r, "ok", startedAt[m])
      BY <1>0, <1>5, <2>2 DEF Start, Says, Refusals, Started, vars, roomVars
    <3> QED
      BY <2>2, <3>1, ReturnEnds
  <2>3. CASE m \notin matches /\ Return(r, "not_found", 0) /\ UNCHANGED vars
    <3>1. Says(r, "not_found", 0)
      BY <1>5, <2>3 DEF Start, Says, Refusals, vars, roomVars
    <3> QED
      BY <2>3, <3>1, ReturnEnds
  <2> QED
    BY <1>5, <2>1, <2>2, <2>3 DEF Start
<1>6. CASE Finish(r)
  <2>1. CASE FinishRoom(m, p) /\ Return(r, "ok", Len(finished'[m]))
    <3>1. /\ m \in matches /\ UNCHANGED <<matches, startedAt>> /\ Started(m)
          /\ finished' = [finished EXCEPT ![m] = Append(@, p)]
      BY <2>1 DEF FinishRoom
    <3>2. Len(finished'[m]) \in Nat
      <4>1. finished[m] \in Seq(drawnPlayers) /\ finished'[m] = Append(finished[m], p)
        BY <1>0, <3>1
      <4> QED
        BY <4>1
    <3>3. Says(r, "ok", Len(finished'[m]))
      BY <1>6, <3>1, <3>2 DEF Finish, Says, Refusals, Started
    <3> QED
      BY <2>1, <3>3, ReturnEnds
  <2>2. CASE /\ m \in matches /\ Started(m) /\ p \in players[m] \cap Finishers(m)
             /\ Return(r, "ok", RankIn(finished[m], p))
             /\ UNCHANGED vars
    <3>1. RankIn(finished[m], p) \in DOMAIN finished[m]
      BY <2>2 DEF Finishers, RankIn
    <3>2. RankIn(finished[m], p) \in Nat
      BY <1>0, <2>2, <3>1
    <3>3. Says(r, "ok", RankIn(finished[m], p))
      BY <1>6, <2>2, <3>2 DEF Finish, Says, Refusals, Started, vars, roomVars
    <3> QED
      BY <2>2, <3>3, ReturnEnds
  <2>3. CASE Return(r, "not_found", 0)
    <3>1. Says(r, "not_found", 0)
      BY <1>6 DEF Finish, Says, Refusals
    <3> QED
      BY <2>3, <3>1, ReturnEnds
  <2>4. CASE m \in matches /\ ~Started(m) /\ Return(r, "failed_precondition", 0)
    <3>1. Says(r, "failed_precondition", 0)
      BY <1>6, <2>4 DEF Finish, Says, Refusals, Started
    <3> QED
      BY <2>4, <3>1, ReturnEnds
  <2> QED
    BY <1>6, <2>1, <2>2, <2>3, <2>4 DEF Finish
<1>7. CASE Delete(r)
  <2>1. CASE DeleteRoom(m) /\ Return(r, "ok", 0)
    <3>1. m \in matches /\ m \notin matches'
      BY <2>1 DEF DeleteRoom, DropRooms, TicketsWithout
    <3>2. Says(r, "ok", 0)
      BY <1>7, <3>1 DEF Delete, Says, Refusals
    <3> QED
      BY <2>1, <3>2, ReturnEnds
  <2>2. CASE m \notin matches /\ Return(r, "not_found", 0) /\ UNCHANGED vars
    <3>1. Says(r, "not_found", 0)
      BY <1>7, <2>2 DEF Delete, Says, Refusals, vars, roomVars
    <3> QED
      BY <2>2, <3>1, ReturnEnds
  <2> QED
    BY <1>7, <2>1, <2>2 DEF Delete
<1> QED
  BY <1>1, <1>2, <1>3, <1>4, <1>5, <1>6, <1>7 DEF Serve

\* What becomes of a request in a step.
Arrived(r) ==
  /\ At(r, "unsent")
  /\ \E route \in Routes, m \in drawnMatches \cup {None}, p \in Players \cup {None} :
       /\ route \in Listing <=> m = None
       /\ request'[r] = Fresh("waiting", route, m, p, {q \in Requests : At(q, "answered")})
MovedOn(r) ==
  /\ request[r].pc \in {"waiting", "calling"}
  /\ \E pc \in {"calling", "gone"} : request'[r] = [request[r] EXCEPT !.pc = pc]
Replied(r, status, number) ==
  /\ At(r, "calling")
  /\ Says(r, status, number)
  /\ request'[r] = [request[r] EXCEPT !.pc = "answered", !.number = number,
                                      !.code = HttpCode(request[r].route, status)]
Replies(r) == \E status \in Refusals \cup {"ok"}, number \in Nat : Replied(r, status, number)
Ended(r) == ~At(r, "answered") /\ request'[r] = Gone
TurnedAway(r) ==
  /\ At(r, "unsent")
  /\ \E route \in Routes : \E code \in Rejections(route) : request'[r] = Rejected(route, code)

Moves(r) ==
  /\ \A s \in Requests \ {r} : request'[s] = request[s]
  /\ \/ request'[r] = request[r]
     \/ Arrived(r) \/ MovedOn(r) \/ Replies(r) \/ Ended(r) \/ TurnedAway(r)

\* The handlers' steps, told apart by what they do to the queue and the calls.
LEMMA StepCases ==
  ASSUME CoreInv, [ApiNext]_everything
  PROVE  \/ \E r \in Requests, route \in Routes, m \in drawnMatches \cup {None},
               p \in drawnPlayers \cup {None} : Arrive(r, route, m, p)
         \/ \E r \in Requests, route \in Routes : \E code \in Rejections(route) :
               Reject(r, route, code)
         \/ \E r \in Requests : CallOut(r) \/ HangUp(r) \/ Ends(r)
         \/ /\ UNCHANGED <<request, queue>>
            /\ \/ call' = call
               \/ call' = [r \in Requests |-> IF call[r] = "sent" THEN "over" ELSE call[r]]
<1>1. ASSUME NEW r \in Requests, Serve(r) PROVE Ends(r)
  BY <1>1, ServeEnds DEF CoreInv
<1>2. ASSUME NEW r \in Requests, ConnectionLost(r) PROVE Ends(r)
  <2>1. Says(r, "unavailable", 0) /\ "unavailable" \in Refusals \cup {"ok"} /\ 0 \in Nat
    BY DEF Says, Refusals
  <2> QED
    BY <1>2, <2>1 DEF ConnectionLost, Ends, Answered
<1>3. ASSUME NEW r \in Requests, DropCall(r) PROVE Ends(r)
  BY <1>3 DEF DropCall, Ends, Forgotten
<1>4. CASE Restart \/ OtherCore \/ UNCHANGED everything
  BY <1>4 DEF Restart, OtherCore, apiVars, everything
<1> QED
  BY <1>1, <1>2, <1>3, <1>4 DEF ApiNext, Progress

LEMMA StepMoves ==
  ASSUME CoreInv, RequestType, [ApiNext]_everything
  PROVE  request' = request \/ \E r \in Requests : Moves(r)
<1>0. request \in [Requests -> RequestRecord]
  BY DEF RequestType
<1>1. ASSUME NEW r \in Requests, NEW route \in Routes, NEW m \in drawnMatches \cup {None},
             NEW p \in drawnPlayers \cup {None}, Arrive(r, route, m, p)
      PROVE  Moves(r)
  <2>1. p \in Players \cup {None}
    BY DEF CoreInv, TypeOK
  <2> QED
    BY <1>0, <1>1, <2>1 DEF Arrive, Moves, Arrived, Listing
<1>2. ASSUME NEW r \in Requests, CallOut(r) PROVE Moves(r)
  <2>1. request' = [request EXCEPT ![r] = [request[r] EXCEPT !.pc = "calling"]]
    BY <1>0, <1>2 DEF CallOut
  <2> QED
    BY <1>0, <1>2, <2>1 DEF CallOut, Moves, MovedOn, At
<1>3. ASSUME NEW r \in Requests, HangUp(r) PROVE Moves(r)
  <2>1. CASE call[r] = "sent"
    <3>1. request' = [request EXCEPT ![r] = [request[r] EXCEPT !.pc = "gone"]]
      BY <1>0, <1>3, <2>1 DEF HangUp
    <3> QED
      BY <1>0, <1>3, <3>1 DEF HangUp, Moves, MovedOn
  <2>2. CASE call[r] # "sent"
    BY <1>0, <1>3, <2>2 DEF HangUp, Moves, Ended, At
  <2> QED
    BY <2>1, <2>2
<1>4. ASSUME NEW r \in Requests, Ends(r) PROVE Moves(r)
  <2>1. CASE Forgotten(r)
    BY <1>0, <2>1 DEF Forgotten, Abandoned, Moves, Ended, At
  <2>2. ASSUME NEW status \in Refusals \cup {"ok"}, NEW number \in Nat,
               Answered(r, status, number)
        PROVE  Moves(r)
    <3>1. request' = [request EXCEPT ![r] =
                        [request[r] EXCEPT !.pc = "answered", !.number = number,
                                           !.code = HttpCode(request[r].route, status)]]
      BY <1>0, <2>2 DEF Answered, Answer, RequestRecord
    <3>2. Replied(r, status, number)
      BY <1>0, <2>2, <3>1 DEF Replied, Answered
    <3> QED
      BY <1>0, <3>1, <3>2 DEF Moves, Replies
  <2> QED
    BY <1>4, <2>1, <2>2 DEF Ends
<1>5. ASSUME NEW r \in Requests, NEW route \in Routes, NEW code \in Rejections(route),
             Reject(r, route, code)
      PROVE  Moves(r)
  <2> DEFINE record == Rejected(route, code)
  <2>1. At(r, "unsent") /\ request' = [request EXCEPT ![r] = record]
    BY <1>5 DEF Reject
  <2> HIDE DEF record
  <2>2. request'[r] = record /\ \A s \in Requests \ {r} : request'[s] = request[s]
    BY <1>0, <2>1
  <2> QED
    BY <2>1, <2>2 DEF Moves, TurnedAway, record
<1> QED
  BY <1>1, <1>2, <1>3, <1>4, <1>5, StepCases

-----------------------------------------------------------------------------
(* The lock and the calls *)

\* Whoever waits or calls is in the queue, the caller in front.
Line ==
  /\ queue \in Seq(Requests)
  /\ \A r \in Requests : request[r].pc \in {"waiting", "calling"} =>
       \E i \in DOMAIN queue : queue[i] = r
  /\ \A r \in Requests : At(r, "calling") => queue[1] = r

CallType == call \in [Requests -> {"none", "sent", "over"}]

\* A sequence without one of its elements holds the others, in their order.
LEMMA RemoveAtKeeps ==
  ASSUME NEW S, NEW s \in Seq(S), NEW k \in 1 .. Len(s)
  PROVE  /\ RemoveAt(s, k) \in Seq(S)
         /\ DOMAIN RemoveAt(s, k) = 1 .. Len(s) - 1
         /\ \A i \in 1 .. k - 1 : RemoveAt(s, k)[i] = s[i]
         /\ \A i \in k .. Len(s) - 1 : RemoveAt(s, k)[i] = s[i + 1]
<1> DEFINE front == SubSeq(s, 1, k - 1)
           back == SubSeq(s, k + 1, Len(s))
           rest == front \o back
<1>0. k \in Int /\ Len(s) \in Int /\ 1 <= k /\ k <= Len(s) /\ \A i \in 1 .. Len(s) : s[i] \in S
  OBVIOUS
<1>1. /\ front \in Seq(S) /\ Len(front) = k - 1
      /\ \A i \in 1 .. k - 1 : front[i] = s[i]
  <2>1. k - 1 \in Int /\ \A i \in 1 .. k - 1 : s[i] \in S
    BY <1>0
  <2>2. /\ front \in Seq(S)
        /\ Len(front) = IF 1 <= k - 1 THEN (k - 1) - 1 + 1 ELSE 0
        /\ \A i \in 1 .. (k - 1) - 1 + 1 : front[i] = s[1 + i - 1]
    BY <1>0, <2>1, SubSeqProperties
  <2> HIDE DEF front
  <2> QED
    BY <1>0, <2>2
<1>2. /\ back \in Seq(S) /\ Len(back) = Len(s) - k
      /\ \A i \in 1 .. Len(s) - k : back[i] = s[i + k]
  <2>1. k + 1 \in Int /\ \A i \in k + 1 .. Len(s) : s[i] \in S
    BY <1>0
  <2>2. /\ back \in Seq(S)
        /\ Len(back) = IF k + 1 <= Len(s) THEN Len(s) - (k + 1) + 1 ELSE 0
        /\ \A i \in 1 .. Len(s) - (k + 1) + 1 : back[i] = s[(k + 1) + i - 1]
    BY <1>0, <2>1, SubSeqProperties
  <2> HIDE DEF back
  <2> QED
    BY <1>0, <2>2
<1> HIDE DEF front, back
<1>3. /\ rest \in Seq(S) /\ Len(rest) = Len(front) + Len(back)
      /\ \A i \in 1 .. Len(front) + Len(back) :
           rest[i] = IF i <= Len(front) THEN front[i] ELSE back[i - Len(front)]
  BY <1>1, <1>2, ConcatProperties
<1> HIDE DEF rest
<1>4. DOMAIN rest = 1 .. Len(rest)
  BY <1>3
<1>5. \A i \in 1 .. k - 1 : rest[i] = s[i]
  BY <1>0, <1>1, <1>2, <1>3
<1>6. ASSUME NEW i \in k .. Len(s) - 1 PROVE rest[i] = s[i + 1]
  <2>1. i - (k - 1) \in 1 .. Len(s) - k /\ (i - (k - 1)) + k = i + 1
    BY <1>0
  <2>2. i \in 1 .. Len(front) + Len(back) /\ ~(i <= Len(front))
    BY <1>0, <1>1, <1>2
  <2> QED
    BY <1>1, <1>2, <1>3, <2>1, <2>2
<1>7. RemoveAt(s, k) = rest
  BY DEF RemoveAt, front, back, rest
<1> QED
  BY <1>0, <1>1, <1>2, <1>3, <1>4, <1>5, <1>6, <1>7

\* A dropped handler gives its place up and leaves the others theirs.
LEMMA WithoutOne ==
  ASSUME queue \in Seq(Requests), NEW r, \E i \in DOMAIN queue : queue[i] = r
  PROVE  /\ Without(r) \in Seq(Requests)
         /\ \A q : q # r /\ (\E i \in DOMAIN queue : queue[i] = q)
                      => \E i \in DOMAIN Without(r) : Without(r)[i] = q
         /\ queue[1] # r => Without(r)[1] = queue[1]
<1> DEFINE k == CHOOSE i \in DOMAIN queue : queue[i] = r
           n == Len(queue)
           rest == Without(r)
<1>1. DOMAIN queue = 1 .. n /\ n \in Nat
  OBVIOUS
<1>2. k \in 1 .. n /\ queue[k] = r
  BY <1>1
<1>3. rest = RemoveAt(queue, k)
  BY DEF Without
<1> HIDE DEF k, rest
<1>4. /\ rest \in Seq(Requests) /\ DOMAIN rest = 1 .. n - 1
      /\ \A i \in 1 .. k - 1 : rest[i] = queue[i]
      /\ \A i \in k .. n - 1 : rest[i] = queue[i + 1]
  BY <1>2, <1>3, RemoveAtKeeps
<1> HIDE DEF n
<1>5. ASSUME NEW q, q # r, NEW i \in 1 .. n, queue[i] = q
      PROVE  \E j \in DOMAIN rest : rest[j] = q
  <2>1. CASE i < k
    <3>1. i \in 1 .. k - 1 /\ i \in DOMAIN rest
      BY <1>1, <1>2, <1>4, <2>1
    <3> QED
      BY <1>4, <1>5, <3>1
  <2>2. CASE i > k
    <3>1. i - 1 \in k .. n - 1 /\ i - 1 \in DOMAIN rest /\ (i - 1) + 1 = i
      BY <1>1, <1>2, <1>4, <2>2
    <3> QED
      BY <1>4, <1>5, <3>1
  <2>3. i # k
    BY <1>2, <1>5
  <2> QED
    BY <1>2, <2>1, <2>2, <2>3
<1>6. ASSUME queue[1] # r PROVE rest[1] = queue[1]
  <2>1. 1 \in 1 .. k - 1
    BY <1>1, <1>2, <1>6
  <2> QED
    BY <1>4, <2>1
<1>7. \A q : q # r /\ (\E i \in DOMAIN queue : queue[i] = q) => \E j \in DOMAIN rest : rest[j] = q
  BY <1>1, <1>5
<1> QED
  BY <1>4, <1>6, <1>7 DEF rest

\* The front of the queue leaves it.
LEMMA TailRest ==
  ASSUME queue \in Seq(Requests), NEW r, queue[1] = r, \E i \in DOMAIN queue : queue[i] = r
  PROVE  /\ Tail(queue) \in Seq(Requests)
         /\ \A q : q # r /\ (\E i \in DOMAIN queue : queue[i] = q)
                      => \E i \in DOMAIN Tail(queue) : Tail(queue)[i] = q
<1> DEFINE n == Len(queue)
           rest == Tail(queue)
<1>1. n \in Nat \ {0} /\ DOMAIN queue = 1 .. n
  OBVIOUS
<1>2. rest \in Seq(Requests) /\ Len(rest) = n - 1 /\ \A i \in 1 .. n - 1 : rest[i] = queue[i + 1]
  BY <1>1
<1>3. ASSUME NEW q, q # r, NEW i \in DOMAIN queue, queue[i] = q
      PROVE  \E j \in DOMAIN rest : rest[j] = q
  <2>1. i # 1
    BY <1>3
  <2>2. i - 1 \in 1 .. n - 1 /\ i - 1 \in DOMAIN rest /\ (i - 1) + 1 = i
    BY <1>1, <1>2, <2>1
  <2> QED
    BY <1>2, <1>3, <2>2
<1> QED
  BY <1>2, <1>3

\* tokio's mutex is fair and a dropped handler releases it.
LEMMA LineStep ==
  ASSUME CoreInv, RequestType, Line, CallType, [ApiNext]_everything
  PROVE  Line' /\ CallType'
<1>0. request \in [Requests -> RequestRecord]
  BY DEF RequestType
<1>1. ASSUME NEW r \in Requests, NEW route, NEW m, NEW p, Arrive(r, route, m, p)
      PROVE  Line' /\ CallType'
  <2>1. /\ queue' = Append(queue, r) /\ call' = call
        /\ request'[r].pc = "waiting" /\ \A s \in Requests \ {r} : request'[s] = request[s]
    BY <1>0, <1>1 DEF Arrive, Fresh
  <2>2. /\ queue' \in Seq(Requests) /\ Len(queue') = Len(queue) + 1 /\ Len(queue) \in Nat
        /\ \A i \in 1 .. Len(queue) : queue'[i] = queue[i]
        /\ queue'[Len(queue) + 1] = r
    BY <2>1 DEF Line
  <2>3. DOMAIN queue = 1 .. Len(queue) /\ DOMAIN queue' = 1 .. Len(queue) + 1
    BY <2>2 DEF Line
  <2>4. ASSUME NEW s \in Requests, request'[s].pc \in {"waiting", "calling"}
        PROVE  \E i \in DOMAIN queue' : queue'[i] = s
    <3>1. CASE s = r
      <4>1. Len(queue) + 1 \in DOMAIN queue'
        BY <2>2, <2>3
      <4> QED
        BY <2>2, <3>1, <4>1
    <3>2. CASE s # r
      <4>1. PICK i \in DOMAIN queue : queue[i] = s
        BY <2>1, <2>4, <3>2 DEF Line
      <4>2. i \in DOMAIN queue' /\ queue'[i] = s
        BY <2>2, <2>3, <4>1
      <4> QED
        BY <4>2
    <3> QED
      BY <3>1, <3>2
  <2>5. ASSUME NEW s \in Requests, request'[s].pc = "calling" PROVE queue'[1] = s
    <3>1. request[s].pc = "calling" /\ queue[1] = s
      BY <2>1, <2>5 DEF Line, At
    <3>2. 1 \in 1 .. Len(queue)
      BY <2>2, <2>3, <3>1 DEF Line
    <3> QED
      BY <2>2, <3>1, <3>2
  <2> QED
    BY <2>1, <2>2, <2>4, <2>5 DEF Line, CallType, At
<1>2. ASSUME NEW r \in Requests, CallOut(r) PROVE Line' /\ CallType'
  <2>1. /\ queue' = queue /\ call' = [call EXCEPT ![r] = "sent"] /\ Head(queue) = r
        /\ request[r].pc = "waiting" /\ request'[r].pc = "calling"
        /\ \A s \in Requests \ {r} : request'[s] = request[s]
    BY <1>0, <1>2 DEF CallOut, At, RequestRecord
  <2>2. queue[1] = r
    BY <2>1 DEF Line
  <2>3. \A s \in Requests : request'[s].pc \in {"waiting", "calling"}
                              => \E i \in DOMAIN queue' : queue'[i] = s
    BY <2>1 DEF Line
  <2>4. \A s \in Requests : request'[s].pc = "calling" => queue'[1] = s
    BY <2>1, <2>2 DEF Line, At
  <2> QED
    BY <2>1, <2>3, <2>4 DEF Line, CallType, At
<1>3. ASSUME NEW r \in Requests, request'[r].pc \notin {"waiting", "calling"},
             \A s \in Requests \ {r} : request'[s] = request[s],
             queue' \in Seq(Requests),
             \A q : q # r /\ (\E i \in DOMAIN queue : queue[i] = q)
                      => \E i \in DOMAIN queue' : queue'[i] = q,
             queue[1] = r \/ queue'[1] = queue[1]
      PROVE  Line'
  <2>1. \A s \in Requests : request'[s].pc \in {"waiting", "calling"} => s # r /\ request'[s] = request[s]
    BY <1>3
  <2>2. \A s \in Requests : request'[s].pc \in {"waiting", "calling"}
                              => \E i \in DOMAIN queue' : queue'[i] = s
    BY <1>3, <2>1 DEF Line
  <2>3. \A s \in Requests : request'[s].pc = "calling" => queue'[1] = s
    BY <1>3, <2>1 DEF Line, At
  <2> QED
    BY <1>3, <2>2, <2>3 DEF Line, At
<1>4. ASSUME NEW r \in Requests, HangUp(r) PROVE Line' /\ CallType'
  <2>1. request'[r].pc = "gone" /\ \A s \in Requests \ {r} : request'[s] = request[s]
    <3>1. request'[r] = Gone \/ request'[r] = [request[r] EXCEPT !.pc = "gone"]
      BY <1>0, <1>4 DEF HangUp
    <3> QED
      BY <1>0, <1>4, <3>1 DEF HangUp, Gone, Fresh, RequestRecord
  <2>2. queue' = Without(r) /\ call' = call /\ request[r].pc \in {"waiting", "calling"}
    BY <1>4 DEF HangUp
  <2>3. request'[r].pc \notin {"waiting", "calling"}
    BY <2>1
  <2>4. /\ queue' \in Seq(Requests)
        /\ \A q : q # r /\ (\E i \in DOMAIN queue : queue[i] = q)
                    => \E i \in DOMAIN queue' : queue'[i] = q
        /\ queue[1] = r \/ queue'[1] = queue[1]
    <3>1. queue \in Seq(Requests) /\ \E i \in DOMAIN queue : queue[i] = r
      BY <2>2 DEF Line
    <3> QED
      BY <2>2, <3>1, WithoutOne
  <2>5. Line'
    BY <1>3, <2>1, <2>3, <2>4
  <2> QED
    BY <2>2, <2>5 DEF CallType
<1>5. ASSUME NEW r \in Requests, Ends(r) PROVE Line' /\ CallType'
  <2>1. CASE Forgotten(r)
    <3>1. queue' = queue /\ call' = [call EXCEPT ![r] = "over"]
      BY <2>1 DEF Forgotten, Abandoned
    <3>2. \A s \in Requests : request'[s] = request[s] \/ request'[s].pc = "gone"
      BY <1>0, <2>1 DEF Forgotten, Abandoned, Gone, Fresh
    <3> QED
      BY <3>1, <3>2 DEF Line, CallType, At
  <2>2. ASSUME NEW status \in Refusals \cup {"ok"}, NEW number \in Nat,
               Answered(r, status, number)
        PROVE  Line' /\ CallType'
    <3>1. /\ request[r].pc = "calling" /\ request'[r].pc = "answered"
          /\ \A s \in Requests \ {r} : request'[s] = request[s]
      BY <2>2, AnswerStep DEF Answered, At
    <3>2. queue[1] = r /\ queue' = Tail(queue)
      BY <2>2 DEF Answered, Answer, Line
    <3>3. CallType'
      BY <2>2 DEF Answered, CallType
    <3>4. queue \in Seq(Requests) /\ \E i \in DOMAIN queue : queue[i] = r
      BY <3>1 DEF Line
    <3>5. /\ queue' \in Seq(Requests)
          /\ \A q : q # r /\ (\E i \in DOMAIN queue : queue[i] = q)
                      => \E i \in DOMAIN queue' : queue'[i] = q
      BY <3>2, <3>4, TailRest
    <3>6. request'[r].pc \notin {"waiting", "calling"}
      BY <3>1
    <3>7. Line'
      BY <1>3, <3>1, <3>2, <3>5, <3>6
    <3> QED
      BY <3>3, <3>7
  <2> QED
    BY <1>5, <2>1, <2>2 DEF Ends
<1>6. ASSUME UNCHANGED <<request, queue>>,
             \/ call' = call
             \/ call' = [r \in Requests |-> IF call[r] = "sent" THEN "over" ELSE call[r]]
      PROVE  Line' /\ CallType'
  BY <1>6 DEF Line, CallType, At
<1>7. ASSUME NEW r \in Requests, NEW route \in Routes, NEW code \in Rejections(route),
             Reject(r, route, code)
      PROVE  Line' /\ CallType'
  <2>1. request'[r].pc = "rejected" /\ \A s \in Requests \ {r} : request'[s] = request[s]
    <3>1. Rejected(route, code).pc = "rejected"
      BY RejectedFields
    <3> QED
      BY <1>0, <1>7, <3>1 DEF Reject
  <2>2. queue' = queue /\ call' = call
    BY <1>7 DEF Reject
  <2> QED
    BY <2>1, <2>2 DEF Line, CallType, At
<1> QED
  BY <1>1, <1>2, <1>4, <1>5, <1>6, <1>7, StepCases

\* Who has not asked for the lock has made no call.
Uncalled == \A r \in Requests : request[r].pc \in {"unsent", "rejected"} => call[r] = "none"

LEMMA UncalledStep ==
  ASSUME CoreInv, RequestType, CallType, Uncalled, [ApiNext]_everything
  PROVE  Uncalled'
<1>0. request \in [Requests -> RequestRecord] /\ call \in [Requests -> {"none", "sent", "over"}]
  BY DEF RequestType, CallType
<1>1. ASSUME NEW r \in Requests, \A s \in Requests \ {r} : request'[s] = request[s],
             \A s \in Requests \ {r} : call'[s] = call[s],
             \/ request'[r].pc \notin {"unsent", "rejected"}
             \/ request[r].pc \in {"unsent", "rejected"} /\ call'[r] = call[r]
      PROVE  Uncalled'
  BY <1>1 DEF Uncalled
<1>2. ASSUME NEW r \in Requests, NEW route, NEW m, NEW p, Arrive(r, route, m, p)
      PROVE  Uncalled'
  <2>1. request'[r].pc = "waiting" /\ call' = call
        /\ \A s \in Requests \ {r} : request'[s] = request[s]
    BY <1>0, <1>2 DEF Arrive, Fresh
  <2> QED
    BY <1>1, <2>1
<1>3. ASSUME NEW r \in Requests, NEW route \in Routes, NEW code \in Rejections(route),
             Reject(r, route, code)
      PROVE  Uncalled'
  <2>1. request[r].pc = "unsent" /\ call' = call
        /\ \A s \in Requests \ {r} : request'[s] = request[s]
    BY <1>0, <1>3 DEF Reject, At
  <2> QED
    BY <1>1, <2>1
<1>4. ASSUME NEW r \in Requests, CallOut(r) PROVE Uncalled'
  <2>1. request'[r].pc = "calling" /\ \A s \in Requests \ {r} : request'[s] = request[s]
    BY <1>0, <1>4 DEF CallOut, RequestRecord
  <2>2. \A s \in Requests \ {r} : call'[s] = call[s]
    BY <1>0, <1>4 DEF CallOut
  <2> QED
    BY <1>1, <2>1, <2>2
<1>5. ASSUME NEW r \in Requests, HangUp(r) PROVE Uncalled'
  <2>1. call' = call /\ \A s \in Requests \ {r} : request'[s] = request[s]
    BY <1>0, <1>5 DEF HangUp
  <2>2. request'[r].pc = "gone"
    BY <1>0, <1>5 DEF HangUp, Gone, Fresh, RequestRecord
  <2> QED
    BY <1>1, <2>1, <2>2
<1>6. ASSUME NEW r \in Requests, Ends(r) PROVE Uncalled'
  <2>1. CASE Forgotten(r)
    <3>1. \A s \in Requests \ {r} : request'[s] = request[s] /\ call'[s] = call[s]
      BY <1>0, <2>1 DEF Forgotten, Abandoned
    <3>2. request'[r].pc \in {"answered", "gone"}
      BY <1>0, <2>1 DEF Forgotten, Abandoned, Gone, Fresh
    <3> QED
      BY <1>1, <3>1, <3>2
  <2>2. ASSUME NEW status \in Refusals \cup {"ok"}, NEW number \in Nat,
               Answered(r, status, number)
        PROVE  Uncalled'
    <3>1. request'[r].pc = "answered" /\ \A s \in Requests \ {r} : request'[s] = request[s]
      BY <2>2, AnswerStep DEF Answered
    <3>2. \A s \in Requests \ {r} : call'[s] = call[s]
      BY <1>0, <2>2 DEF Answered
    <3> QED
      BY <1>1, <3>1, <3>2
  <2> QED
    BY <1>6, <2>1, <2>2 DEF Ends
<1>7. ASSUME UNCHANGED <<request, queue>>,
             \/ call' = call
             \/ call' = [r \in Requests |-> IF call[r] = "sent" THEN "over" ELSE call[r]]
      PROVE  Uncalled'
  BY <1>7 DEF Uncalled
<1> QED
  BY <1>2, <1>3, <1>4, <1>5, <1>6, <1>7, StepCases

-----------------------------------------------------------------------------
(* What is kept of each request *)

\* A request has not come or is forgotten, or was turned away, or names its route and a
\* match that was drawn, and has been answered as the route is documented.
WasRejected(r) ==
  /\ At(r, "rejected")
  /\ \E route \in Routes : \E code \in Rejections(route) : request[r] = Rejected(route, code)
Shape(r) ==
  \/ request[r] \in {Unsent, Gone}
  \/ WasRejected(r)
  \/ LET a == request[r] IN
     /\ a.pc \in {"waiting", "calling", "answered", "gone"}
     /\ a.route \in Routes
     /\ a.route \in Listing <=> a.match = None
     /\ a.route \notin Listing => a.match \in drawnMatches
     /\ r \notin a.after
     /\ a.code \in IF a.pc = "answered" THEN Documented(a.route) ELSE {0}

\* A request arrived after requests that had been answered, and these stay so.
Heard(s) == \A r \in request[s].after : At(r, "answered")

\* What was told of a match's life is so: it runs, or it is over.
Shown(r) ==
  /\ ToldRunning(r) /\ request[r].match \in matches => startedAt[request[r].match] # 0
  /\ ToldClosed(r) => request[r].match \notin matches

OrderInv ==
  /\ ApiInv /\ Line /\ CallType /\ Uncalled
  /\ \A r \in Requests : Shape(r) /\ Heard(r) /\ Shown(r)
  /\ AnswersInOrder

\* The codes of the handlers are the documented ones.
LEMMA CodesDocumented ==
  ASSUME NEW route \in Routes, NEW status \in Refusals \cup {"ok"},
         status = "failed_precondition" => route \in {"join", "finish"}
  PROVE  HttpCode(route, status) \in Documented(route)
BY DEF Routes, Refusals, HttpCode, Documented

\* Which status an answer stands for.
LEMMA CodeMeans ==
  ASSUME NEW route \in Routes, NEW status \in Refusals \cup {"ok"}
  PROVE  LET code == HttpCode(route, status) IN
         /\ code \in {200, 204} => status = "ok"
         /\ code = 204 => route = "delete"
         /\ code = 404 => status = "not_found" /\ route \notin Listing
         /\ code = 409 => status = "failed_precondition"
         /\ code \in {200, 204, 404, 409, 502}
BY DEF HttpCode, Refusals, Listing

\* An answer, field by field.
LEMMA ReplyFields ==
  ASSUME RequestType, NEW r \in Requests, NEW status \in Refusals \cup {"ok"},
         NEW number \in Nat, Replied(r, status, number)
  PROVE  /\ request'[r].pc = "answered" /\ request'[r].number = number
         /\ request'[r].code = HttpCode(request[r].route, status)
         /\ request'[r].route = request[r].route /\ request'[r].match = request[r].match
         /\ request'[r].player = request[r].player /\ request'[r].after = request[r].after
         /\ request[r].pc = "calling" /\ Says(r, status, number)
<1> DEFINE code == HttpCode(request[r].route, status)
<1>1. request[r] \in RequestRecord
  BY DEF RequestType
<1>2. request'[r] = [request[r] EXCEPT !.pc = "answered", !.number = number, !.code = code]
  BY DEF Replied
<1> HIDE DEF code
<1>3. /\ request'[r].pc = "answered" /\ request'[r].number = number
      /\ request'[r].code = code
      /\ request'[r].route = request[r].route /\ request'[r].match = request[r].match
      /\ request'[r].player = request[r].player /\ request'[r].after = request[r].after
  BY <1>1, <1>2 DEF RequestRecord
<1> QED
  BY <1>3 DEF code, Replied, At

\* No other step of a request ends with an answer.
LEMMA NotAnswered ==
  ASSUME RequestType, NEW r \in Requests,
         Arrived(r) \/ MovedOn(r) \/ Ended(r) \/ TurnedAway(r)
  PROVE  request'[r].pc # "answered"
<1>1. CASE Arrived(r)
  <2>1. \E route, m, p, after : request'[r] = Fresh("waiting", route, m, p, after)
    BY <1>1 DEF Arrived
  <2> QED
    BY <2>1 DEF Fresh
<1>2. CASE MovedOn(r)
  <2>1. request[r] \in RequestRecord
    BY DEF RequestType
  <2> QED
    BY <1>2, <2>1 DEF MovedOn, RequestRecord
<1>3. CASE Ended(r)
  BY <1>3 DEF Ended, Fresh, Gone
<1>4. CASE TurnedAway(r)
  BY <1>4, RejectedFields DEF TurnedAway
<1> QED
  BY <1>1, <1>2, <1>3, <1>4

\* Requests keep their shape.
LEMMA ShapeStep ==
  ASSUME RequestType, NEW r \in Requests, Shape(r), Moves(r) \/ request'[r] = request[r],
         drawnMatches \subseteq drawnMatches'
  PROVE  Shape(r)'
<1>0. request[r] \in RequestRecord
  BY DEF RequestType
<1>1. CASE request'[r] = request[r]
  <2>1. WasRejected(r)' = WasRejected(r)
    BY <1>1 DEF WasRejected, At
  <2> QED
    BY <1>1, <2>1 DEF Shape, Unsent, Gone
<1>2. CASE Arrived(r)
  <2>1. PICK route \in Routes, m \in drawnMatches \cup {None}, p \in Players \cup {None} :
          /\ route \in Listing <=> m = None
          /\ request'[r] = Fresh("waiting", route, m, p, {q \in Requests : At(q, "answered")})
    BY <1>2 DEF Arrived
  <2>2. /\ request'[r].pc = "waiting" /\ request'[r].route = route /\ request'[r].match = m
        /\ request'[r].code = 0 /\ r \notin request'[r].after
    BY <1>2, <2>1 DEF Fresh, Arrived, At
  <2> QED
    BY <2>1, <2>2 DEF Shape
<1>3. CASE MovedOn(r)
  <2>1. PICK pc \in {"calling", "gone"} : request'[r] = [request[r] EXCEPT !.pc = pc]
    BY <1>3 DEF MovedOn
  <2>2. /\ request'[r].pc = pc /\ request'[r].route = request[r].route
        /\ request'[r].match = request[r].match /\ request'[r].code = request[r].code
        /\ request'[r].after = request[r].after
    BY <1>0, <2>1 DEF RequestRecord
  <2>3. request[r] \notin {Unsent, Gone} /\ request[r].pc # "answered"
    BY <1>3 DEF MovedOn, Unsent, Gone, Fresh
  <2>4. ~WasRejected(r)
    BY <1>3 DEF MovedOn, WasRejected, At
  <2> QED
    BY <2>2, <2>3, <2>4 DEF Shape
<1>4. ASSUME NEW status \in Refusals \cup {"ok"}, NEW number \in Nat,
             Replied(r, status, number)
      PROVE  Shape(r)'
  <2>1. /\ request'[r].pc = "answered"
        /\ request'[r].code = HttpCode(request[r].route, status)
        /\ request'[r].route = request[r].route /\ request'[r].match = request[r].match
        /\ request'[r].after = request[r].after
        /\ request[r].pc = "calling" /\ Says(r, status, number)
    BY <1>4, ReplyFields
  <2>2. request[r] \notin {Unsent, Gone} /\ ~WasRejected(r)
    BY <2>1 DEF Unsent, Gone, Fresh, WasRejected, At
  <2>3. /\ request[r].route \in Routes
        /\ request[r].route \in Listing <=> request[r].match = None
        /\ request[r].route \notin Listing => request[r].match \in drawnMatches
        /\ r \notin request[r].after
    BY <2>2 DEF Shape
  <2>4. request'[r].code \in Documented(request[r].route)
    BY <2>1, <2>3, CodesDocumented DEF Says
  <2> QED
    BY <2>1, <2>3, <2>4 DEF Shape
<1>5. CASE Ended(r)
  BY <1>5 DEF Ended, Shape, Unsent, Gone
<1>6. CASE TurnedAway(r)
  <2>1. WasRejected(r)'
    BY <1>6, RejectedFields DEF TurnedAway, WasRejected, At
  <2> QED
    BY <2>1 DEF Shape
<1> QED
  BY <1>1, <1>2, <1>3, <1>4, <1>5, <1>6 DEF Moves, Replies

\* An answered request does not change any more.
LEMMA AnswersStand ==
  ASSUME NEW r \in Requests, At(r, "answered"),
         request' = request \/ \E q \in Requests : Moves(q)
  PROVE  request'[r] = request[r]
<1> SUFFICES ASSUME Moves(r) PROVE request'[r] = request[r]
  BY DEF Moves
<1> QED
  BY DEF Moves, Arrived, MovedOn, Replies, Replied, Ended, TurnedAway, At

LEMMA HeardStep ==
  ASSUME RequestType, \A s \in Requests : Heard(s), NEW s \in Requests,
         request' = request \/ \E q \in Requests : Moves(q)
  PROVE  Heard(s)'
<1>0. request[s] \in RequestRecord
  BY DEF RequestType
<1>1. ASSUME NEW r \in Requests, At(r, "answered") PROVE At(r, "answered")'
  BY <1>1, AnswersStand DEF At
<1>2. \A r \in request[s].after : r \in Requests /\ At(r, "answered")
  BY <1>0 DEF Heard, RequestRecord
<1>3. \A r \in request'[s].after : r \in Requests /\ At(r, "answered")
  <2>1. CASE request'[s] = request[s]
    BY <1>2, <2>1
  <2>2. CASE Moves(s)
    <3>1. CASE Arrived(s)
      BY <3>1 DEF Arrived, Fresh
    <3>2. CASE MovedOn(s)
      <4>1. request'[s].after = request[s].after
        BY <1>0, <3>2 DEF MovedOn, RequestRecord
      <4> QED
        BY <1>2, <4>1
    <3>3. CASE Replies(s)
      <4>1. request'[s].after = request[s].after
        BY <3>3, ReplyFields DEF Replies
      <4> QED
        BY <1>2, <4>1
    <3>4. CASE Ended(s)
      BY <3>4 DEF Ended, Gone, Fresh
    <3>5. CASE TurnedAway(s)
      BY <3>5, RejectedFields DEF TurnedAway
    <3> QED
      BY <2>1, <2>2, <3>1, <3>2, <3>3, <3>4, <3>5 DEF Moves
  <2>3. request'[s] = request[s] \/ Moves(s)
    BY DEF Moves
  <2> QED
    BY <2>1, <2>2, <2>3
<1> QED
  BY <1>1, <1>3 DEF Heard

\* What is answered was so when the call was executed.
LEMMA ShownNew ==
  ASSUME RequestType, NEW r \in Requests, Shape(r), NEW status \in Refusals \cup {"ok"},
         NEW number \in Nat, Replied(r, status, number)
  PROVE  Shown(r)'
<1> DEFINE m == request[r].match
<1>1. /\ request'[r].pc = "answered" /\ request'[r].number = number
      /\ request'[r].code = HttpCode(request[r].route, status)
      /\ request'[r].route = request[r].route /\ request'[r].match = m
      /\ request[r].pc = "calling" /\ Says(r, status, number)
  BY ReplyFields
<1>2. request[r].route \in Routes
  BY <1>1 DEF Shape, WasRejected, At, Unsent, Gone, Fresh
<1>3. ToldRunning(r)' => startedAt'[m] # 0
  <2> SUFFICES ASSUME ToldRunning(r)' PROVE startedAt'[m] # 0
    OBVIOUS
  <2>1. /\ request'[r].code = 200
        /\ \/ request[r].route \in {"start", "finish"}
           \/ request[r].route = "get" /\ number # 0
    BY <1>1 DEF ToldRunning, Succeeded
  <2>2. HttpCode(request[r].route, status) \in {200, 204}
    BY <1>1, <2>1
  <2>3. status = "ok"
    BY <1>2, <2>2, CodeMeans
  <2> QED
    BY <1>1, <2>1, <2>3 DEF Says
<1>4. ToldClosed(r)' => m \notin matches'
  <2> SUFFICES ASSUME ToldClosed(r)' PROVE m \notin matches'
    OBVIOUS
  <2>1. \/ request'[r].code = 204
        \/ request'[r].code = 404 /\ request[r].route # "finish"
    BY <1>1 DEF ToldClosed
  <2>2. \/ status = "ok" /\ request[r].route = "delete"
        \/ status = "not_found" /\ request[r].route # "finish"
    BY <1>1, <1>2, <2>1, CodeMeans
  <2> QED
    BY <1>1, <2>2 DEF Says
<1> QED
  BY <1>1, <1>3, <1>4 DEF Shown

\* And it stays so: rooms once closed are not opened again, a start is not undone.
LEMMA ShownStep ==
  ASSUME RequestType, CoreInv, Kept, NEW r \in Requests, Shape(r), Shown(r),
         Moves(r) \/ request'[r] = request[r]
  PROVE  Shown(r)'
<1>1. CASE request'[r] = request[r]
  <2>1. ToldRunning(r)' = ToldRunning(r) /\ ToldClosed(r)' = ToldClosed(r)
    BY <1>1 DEF ToldRunning, ToldClosed, Succeeded, At
  <2>2. At(r, "answered") => request[r].route \in Routes
    BY DEF At, Shape, WasRejected, Unsent, Gone, Fresh
  <2>3. At(r, "answered") /\ request[r].route \notin Listing
          => request[r].match \in drawnMatches
    BY DEF At, Shape, WasRejected, Unsent, Gone, Fresh
  <2>4. ToldRunning(r) => At(r, "answered") /\ request[r].route \notin Listing
    BY DEF ToldRunning, Succeeded, Listing
  <2>5. ToldClosed(r) => At(r, "answered") /\ request[r].route \notin Listing
    <3>1. ToldClosed(r) => At(r, "answered") /\ request[r].code \in {204, 404}
      BY DEF ToldClosed
    <3>2. At(r, "answered") => request[r].code \in Documented(request[r].route)
      BY DEF At, Shape, WasRejected, Unsent, Gone, Fresh
    <3> QED
      BY <3>1, <3>2 DEF Documented, Listing
  <2>6. ToldRunning(r) /\ request[r].match \in matches'
          => startedAt'[request[r].match] # 0
    BY <2>3, <2>4 DEF Shown, Kept, Started
  <2>7. ToldClosed(r) => request[r].match \notin matches'
    BY <2>3, <2>5 DEF Shown, Kept
  <2> QED
    BY <1>1, <2>1, <2>6, <2>7 DEF Shown
<1>2. CASE Replies(r)
  BY <1>2, ShownNew DEF Replies
<1>3. CASE Arrived(r) \/ MovedOn(r) \/ Ended(r) \/ TurnedAway(r)
  <2>1. request'[r].pc # "answered"
    BY <1>3, NotAnswered
  <2> QED
    BY <2>1 DEF Shown, ToldRunning, ToldClosed, Succeeded, At
<1> QED
  BY <1>1, <1>2, <1>3 DEF Moves

\* A request that is answered after another finds the match no earlier in its life.
LEMMA OrderNew ==
  ASSUME OrderInv, NEW s \in Requests, NEW status \in Refusals \cup {"ok"},
         NEW number \in Nat, Replied(s, status, number),
         NEW r \in request[s].after, request[r].match = request[s].match
  PROVE  /\ ToldRunning(r) => /\ Succeeded(s, {"get"})' => request'[s].number # 0
                              /\ request'[s].route = "finish" => request'[s].code # 409
         /\ ToldClosed(r) => request'[s].code \in {0, 404, 502}
<1> DEFINE m == request[s].match
           route == request[s].route
           code == request'[s].code
<1>1. /\ request'[s].pc = "answered" /\ request'[s].number = number
      /\ code = HttpCode(route, status) /\ request'[s].route = route
      /\ request[s].pc = "calling" /\ Says(s, status, number)
  BY ReplyFields DEF OrderInv, ApiInv
<1>2. /\ route \in Routes
      /\ route \in Listing <=> m = None
      /\ route \notin Listing => m \in drawnMatches
  BY <1>1 DEF OrderInv, Shape, WasRejected, At, Unsent, Gone, Fresh
<1>3. r \in Requests /\ At(r, "answered") /\ Shown(r) /\ Shape(r)
  BY DEF OrderInv, Heard, ApiInv, RequestType, RequestRecord
<1>4. /\ request[r].route \in Listing <=> request[r].match = None
      /\ request[r].code \in Documented(request[r].route)
  BY <1>3 DEF At, Shape, WasRejected, Unsent, Gone, Fresh
<1>5. /\ code \in {200, 204} => status = "ok"
      /\ code = 409 => status = "failed_precondition"
      /\ code \in {200, 204, 404, 409, 502}
  BY <1>1, <1>2, CodeMeans
<1>6. ASSUME ToldRunning(r), Succeeded(s, {"get"})' PROVE number # 0
  <2>1. code = 200 /\ route = "get"
    BY <1>1, <1>6 DEF Succeeded
  <2>2. m \in matches /\ number = startedAt[m]
    BY <1>1, <1>5, <2>1 DEF Says, Listing
  <2> QED
    BY <1>3, <1>6, <2>2 DEF Shown
<1>7. ASSUME ToldRunning(r), route = "finish", code = 409 PROVE FALSE
  <2>1. m \in matches /\ startedAt[m] = 0
    BY <1>1, <1>5, <1>7 DEF Says
  <2> QED
    BY <1>3, <1>7, <2>1 DEF Shown
<1>8. ASSUME ToldClosed(r), code \in {200, 204, 409} PROVE FALSE
  <2>1. m \notin matches
    BY <1>3, <1>8 DEF Shown
  <2>2. request[r].route \notin Listing
    BY <1>4, <1>8 DEF ToldClosed, Documented, Listing
  <2>3. route \notin Listing
    BY <1>2, <1>4, <2>2
  <2> QED
    BY <1>1, <1>5, <1>8, <2>1, <2>3 DEF Says
<1> QED
  BY <1>1, <1>5, <1>6, <1>7, <1>8

LEMMA OrderInvStep ==
  ASSUME OrderInv, [ApiNext]_everything
  PROVE  OrderInv'
<1>1. ApiInv' /\ Line' /\ CallType' /\ Uncalled'
  BY ApiInvStep, LineStep, UncalledStep DEF OrderInv, ApiInv
<1>2. CoreInv /\ RequestType /\ Kept
  BY CoreInvStep DEF OrderInv, ApiInv
<1>3. request' = request \/ \E r \in Requests : Moves(r)
  BY <1>2, StepMoves
<1>4. \A r \in Requests : Moves(r) \/ request'[r] = request[r]
  BY <1>3 DEF Moves
<1>5. \A r \in Requests : Shape(r)' /\ Heard(r)' /\ Shown(r)'
  BY <1>2, <1>3, <1>4, ShapeStep, HeardStep, ShownStep DEF OrderInv, Kept
<1>6. ASSUME NEW s \in Requests, NEW r \in request'[s].after,
             request'[r].match = request'[s].match
      PROVE  /\ ToldRunning(r)' => /\ Succeeded(s, {"get"})' => request'[s].number # 0
                                   /\ request'[s].route = "finish" => request'[s].code # 409
             /\ ToldClosed(r)' => request'[s].code \in {0, 404, 502}
  <2>0. r \in Requests
    BY <1>1 DEF ApiInv, RequestType, RequestRecord
  <2>1. ASSUME request'[s].pc # "answered" PROVE request'[s].code = 0
    <3>1. CASE WasRejected(s)'
      <4>1. request'[s].after = {}
        BY <3>1, RejectedFields DEF WasRejected
      <4> QED
        BY <1>6, <4>1
    <3>2. CASE ~WasRejected(s)'
      BY <1>5, <2>1, <3>2 DEF Shape, Unsent, Gone, Fresh
    <3> QED
      BY <3>1, <3>2
  <2>2. CASE request'[s].pc # "answered"
    BY <2>1, <2>2 DEF Succeeded
  <2>3. ASSUME r \in request[s].after
        PROVE  request'[r] = request[r] /\ ToldRunning(r)' = ToldRunning(r)
                 /\ ToldClosed(r)' = ToldClosed(r)
    <3>1. At(r, "answered")
      BY <2>3 DEF OrderInv, Heard
    <3>2. request'[r] = request[r]
      BY <1>3, <2>0, <3>1, AnswersStand
    <3> QED
      BY <3>2 DEF ToldRunning, ToldClosed, Succeeded, At
  <2>4. CASE request'[s] = request[s]
    <3>1. Succeeded(s, {"get"})' = Succeeded(s, {"get"})
      BY <2>4 DEF Succeeded, At
    <3>2. r \in request[s].after /\ request[r].match = request[s].match
      BY <1>6, <2>3, <2>4
    <3> QED
      BY <2>3, <2>4, <3>1, <3>2 DEF OrderInv, AnswersInOrder
  <2>5. ASSUME NEW status \in Refusals \cup {"ok"}, NEW number \in Nat,
               Replied(s, status, number)
        PROVE  /\ ToldRunning(r)' => /\ Succeeded(s, {"get"})' => request'[s].number # 0
                                     /\ request'[s].route = "finish" => request'[s].code # 409
               /\ ToldClosed(r)' => request'[s].code \in {0, 404, 502}
    <3>1. request'[s].after = request[s].after /\ request'[s].match = request[s].match
      BY <1>2, <2>5, ReplyFields
    <3>2. r \in request[s].after /\ request[r].match = request[s].match
      BY <1>6, <2>3, <3>1
    <3> QED
      BY <2>3, <2>5, <3>2, OrderNew
  <2>6. ASSUME Arrived(s) \/ MovedOn(s) \/ Ended(s) \/ TurnedAway(s)
        PROVE  request'[s].pc # "answered"
    BY <1>2, <2>6, NotAnswered
  <2> QED
    BY <1>4, <2>2, <2>4, <2>5, <2>6 DEF Moves, Replies
<1>7. AnswersInOrder'
  BY <1>6 DEF AnswersInOrder
<1> QED
  BY <1>1, <1>5, <1>7 DEF OrderInv

LEMMA OrderInvInit == ApiInit => OrderInv
<1> SUFFICES ASSUME ApiInit PROVE OrderInv
  OBVIOUS
<1>1. ApiInv
  BY ApiInvInit
<1>2. \A r \in Requests : request[r] = Unsent
  BY DEF ApiInit
<1>3. \A r \in Requests : request[r].pc = "unsent" /\ request[r].after = {}
  BY <1>2 DEF Unsent, Fresh
<1>4. Line /\ CallType /\ Uncalled
  BY <1>3 DEF ApiInit, Line, CallType, Uncalled, At
<1>5. \A r \in Requests : Shape(r) /\ Heard(r) /\ Shown(r)
  BY <1>2, <1>3 DEF Shape, Heard, Shown, ToldRunning, ToldClosed, Succeeded, At
<1>6. AnswersInOrder
  BY <1>3 DEF AnswersInOrder
<1> QED
  BY <1>1, <1>4, <1>5, <1>6 DEF OrderInv

LEMMA OrderInvHolds == ApiSpec => []OrderInv
BY OrderInvInit, OrderInvStep, PTL DEF ApiSpec

\* Whatever a handler answers has one of the codes its route is documented with, what the
\* extractors refuse has one of theirs and never becomes a call, and the queue of the
\* client lock and the calls are what they are taken for (main.rs of the API).
THEOREM ApiTypeCorrect == ApiSpec => []ApiTypeOK
<1>1. OrderInv => ApiTypeOK
  <2> SUFFICES ASSUME OrderInv PROVE ApiTypeOK
    OBVIOUS
  <2>1. ASSUME NEW r \in Requests, request[r] \notin {Unsent, Gone}, ~WasRejected(r)
        PROVE  /\ request[r].pc \in {"waiting", "calling", "answered", "gone"}
               /\ request[r].route \in Routes
               /\ request[r].match \in Matches \cup {None}
               /\ request[r].player \in Players \cup {None}
               /\ request[r].number \in Nat
               /\ request[r].after \subseteq Requests \ {r}
               /\ request[r].code \in IF At(r, "answered") THEN Documented(request[r].route)
                                      ELSE {0}
    <3>1. request[r] \in RequestRecord
      BY DEF OrderInv, ApiInv, RequestType
    <3>2. Shape(r)
      BY DEF OrderInv
    <3> QED
      BY <2>1, <3>1, <3>2 DEF Shape, RequestRecord, At
  <2>2. ASSUME NEW r \in Requests, WasRejected(r)
        PROVE  /\ \E route \in Routes : \E code \in Rejections(route) :
                    request[r] = Rejected(route, code)
               /\ call[r] = "none"
    BY <2>2 DEF WasRejected, OrderInv, Uncalled, At
  <2> QED
    BY <2>1, <2>2 DEF ApiTypeOK, OrderInv, CallType, Line
<1> QED
  BY <1>1, OrderInvHolds, PTL

\* A request that arrives after another was answered finds the match no earlier in
\* its life than that answer said, across abandoned calls, retries and restarts
\* (start_match, get_match, finish_match, delete_match).
THEOREM AnswersStayInOrder == ApiSpec => []AnswersInOrder
<1>1. OrderInv => AnswersInOrder
  BY DEF OrderInv
<1> QED
  BY <1>1, OrderInvHolds, PTL

-----------------------------------------------------------------------------
(* The lock goes on *)

\* The front of the queue stays there until it has been granted the lock or is dropped.
LEMMA FrontStays ==
  ASSUME CoreInv, RequestType, Line, [ApiNext]_everything, NEW r \in Requests,
         AtFront(r), At(r, "waiting"), At(r, "waiting")'
  PROVE  AtFront(r)'
<1>0. /\ request \in [Requests -> RequestRecord] /\ queue \in Seq(Requests)
      /\ queue # <<>> /\ queue[1] = r
  BY DEF RequestType, Line, AtFront
<1>1. ASSUME NEW s, queue' = Append(queue, s) PROVE AtFront(r)'
  BY <1>0, <1>1 DEF AtFront
<1>2. ASSUME NEW s \in Requests, HangUp(s) PROVE AtFront(r)'
  <2>1. s # r
    BY <1>0, <1>2 DEF HangUp, At, Gone, Fresh, RequestRecord
  <2>2. queue' = Without(s) /\ \E i \in DOMAIN queue : queue[i] = s
    BY <1>2 DEF HangUp, Line
  <2>3. \E i \in DOMAIN queue : queue[i] = r
    BY <1>0
  <2>4. queue' \in Seq(Requests) /\ queue'[1] = r /\ \E i \in DOMAIN queue' : queue'[i] = r
    <3>1. /\ Without(s) \in Seq(Requests)
          /\ \A q : q # s /\ (\E i \in DOMAIN queue : queue[i] = q)
                       => \E i \in DOMAIN Without(s) : Without(s)[i] = q
          /\ queue[1] # s => Without(s)[1] = queue[1]
      BY <1>0, <2>2, WithoutOne
    <3> QED
      BY <1>0, <2>1, <2>2, <2>3, <3>1
  <2> QED
    BY <2>4 DEF AtFront
<1>3. ASSUME NEW s \in Requests, Ends(s) PROVE AtFront(r)'
  <2>1. ASSUME NEW status, NEW number, Answered(s, status, number) PROVE FALSE
    <3>1. At(s, "calling") /\ queue[1] = s
      BY <2>1 DEF Answered, Line
    <3> QED
      BY <1>0, <3>1 DEF At
  <2>2. queue' = queue
    BY <1>3, <2>1 DEF Ends, Forgotten, Abandoned
  <2> QED
    BY <2>2 DEF AtFront
<1>4. ASSUME queue' = queue PROVE AtFront(r)'
  BY <1>4 DEF AtFront
<1> QED
  BY <1>1, <1>2, <1>3, <1>4, StepCases DEF Arrive, Reject, CallOut

\* A handler's step takes it from waiting to its call, and from its call to the answer.
LEMMA ProgressLeaves ==
  ASSUME CoreInv, RequestType, NEW r \in Requests, Progress(r)
  PROVE  /\ ~At(r, "waiting") \/ ~At(r, "waiting")'
         /\ ~At(r, "calling") \/ ~At(r, "calling")'
<1>1. CASE CallOut(r)
  BY <1>1 DEF CallOut, At, RequestType
<1>2. CASE Ends(r)
  <2>1. CASE Forgotten(r)
    BY <2>1 DEF Forgotten, Abandoned, At
  <2>2. ASSUME NEW status \in Refusals \cup {"ok"}, NEW number \in Nat,
               Answered(r, status, number)
        PROVE  At(r, "answered")'
    BY <2>2, AnswerStep DEF Answered, At
  <2> QED
    BY <1>2, <2>1, <2>2 DEF Ends, At
<1>3. ConnectionLost(r) => ~At(r, "waiting") /\ ~At(r, "calling")'
  BY DEF ConnectionLost, Answer, At, RequestType
<1> QED
  BY <1>1, <1>2, <1>3, ServeEnds DEF Progress, CoreInv

\* Nobody else is in the queue, and nobody twice.
OnlyWaiting ==
  /\ \A i \in DOMAIN queue : request[queue[i]].pc \in {"waiting", "calling"}
  /\ \A i, k \in DOMAIN queue : queue[i] = queue[k] => i = k

\* What of HandlersNeverBlocked is a fact about states: whoever is in front of the queue
\* is a handler that is still there.
FrontIsAlive == \A r \in Requests : AtFront(r) => request[r].pc \in {"waiting", "calling"}

\* What of it is a fact about the formulas of the steps: such a handler has a step.
FrontCanStep ==
  \A r \in Requests : AtFront(r) /\ request[r].pc \in {"waiting", "calling"}
                        => ENABLED <<Progress(r)>>_everything

\* A queue that holds everyone once, without one of them.
LEMMA WithoutDistinct ==
  ASSUME queue \in Seq(Requests), OnlyWaiting, NEW r, \E i \in DOMAIN queue : queue[i] = r,
         NEW rest, rest = Without(r) \/ (queue[1] = r /\ rest = Tail(queue))
  PROVE  /\ \A i \in DOMAIN rest : rest[i] # r /\ \E k \in DOMAIN queue : rest[i] = queue[k]
         /\ \A i, k \in DOMAIN rest : rest[i] = rest[k] => i = k
<1> DEFINE n == Len(queue)
           Skips(k) ==
             /\ k \in 1 .. n /\ queue[k] = r
             /\ DOMAIN rest = 1 .. n - 1
             /\ \A i \in 1 .. k - 1 : rest[i] = queue[i]
             /\ \A i \in k .. n - 1 : rest[i] = queue[i + 1]
<1>0. n \in Nat /\ DOMAIN queue = 1 .. n
  OBVIOUS
<1>1. PICK k : Skips(k)
  <2>1. CASE rest = Without(r)
    <3> DEFINE l == CHOOSE i \in DOMAIN queue : queue[i] = r
    <3>1. l \in 1 .. n /\ queue[l] = r
      BY <1>0
    <3>2. rest = RemoveAt(queue, l)
      BY <2>1 DEF Without
    <3> HIDE DEF l
    <3>3. Skips(l)
      BY <3>1, <3>2, RemoveAtKeeps
    <3> QED
      BY <3>3
  <2>2. CASE queue[1] = r /\ rest = Tail(queue)
    <3>1. n >= 1
      BY <1>0
    <3>2. DOMAIN rest = 1 .. n - 1 /\ \A i \in 1 .. n - 1 : rest[i] = queue[i + 1]
      BY <1>0, <2>2, <3>1
    <3>3. Skips(1)
      BY <1>0, <2>2, <3>1, <3>2
    <3> QED
      BY <3>3
  <2> QED
    BY <2>1, <2>2
<1> HIDE DEF n
<1> DEFINE old(i) == IF i < k THEN i ELSE i + 1
<1>2. ASSUME NEW i \in DOMAIN rest PROVE old(i) \in 1 .. n /\ old(i) # k /\ rest[i] = queue[old(i)]
  BY <1>0, <1>1, <1>2
<1>3. \A i, l \in DOMAIN rest : old(i) = old(l) => i = l
  BY <1>0, <1>1
<1> HIDE DEF old
<1>4. \A i \in DOMAIN rest : rest[i] # r
  BY <1>0, <1>1, <1>2 DEF OnlyWaiting
<1>5. \A i, l \in DOMAIN rest : rest[i] = rest[l] => i = l
  BY <1>0, <1>2, <1>3 DEF OnlyWaiting
<1> QED
  BY <1>0, <1>2, <1>4, <1>5

\* A handler that is dropped, or has answered, leaves the queue.
LEMMA OnlyWaitingStep ==
  ASSUME CoreInv, RequestType, Line, CallType, OnlyWaiting, [ApiNext]_everything
  PROVE  OnlyWaiting'
<1>0. request \in [Requests -> RequestRecord] /\ queue \in Seq(Requests)
  BY DEF RequestType, Line
<1>1. ASSUME NEW r \in Requests, NEW route, NEW m, NEW p, Arrive(r, route, m, p)
      PROVE  OnlyWaiting'
  <2>1. /\ queue' = Append(queue, r) /\ request[r].pc = "unsent"
        /\ request'[r].pc = "waiting" /\ \A s \in Requests \ {r} : request'[s] = request[s]
    BY <1>0, <1>1 DEF Arrive, Fresh, At
  <2>2. /\ Len(queue) \in Nat /\ DOMAIN queue = 1 .. Len(queue)
        /\ DOMAIN queue' = 1 .. Len(queue) + 1
        /\ \A i \in 1 .. Len(queue) : queue'[i] = queue[i] /\ queue[i] \in Requests
        /\ queue'[Len(queue) + 1] = r
    BY <1>0, <2>1
  <2>3. \A i \in DOMAIN queue : queue[i] # r
    BY <2>1 DEF OnlyWaiting
  <2>4. \A i \in DOMAIN queue' : i \in DOMAIN queue \/ i = Len(queue) + 1
    BY <2>2
  <2> QED
    BY <2>1, <2>2, <2>3, <2>4 DEF OnlyWaiting
<1>2. ASSUME NEW r \in Requests, queue' = queue,
             request'[r].pc \in {"waiting", "calling"} \/ request[r].pc \notin {"waiting", "calling"},
             \A s \in Requests \ {r} : request'[s] = request[s]
      PROVE  OnlyWaiting'
  BY <1>0, <1>2 DEF OnlyWaiting
<1>3. ASSUME NEW r \in Requests, request[r].pc \in {"waiting", "calling"},
             queue' = Without(r) \/ (queue[1] = r /\ queue' = Tail(queue)),
             \A s \in Requests \ {r} : request'[s] = request[s]
      PROVE  OnlyWaiting'
  <2>1. \E i \in DOMAIN queue : queue[i] = r
    BY <1>3 DEF Line
  <2>2. /\ \A i \in DOMAIN queue' : queue'[i] # r /\ \E k \in DOMAIN queue : queue'[i] = queue[k]
        /\ \A i, k \in DOMAIN queue' : queue'[i] = queue'[k] => i = k
    BY <1>0, <1>3, <2>1, WithoutDistinct
  <2>3. \A k \in DOMAIN queue : queue[k] \in Requests
    BY <1>0
  <2> QED
    BY <1>3, <2>2, <2>3 DEF OnlyWaiting
<1>4. ASSUME NEW r \in Requests, CallOut(r) PROVE OnlyWaiting'
  <2>1. queue' = queue /\ request'[r].pc = "calling" /\ \A s \in Requests \ {r} : request'[s] = request[s]
    BY <1>0, <1>4 DEF CallOut, RequestRecord
  <2> QED
    BY <1>2, <2>1
<1>5. ASSUME NEW r \in Requests, HangUp(r) PROVE OnlyWaiting'
  <2>1. /\ request[r].pc \in {"waiting", "calling"} /\ queue' = Without(r)
        /\ \A s \in Requests \ {r} : request'[s] = request[s]
    BY <1>0, <1>5 DEF HangUp
  <2> QED
    BY <1>3, <2>1
<1>6. ASSUME NEW r \in Requests, Ends(r) PROVE OnlyWaiting'
  <2>1. CASE Forgotten(r)
    <3>1. queue' = queue /\ request[r].pc \in {"answered", "gone"}
          /\ \A s \in Requests \ {r} : request'[s] = request[s]
      BY <1>0, <2>1 DEF Forgotten, Abandoned
    <3> QED
      BY <1>2, <3>1
  <2>2. ASSUME NEW status \in Refusals \cup {"ok"}, NEW number \in Nat,
               Answered(r, status, number)
        PROVE  OnlyWaiting'
    <3>1. /\ request[r].pc = "calling" /\ \A s \in Requests \ {r} : request'[s] = request[s]
      BY <2>2, AnswerStep DEF Answered, At
    <3>2. queue[1] = r /\ queue' = Tail(queue)
      BY <2>2 DEF Answered, Answer, Line
    <3> QED
      BY <1>3, <3>1, <3>2
  <2> QED
    BY <1>6, <2>1, <2>2 DEF Ends
<1>7. CASE UNCHANGED <<request, queue>>
  BY <1>7 DEF OnlyWaiting
<1>8. ASSUME NEW r \in Requests, NEW route \in Routes, NEW code \in Rejections(route),
             Reject(r, route, code)
      PROVE  OnlyWaiting'
  <2>1. request[r].pc = "unsent" /\ queue' = queue
        /\ \A s \in Requests \ {r} : request'[s] = request[s]
    BY <1>0, <1>8 DEF Reject, At
  <2> QED
    BY <1>2, <2>1
<1> QED
  BY <1>1, <1>4, <1>5, <1>6, <1>7, <1>8, StepCases

\* A handler that was dropped leaves neither the lock nor its place in the queue behind
\* (main.rs of the API: state.grpc.lock() and the guard's drop).
THEOREM FrontStaysAlive == ApiSpec => []FrontIsAlive
<1>1. ApiInit => OnlyWaiting
  BY DEF ApiInit, OnlyWaiting
<1>2. OrderInv => CoreInv /\ RequestType /\ Line /\ CallType
  BY DEF OrderInv, ApiInv
<1>3. OrderInv /\ OnlyWaiting /\ [ApiNext]_everything => OnlyWaiting'
  BY <1>2, OnlyWaitingStep
<1>4. OrderInv /\ OnlyWaiting => FrontIsAlive
  <2> SUFFICES ASSUME OrderInv, OnlyWaiting, NEW r \in Requests, AtFront(r)
               PROVE  request[r].pc \in {"waiting", "calling"}
    BY DEF FrontIsAlive
  <2>1. queue \in Seq(Requests) /\ queue # <<>> /\ queue[1] = r
    BY <1>2 DEF Line, AtFront
  <2>2. 1 \in DOMAIN queue
    BY <2>1
  <2> QED
    BY <2>1, <2>2 DEF OnlyWaiting
<1> QED
  BY <1>1, <1>3, <1>4, OrderInvHolds, PTL DEF ApiSpec

\* As long as every call is answered or breaks, which is ApiFairness, the one in front of
\* the queue goes from waiting to its call and out of the queue.
LEMMA FrontLeaves ==
  ASSUME NEW r \in Requests
  PROVE  ApiSpec /\ ApiFairness /\ []FrontCanStep
           => /\ At(r, "calling") ~> ~At(r, "calling")
              /\ (At(r, "waiting") /\ AtFront(r)) ~> ~At(r, "waiting")
<1> DEFINE Inv == CoreInv /\ RequestType /\ Line
           W == At(r, "waiting")
           C == At(r, "calling")
           F == AtFront(r)
<1>1. OrderInv => Inv
  BY DEF OrderInv, ApiInv
<1>2. ApiFairness => ProgressFairness(r)
  BY DEF ApiFairness
<1>3. FrontCanStep /\ FrontIsAlive /\ F => ENABLED <<Progress(r)>>_everything
  BY DEF FrontCanStep, FrontIsAlive
<1>4. Inv /\ C => F
  BY DEF Line, AtFront, At
<1>5. Inv /\ [ApiNext]_everything /\ W /\ F => F' \/ ~W'
  BY FrontStays
<1>6. Inv /\ <<Progress(r)>>_everything => (~W \/ ~W') /\ (~C \/ ~C')
  BY ProgressLeaves
<1> HIDE DEF Inv, W, C, F
<1>7. ApiSpec /\ ApiFairness /\ []FrontCanStep => (C ~> ~C) /\ ((W /\ F) ~> ~W)
  BY <1>1, <1>2, <1>3, <1>4, <1>5, <1>6, OrderInvHolds, FrontStaysAlive, PTL DEF ApiSpec, ProgressFairness
<1> QED
  BY <1>7 DEF W, C, F

\* r is the i-th in the queue and waits for the lock.
Place(r, i) == At(r, "waiting") /\ i \in DOMAIN queue /\ queue[i] = r
Nearer(r, i) == Place(r, i - 1) \/ ~At(r, "waiting")

\* Whoever waits behind another keeps that place, and has the same one in front, or gets
\* nearer: nobody gets in between, and nobody goes without the place being given up.
LEMMA PlaceStep ==
  ASSUME CoreInv, RequestType, Line, [ApiNext]_everything, NEW r \in Requests,
         NEW s \in Requests, NEW i \in Nat \ {0, 1}, Place(r, i), AtFront(s)
  PROVE  (Place(r, i)' /\ AtFront(s)') \/ Nearer(r, i)'
<1> SUFFICES ASSUME At(r, "waiting")'
             PROVE  (Place(r, i)' /\ AtFront(s)') \/ Place(r, i - 1)'
  BY DEF Nearer
<1> DEFINE n == Len(queue)
           Goal == (Place(r, i)' /\ AtFront(s)') \/ Place(r, i - 1)'
<1>0. /\ request \in [Requests -> RequestRecord] /\ queue \in Seq(Requests)
      /\ n \in Nat /\ DOMAIN queue = 1 .. n /\ i \in 2 .. n
      /\ request[r].pc = "waiting" /\ queue[i] = r /\ queue[1] = s
  BY DEF RequestType, Line, Place, AtFront, At
<1>1. ASSUME queue' = queue PROVE Goal
  BY <1>1 DEF Place, AtFront
<1>2. ASSUME NEW q \in Requests, queue' = Append(queue, q) PROVE Goal
  <2>1. /\ DOMAIN queue' = 1 .. n + 1 /\ queue'[i] = r /\ queue'[1] = s /\ queue' # <<>>
        /\ Head(queue') = queue'[1]
    BY <1>0, <1>2
  <2>2. i \in DOMAIN queue'
    BY <1>0, <2>1
  <2> QED
    BY <2>1, <2>2 DEF Place, AtFront
<1>3. ASSUME NEW k \in 1 .. n, k # i,
             queue' \in Seq(Requests), DOMAIN queue' = 1 .. n - 1,
             \A j \in 1 .. k - 1 : queue'[j] = queue[j],
             \A j \in k .. n - 1 : queue'[j] = queue[j + 1]
      PROVE  Goal
  <2>1. CASE k < i
    <3>1. i - 1 \in k .. n - 1 /\ i - 1 \in 1 .. n - 1 /\ (i - 1) + 1 = i
      BY <1>0, <2>1
    <3>2. i - 1 \in DOMAIN queue' /\ queue'[i - 1] = r
      BY <1>0, <1>3, <3>1
    <3> QED
      BY <3>2 DEF Place
  <2>2. CASE k > i
    <3>1. i \in 1 .. k - 1 /\ 1 \in 1 .. k - 1 /\ i \in 1 .. n - 1 /\ 1 \in 1 .. n - 1
      BY <1>0, <2>2
    <3>2. i \in DOMAIN queue' /\ queue'[i] = r /\ queue'[1] = s /\ 1 \in DOMAIN queue'
      BY <1>0, <1>3, <3>1
    <3>3. queue' # <<>> /\ Head(queue') = s
      BY <1>3, <3>2
    <3> QED
      BY <3>2, <3>3 DEF Place, AtFront
  <2> QED
    BY <1>0, <1>3, <2>1, <2>2
<1> HIDE DEF Goal, n
<1>4. ASSUME NEW q \in Requests, HangUp(q) PROVE Goal
  <2>1. q # r
    BY <1>0, <1>4 DEF HangUp, At, Gone, Fresh, RequestRecord
  <2>2. queue' = Without(q) /\ \E j \in DOMAIN queue : queue[j] = q
    BY <1>4 DEF HangUp, Line
  <2> DEFINE k == CHOOSE j \in DOMAIN queue : queue[j] = q
  <2>3. k \in DOMAIN queue /\ queue[k] = q
    BY <2>2
  <2>4. queue' = RemoveAt(queue, k)
    BY <2>2 DEF Without
  <2> HIDE DEF k
  <2>5. k \in 1 .. n /\ k # i
    BY <1>0, <2>1, <2>3
  <2>6. /\ RemoveAt(queue, k) \in Seq(Requests)
        /\ DOMAIN RemoveAt(queue, k) = 1 .. n - 1
        /\ \A j \in 1 .. k - 1 : RemoveAt(queue, k)[j] = queue[j]
        /\ \A j \in k .. n - 1 : RemoveAt(queue, k)[j] = queue[j + 1]
    BY <1>0, <2>5, RemoveAtKeeps DEF n
  <2> QED
    BY <1>3, <2>4, <2>5, <2>6
<1>5. ASSUME NEW q \in Requests, Ends(q) PROVE Goal
  <2>1. CASE queue' = Tail(queue)
    <3>1. n # 0
      BY <1>0
    <3>2. /\ Tail(queue) \in Seq(Requests) /\ DOMAIN Tail(queue) = 1 .. n - 1
          /\ \A j \in 1 .. n - 1 : Tail(queue)[j] = queue[j + 1]
      BY <1>0, <3>1 DEF n
    <3>3. 1 \in 1 .. n /\ 1 # i
      BY <1>0
    <3>4. \A j \in 1 .. 1 - 1 : queue'[j] = queue[j]
      OBVIOUS
    <3> QED
      BY <1>3, <2>1, <3>2, <3>3, <3>4
  <2>2. queue' = queue \/ queue' = Tail(queue)
    BY <1>5 DEF Ends, Forgotten, Abandoned, Answered, Answer
  <2> QED
    BY <1>1, <2>1, <2>2
<1>6. Goal
  BY <1>1, <1>2, <1>4, <1>5, StepCases DEF Arrive, Reject, CallOut
<1> QED
  BY <1>6 DEF Goal

\* Whoever has made its call does not wait again.
LEMMA CallsOnce ==
  ASSUME CoreInv, RequestType, [ApiNext]_everything, NEW r \in Requests, At(r, "calling")
  PROVE  ~At(r, "waiting")'
<1>0. request[r] \in RequestRecord
  BY DEF RequestType
<1>1. request'[r] = request[r] \/ Moves(r)
  BY StepMoves DEF Moves
<1>2. CASE request'[r] = request[r]
  BY <1>2 DEF At
<1>3. CASE MovedOn(r)
  BY <1>0, <1>3 DEF MovedOn, At, RequestRecord
<1>4. CASE Replies(r) \/ Ended(r)
  <2>1. Replies(r) => request'[r].pc = "answered"
    BY ReplyFields DEF Replies
  <2>2. Ended(r) => request'[r].pc = "gone"
    BY DEF Ended, Gone, Fresh
  <2> QED
    BY <1>4, <2>1, <2>2 DEF At
<1> QED
  BY <1>1, <1>2, <1>3, <1>4 DEF Moves, Arrived, TurnedAway, At

\* Whoever waits for the client lock gets it in its turn, whoever arrives, hangs up or is
\* restarted: behind another request the place gets better, and in front the lock is
\* granted.  It is assumed, as in RequestsAnswered, that every call is answered or breaks
\* (main.rs of the API: state.grpc.lock()).
THEOREM QueueMovesOn ==
  ApiSpec /\ ApiFairness /\ []FrontCanStep
    => /\ \A r \in Requests : (At(r, "waiting") /\ AtFront(r)) ~> ~At(r, "waiting")
       /\ \A r, s \in Requests, i \in Nat \ {0, 1} :
            (Place(r, i) /\ AtFront(s)) ~> Nearer(r, i)
<1> DEFINE Goes(q) ==
             ApiSpec /\ ApiFairness /\ []FrontCanStep
               => /\ At(q, "calling") ~> ~At(q, "calling")
                  /\ (At(q, "waiting") /\ AtFront(q)) ~> ~At(q, "waiting")
<1>0. \A r \in Requests : Goes(r)
  BY FrontLeaves
<1> HIDE DEF Goes
<1>1. ASSUME NEW r \in Requests, NEW s \in Requests, NEW i \in Nat \ {0, 1}
      PROVE  ApiSpec /\ ApiFairness /\ []FrontCanStep
               => (Place(r, i) /\ AtFront(s)) ~> Nearer(r, i)
  <2> DEFINE Inv == CoreInv /\ RequestType /\ Line
             P == Place(r, i)
             G == Nearer(r, i)
             F == AtFront(s)
             W == At(s, "waiting")
             C == At(s, "calling")
  <2>1. OrderInv => Inv
    BY DEF OrderInv, ApiInv
  <2>2. Inv /\ [ApiNext]_everything /\ P /\ F => (P' /\ F') \/ G'
    BY PlaceStep
  <2>3. Inv /\ [ApiNext]_everything /\ C => ~W'
    BY CallsOnce
  <2>4. FrontIsAlive /\ F => W \/ C
    BY DEF FrontIsAlive, At
  <2>0. Goes(s)
    BY <1>0
  <2>5. ApiSpec /\ ApiFairness /\ []FrontCanStep => (C ~> ~C) /\ ((W /\ F) ~> ~W)
    BY <2>0, PTL DEF Goes
  <2> HIDE DEF Inv, P, G, F, W, C
  <2>6. ApiSpec /\ ApiFairness /\ []FrontCanStep => (P /\ F ~> G)
    BY <2>1, <2>2, <2>3, <2>4, <2>5, OrderInvHolds, FrontStaysAlive, PTL DEF ApiSpec
  <2> QED
    BY <2>6 DEF P, G, F
<1>2. ASSUME NEW r \in Requests
      PROVE  ApiSpec /\ ApiFairness /\ []FrontCanStep
               => (At(r, "waiting") /\ AtFront(r)) ~> ~At(r, "waiting")
  <2>1. Goes(r)
    BY <1>0
  <2> QED
    BY <2>1, PTL DEF Goes
<1> QED
  BY <1>1, <1>2
=============================================================================
