-------------------------- MODULE LifecycleProofs ---------------------------
(***************************************************************************)
(* The control plane implements MatchLifecycle and Admission: the initial  *)
(* state maps to the initial state, and every step maps to a step or to a  *)
(* stutter.                                                                *)
(***************************************************************************)
EXTENDS ControlPlaneProofs

PhaseMap == [m \in Matches |-> PhaseOf(m)]
AbstractVars == <<PhaseMap, players, finished>>

\* Critical sections that move no match along leave the abstract state alone.
LEMMA SamePhases ==
  ASSUME UNCHANGED <<matches, startedAt, drawnMatches>>
  PROVE  PhaseMap' = PhaseMap
BY DEF PhaseMap, PhaseOf, Started

\* Rooms that are dropped, and stay drawn, are matches that are closed.
LEMMA RoomsClose ==
  ASSUME TypeOK, NEW S \in SUBSET matches, DropRooms(S), UNCHANGED drawnVars
  PROVE  Lifecycle!CloseAll(S)
<1>1. PhaseMap' = [m \in Matches |-> IF m \in S THEN "closed" ELSE PhaseMap[m]]
  BY DEF TypeOK, DropRooms, TicketsWithout, drawnVars, PhaseMap, PhaseOf, Started
<1> QED
  BY <1>1 DEF DropRooms, TicketsWithout, Lifecycle!CloseAll, PhaseMap

\* Every critical section is a step of a match's life, or moves none along.
LEMMA LifecycleStep ==
  TypeOK /\ SingleAdmission /\ RostersFit /\ [Next]_vars
    => [Lifecycle!Next]_(Lifecycle!lifecycleVars)
<1> SUFFICES ASSUME TypeOK, SingleAdmission, RostersFit, [Next]_vars
             PROVE  \/ Lifecycle!Next
                    \/ UNCHANGED AbstractVars
  BY DEF Lifecycle!lifecycleVars, AbstractVars, PhaseMap
<1>0. /\ matches \subseteq drawnMatches /\ drawnMatches \subseteq Matches
      /\ startedAt \in [Matches -> Time]
      /\ players \in [Matches -> SUBSET drawnPlayers]
      /\ drawnPlayers \subseteq Players
      /\ \A m \in Matches \ matches : /\ players[m] = {}
                                   /\ startedAt[m] = 0
                                   /\ finished[m] = <<>>
      /\ now # 0
  BY ConstantTypes DEF TypeOK
<1> USE DEF AbstractVars
<1>1. ASSUME NEW m \in Matches, CreateRoom(m) PROVE Lifecycle!Next
  <2>1. PhaseMap[m] = "unborn"
    BY <1>0, <1>1 DEF CreateRoom, PhaseMap, PhaseOf
  <2>2. PhaseMap' = [PhaseMap EXCEPT ![m] = "lobby"]
    BY <1>0, <1>1 DEF CreateRoom, PhaseMap, PhaseOf, Started
  <2>3. Lifecycle!Create(m)
    BY <1>1, <2>1, <2>2 DEF CreateRoom, Lifecycle!Create, PhaseMap
  <2> QED
    BY <2>3 DEF Lifecycle!Next
<1>2. ASSUME NEW m \in Matches, StartRoom(m) PROVE Lifecycle!Next
  <2>1. PhaseMap[m] = "lobby"
    BY <1>0, <1>2 DEF StartRoom, Startable, PhaseMap, PhaseOf
  <2>2. PhaseMap' = [PhaseMap EXCEPT ![m] = "running"]
    BY <1>0, <1>2 DEF StartRoom, Startable, drawnVars, PhaseMap, PhaseOf, Started
  <2>3. Lifecycle!Run(m)
    BY <1>2, <2>1, <2>2 DEF StartRoom, Startable, Lifecycle!Run, PhaseMap
  <2> QED
    BY <2>3 DEF Lifecycle!Next
<1>4. ASSUME NEW m \in Matches, DeleteRoom(m) PROVE Lifecycle!Next
  <2>1. PhaseMap[m] \in {"lobby", "running"}
    BY <1>0, <1>4 DEF DeleteRoom, PhaseMap, PhaseOf
  <2>2. Lifecycle!CloseAll({m})
    BY RoomsClose, <1>4 DEF DeleteRoom
  <2>3. Lifecycle!Close(m)
    BY <2>1, <2>2 DEF Lifecycle!Close, Lifecycle!Open, PhaseMap
  <2> QED
    BY <2>3 DEF Lifecycle!Next
<1>5. CASE SweepApply
  <2> DEFINE S == Stale(sweepAt)
  <2>1. S \in SUBSET matches /\ \A m \in S : PhaseMap[m] = "lobby"
    BY <1>0 DEF Stale, PhaseMap, PhaseOf
  <2>2. Lifecycle!CloseAll(S)
    BY RoomsClose, <1>5, <2>1 DEF SweepApply
  <2> HIDE DEF S
  <2>3. Lifecycle!Expire(S) /\ S \in SUBSET Matches
    BY <1>0, <2>1, <2>2 DEF Lifecycle!Expire, PhaseMap
  <2> QED
    BY <2>3 DEF Lifecycle!Next
<1>6. ASSUME NEW m \in Matches, NEW p \in Players, FinishRoom(m, p)
      PROVE  Lifecycle!Next
  <2>1. PhaseMap[m] = "running"
    BY <1>0, <1>6 DEF FinishRoom, PhaseMap, PhaseOf
  <2>2. PhaseMap' = PhaseMap
    BY <1>6, SamePhases DEF FinishRoom, drawnVars
  <2>3. Lifecycle!Finish(m, p)
    BY <1>6, <2>1, <2>2
    DEF FinishRoom, Finishers, Lifecycle!Finish, Lifecycle!Ranked, PhaseMap
  <2> QED
    BY <2>3 DEF Lifecycle!Next
<1>7. ASSUME NEW m \in Matches, NEW p \in Players, RemovePlayer(m, p)
      PROVE  Lifecycle!Next
  <2>1. PhaseMap' = PhaseMap
    BY <1>7, SamePhases DEF RemovePlayer, drawnVars
  <2>2. Lifecycle!Leave(m, p)
    BY <1>7, <2>1 DEF RemovePlayer, Lifecycle!Leave, PhaseMap
  <2> QED
    BY <2>2 DEF Lifecycle!Next
<1>8. ASSUME NEW c \in joining, RegisterPlayer(c)
      PROVE  Lifecycle!Next \/ UNCHANGED AbstractVars
  <2> DEFINE m == c.match
             p == c.player
  <2>1. PhaseMap' = PhaseMap
    BY <1>8, SamePhases DEF RegisterPlayer, drawnVars
  <2>2. CASE Admissible(m, p)
    <3>1. m \in Matches /\ p \in Players
      BY DEF TypeOK, Claim
    <3>2. PhaseMap[m] \in {"lobby", "running"}
      BY <1>0, <2>2 DEF Admissible, PhaseMap, PhaseOf
    <3>3. \A n \in Matches : p \notin players[n]
      BY DEF SingleAdmission
    <3>4. Cardinality(players[m]) < MaxPlayers
      <4>1. Cardinality(players[m]) \in Nat
        BY <3>1, FS_CardinalityType DEF RostersFit
      <4> QED
        BY <2>2, <3>1, <3>3, <4>1, ConstantTypes DEF Admissible, Full
    <3>4a. Lifecycle!Cardinality(players[m]) = Cardinality(players[m])
      BY DEF Cardinality, Lifecycle!Cardinality
    <3>5. players' = [players EXCEPT ![m] = @ \cup {p}] /\ finished' = finished
      BY <1>8, <2>2 DEF RegisterPlayer
    <3>6. Lifecycle!Open(m)
      BY <3>1, <3>2 DEF Lifecycle!Open, PhaseMap
    <3> HIDE DEF m, p
    <3>7. Lifecycle!Enter(m, p)
      BY <2>1, <3>3, <3>4, <3>4a, <3>5, <3>6 DEF Lifecycle!Enter, PhaseMap
    <3> QED
      BY <3>1, <3>7 DEF Lifecycle!Next
  <2>3. CASE ~Admissible(m, p)
    BY <1>8, <2>1, <2>3 DEF RegisterPlayer
  <2> QED
    BY <2>2, <2>3
<1>9. ASSUME UNCHANGED <<matches, startedAt, drawnMatches, players, finished>>
      PROVE  UNCHANGED AbstractVars
  BY <1>9, SamePhases
<1> HIDE DEF AbstractVars
<1>10. ASSUME NEW m \in Matches, NEW p \in Players, IssueJoinTicket(m, p)
       PROVE  UNCHANGED AbstractVars
  BY <1>9, <1>10 DEF IssueJoinTicket
<1>11. ASSUME NEW t \in tickets, ConsumeTicket(t)
       PROVE  UNCHANGED AbstractVars
  BY <1>9, <1>11 DEF ConsumeTicket, roomVars, drawnVars
<1>12. ASSUME NEW m \in Matches, NEW p \in Players, NEW param \in Kinds,
              NEW direction \in ParamDirection,
              UpdatePlayerParams(m, p, param, direction)
       PROVE  UNCHANGED AbstractVars
  BY <1>9, <1>12 DEF UpdatePlayerParams, drawnVars
<1>13. CASE SweepBegin \/ Tick \/ UNCHANGED vars
  BY <1>9, <1>13 DEF SweepBegin, Tick, vars, roomVars, drawnVars
<1> QED
  BY <1>1, <1>2, <1>4, <1>5, <1>6, <1>7, <1>8, <1>10, <1>11, <1>12, <1>13
  DEF Next

\* The life of a match as clients may rely on it is what the gRPC handlers, the
\* UDP joins and the cleanup task together implement.
THEOREM LifecycleImplemented == Spec => ImplementsLifecycle
<1>1. Init => Lifecycle!Init
  BY DEF Init, Lifecycle!Init, PhaseOf
<1> QED
  BY <1>1, LifecycleStep, TypeCorrect, AdmitsOnce, RostersAlwaysFit, PTL
  DEF Spec, ImplementsLifecycle, Lifecycle!Spec

\* What MatchLifecycle promises of ranks, read through the refinement.
Abstract == INSTANCE MatchLifecycleProofs
              WITH phase <- [m \in Matches |-> PhaseOf(m)],
                   roster <- players,
                   ranking <- finished

\* Both instances of the abstract specification are the same formula.
LEMMA SameLifecycle ==
  /\ Lifecycle!Init <=> Abstract!Init
  /\ [Lifecycle!Next \/ Lifecycle!Crash]_(Lifecycle!lifecycleVars)
       <=> [Abstract!Next \/ Abstract!Crash]_(Abstract!lifecycleVars)
<1>1. Lifecycle!Init <=> Abstract!Init
  BY DEF Lifecycle!Init, Abstract!Init
<1>2. ASSUME NEW m, NEW p
      PROVE  /\ Lifecycle!Create(m) <=> Abstract!Create(m)
             /\ Lifecycle!Run(m) <=> Abstract!Run(m)
             /\ Lifecycle!Enter(m, p) <=> Abstract!Enter(m, p)
             /\ Lifecycle!Leave(m, p) <=> Abstract!Leave(m, p)
             /\ Lifecycle!Finish(m, p) <=> Abstract!Finish(m, p)
  BY DEF Lifecycle!Create, Abstract!Create, Lifecycle!Run, Abstract!Run,
         Lifecycle!Enter, Abstract!Enter, Lifecycle!Leave, Abstract!Leave,
         Lifecycle!Finish, Abstract!Finish, Lifecycle!Ranked, Abstract!Ranked,
         Lifecycle!Open, Abstract!Open, Lifecycle!Cardinality, Abstract!Cardinality
<1>3. ASSUME NEW m, NEW S
      PROVE  /\ Lifecycle!Close(m) <=> Abstract!Close(m)
             /\ Lifecycle!Expire(S) <=> Abstract!Expire(S)
             /\ Lifecycle!Crash <=> Abstract!Crash
  BY DEF Lifecycle!Close, Abstract!Close, Lifecycle!Expire, Abstract!Expire,
         Lifecycle!Crash, Abstract!Crash,
         Lifecycle!CloseAll, Abstract!CloseAll, Lifecycle!Open, Abstract!Open
<1>4. Lifecycle!Next <=> Abstract!Next
  BY <1>2, <1>3 DEF Lifecycle!Next, Abstract!Next
<1> QED
  BY <1>1, <1>3, <1>4 DEF Lifecycle!lifecycleVars, Abstract!lifecycleVars

\* What the abstract theorems say of this state.
LEMMA RanksOfALife == Lifecycle!CrashSpec => []RankingSound /\ RankIsFinal
<1>1. Abstract!CrashSpec => []Abstract!RankingSound
  BY Abstract!RankedOnce DEF Abstract!RankedOnce
<1>2. Abstract!RankingSound <=> RankingSound
  BY DEF Abstract!RankingSound, RankingSound, Lifecycle!RankingSound
<1>3. Abstract!CrashSpec => Abstract!RankIsFinal
  BY Abstract!RanksAreFinal DEF Abstract!RanksAreFinal
<1>4. Abstract!RankIsFinal => RankIsFinal
  BY PTL DEF Abstract!RankIsFinal, RankIsFinal, Lifecycle!RankIsFinal,
             Abstract!lifecycleVars, Lifecycle!lifecycleVars,
             Abstract!Open, Lifecycle!Open
<1> QED
  BY <1>1, <1>2, <1>3, <1>4, SameLifecycle, PTL
  DEF Lifecycle!CrashSpec, Abstract!CrashSpec

\* Crashes come on top of the life of a match.
LEMMA LifeWithoutCrash == ImplementsLifecycle => Lifecycle!CrashSpec
<1>1. [Lifecycle!Next]_(Lifecycle!lifecycleVars)
        => [Lifecycle!Next \/ Lifecycle!Crash]_(Lifecycle!lifecycleVars)
  OBVIOUS
<1> QED
  BY <1>1, PTL DEF ImplementsLifecycle, Lifecycle!Spec, Lifecycle!CrashSpec

\* finish_player ranks nobody twice, and only in a room that has started.
THEOREM RankedOnce == Spec => []RankingSound
BY LifecycleImplemented, LifeWithoutCrash, RanksOfALife, PTL

\* The rank a player was told is never rewritten while the room is there.
THEOREM RanksStand == Spec => RankIsFinal
BY LifecycleImplemented, LifeWithoutCrash, RanksOfALife, PTL

-----------------------------------------------------------------------------
(* Admission *)

\* A room id that is still to be drawn is in no join under way.
ClaimsDrawn == \A c \in joining : c.match \in drawnMatches

GuestInv == TypeOK /\ SingleAdmission /\ RostersFit /\ TicketsNameLiveRooms /\ ClaimsDrawn

\* A claim is made from a ticket, whose room is there.
LEMMA ClaimsStep == GuestInv /\ [Next]_vars => ClaimsDrawn'
<1> SUFFICES ASSUME GuestInv, [Next]_vars PROVE ClaimsDrawn'
  OBVIOUS
<1>1. /\ drawnMatches \subseteq drawnMatches'
      /\ joining' \subseteq joining \/ \E t \in tickets : ConsumeTicket(t)
  <2> DEFINE Goal == /\ drawnMatches \subseteq drawnMatches'
                     /\ joining' \subseteq joining \/ \E t \in tickets : ConsumeTicket(t)
  <2> USE DEF roomVars, drawnVars
  <2>1. ASSUME NEW m \in Matches, CreateRoom(m) \/ StartRoom(m) \/ DeleteRoom(m) PROVE Goal
    BY <2>1 DEF CreateRoom, StartRoom, DeleteRoom
  <2>2. ASSUME NEW m \in Matches, NEW p \in Players,
               IssueJoinTicket(m, p) \/ FinishRoom(m, p) \/ RemovePlayer(m, p)
        PROVE  Goal
    BY <2>2 DEF IssueJoinTicket, FinishRoom, RemovePlayer
  <2>3. ASSUME NEW t \in tickets, ConsumeTicket(t) PROVE Goal
    <3>1. drawnMatches' = drawnMatches
      BY <2>3 DEF ConsumeTicket
    <3> QED
      BY <2>3, <3>1
  <2>4. ASSUME NEW c \in joining, RegisterPlayer(c) PROVE Goal
    BY <2>4 DEF RegisterPlayer
  <2>5. ASSUME NEW m \in Matches, NEW p \in Players, NEW param \in Kinds,
               NEW direction \in ParamDirection, UpdatePlayerParams(m, p, param, direction)
        PROVE  Goal
    BY <2>5 DEF UpdatePlayerParams
  <2>6. ASSUME SweepBegin \/ SweepApply \/ Tick \/ UNCHANGED vars PROVE Goal
    BY <2>6 DEF SweepBegin, SweepApply, Tick, vars
  <2> HIDE DEF Goal
  <2>7. Goal
    BY <2>1, <2>2, <2>3, <2>4, <2>5, <2>6 DEF Next
  <2> QED
    BY <2>7 DEF Goal
<1>2. ASSUME joining' \subseteq joining PROVE ClaimsDrawn'
  BY <1>1, <1>2 DEF GuestInv, ClaimsDrawn
<1>3. ASSUME NEW t \in tickets, ConsumeTicket(t) PROVE ClaimsDrawn'
  <2>1. t.match \in drawnMatches
    BY DEF GuestInv, TypeOK, TicketsNameLiveRooms
  <2> QED
    BY <1>1, <1>3, <2>1 DEF GuestInv, ClaimsDrawn, ConsumeTicket
<1> QED
  BY <1>1, <1>2, <1>3

LEMMA InvitedBy ==
  ASSUME NEW p, NEW m
  PROVE  <<p, m>> \in Invitations
           <=> m \in matches /\ \E t \in tickets \cup joining : t.player = p /\ t.match = m
BY DEF Invitations

\* Rooms that are dropped take their guests along; joins under way may go, too, if
\* all rooms do.
LEMMA GuestsGo ==
  ASSUME GuestInv, NEW S \in SUBSET matches, DropRooms(S), drawnPlayers' = drawnPlayers,
         joining' = joining \/ (joining' = {} /\ S = matches)
  PROVE  Guests!Close(S)
<1>1. matches' = matches \ S /\ tickets' = {t \in tickets : t.match \notin S}
  BY DEF DropRooms, TicketsWithout
<1>2. Invitations' = {i \in Invitations : i[2] \notin S}
  BY <1>1 DEF Invitations
<1> QED
  BY <1>1, <1>2 DEF DropRooms, Guests!Close

\* A critical section that moves no ticket, claim, room or player is nothing to guests.
LEMMA SameGuests ==
  ASSUME UNCHANGED <<matches, players, tickets, joining, drawnPlayers>>
  PROVE  UNCHANGED Guests!admissionVars
BY DEF Guests!admissionVars, Invitations

\* Every critical section is one step of one guest, opens a match, closes some, or is
\* nothing to guests.
LEMMA GuestStep == GuestInv /\ [Next]_vars => [Guests!Next]_(Guests!admissionVars)
<1> SUFFICES ASSUME GuestInv, [Next]_vars
             PROVE  Guests!Next \/ UNCHANGED Guests!admissionVars
  OBVIOUS
<1>0. /\ matches \subseteq drawnMatches /\ drawnMatches \subseteq Matches
      /\ players \in [Matches -> SUBSET drawnPlayers] /\ drawnPlayers \subseteq Players
      /\ \A t \in tickets \cup joining : t.player \in Players /\ t.match \in Matches
      /\ \A t \in tickets \cup joining : t.match \in drawnMatches
      /\ \A t, u \in tickets \cup joining : t.player = u.player => t = u
  BY DEF GuestInv, TypeOK, SingleAdmission, ClaimsDrawn, TicketsNameLiveRooms, Ticket, Claim
<1>1. ASSUME NEW m \in Matches, CreateRoom(m) PROVE Guests!Next
  <2>1. Invitations' = Invitations
    BY <1>0, <1>1 DEF CreateRoom, Invitations
  <2>2. Guests!Open(m)
    BY <1>0, <1>1, <2>1 DEF CreateRoom, Guests!Open
  <2> QED
    BY <2>2 DEF Guests!Next
<1>2. ASSUME NEW m \in Matches, NEW p \in Players, IssueJoinTicket(m, p) PROVE Guests!Next
  <2>1. Invitations' = Invitations \cup {<<p, m>>}
    <3> DEFINE n == NewTicket(m, p)
    <3>1. n.player = p /\ n.match = m
      BY DEF NewTicket
    <3>2. m \in matches /\ tickets' = tickets \cup {n} /\ UNCHANGED <<matches, joining>>
      BY <1>2 DEF IssueJoinTicket
    <3> HIDE DEF n
    <3> QED
      BY <3>1, <3>2 DEF Invitations
  <2>2. Guests!Invite(p, m)
    BY <1>2, <2>1 DEF IssueJoinTicket, Guests!Invite
  <2> QED
    BY <2>2 DEF Guests!Next
<1>3. ASSUME NEW m \in Matches, NEW p \in Players, RemovePlayer(m, p) PROVE Guests!Next
  <2>1. Guests!Leave(p, m)
    BY <1>3 DEF RemovePlayer, drawnVars, Invitations, Guests!Leave
  <2> QED
    BY <2>1 DEF Guests!Next
<1>4. ASSUME NEW m \in Matches, DeleteRoom(m) PROVE Guests!Next
  <2>1. Guests!Close({m}) /\ {m} \in SUBSET matches
    BY <1>4, GuestsGo DEF DeleteRoom, drawnVars
  <2> QED
    BY <2>1 DEF Guests!Next
<1>5. CASE SweepApply
  <2>1. Stale(sweepAt) \in SUBSET matches
    BY DEF Stale
  <2>2. Guests!Close(Stale(sweepAt))
    BY <1>5, <2>1, GuestsGo DEF SweepApply, drawnVars
  <2> QED
    BY <2>1, <2>2 DEF Guests!Next
<1>6. ASSUME NEW t \in tickets, ConsumeTicket(t)
      PROVE  Guests!Next \/ UNCHANGED Guests!admissionVars
  <2> DEFINE c == [player |-> t.player, match |-> t.match]
  <2>1. /\ tickets' = tickets \ {t}
        /\ UNCHANGED <<matches, players, drawnPlayers>>
    BY <1>6 DEF ConsumeTicket, roomVars, drawnVars
  <2>2. CASE joining' = joining \cup {c}
    <3>1. Invitations' = Invitations
      <4>1. c.player = t.player /\ c.match = t.match
        OBVIOUS
      <4> HIDE DEF c
      <4> QED
        BY <2>1, <2>2, <4>1 DEF Invitations
    <3> QED
      BY <2>1, <3>1 DEF Guests!admissionVars
  <2>3. CASE joining' = joining
    <3>1. t.match \in matches
      BY DEF GuestInv, TicketsNameLiveRooms
    <3>2. <<t.player, t.match>> \in Invitations
      BY <3>1 DEF Invitations
    <3>3. Invitations' = Invitations \ {<<t.player, t.match>>}
      <4>1. ASSUME NEW u \in tickets \cup joining, u.player = t.player PROVE u = t /\ u \notin joining
        BY <4>1 DEF GuestInv, SingleAdmission
      <4>2. tickets' \cup joining' = (tickets \cup joining) \ {t}
        BY <2>1, <2>3, <4>1
      <4> QED
        BY <2>1, <4>1, <4>2 DEF Invitations
    <3>4. Guests!Lapse(t.player, t.match)
      BY <2>1, <3>2, <3>3 DEF Guests!Lapse
    <3> QED
      BY <1>0, <3>4 DEF Guests!Next
  <2> QED
    BY <1>6, <2>2, <2>3 DEF ConsumeTicket
<1>7. ASSUME NEW c \in joining, RegisterPlayer(c)
      PROVE  Guests!Next \/ UNCHANGED Guests!admissionVars
  <2> DEFINE m == c.match
             p == c.player
  <2>1. /\ joining' = joining \ {c}
        /\ UNCHANGED <<matches, tickets, drawnPlayers>>
    BY <1>7 DEF RegisterPlayer, drawnVars
  <2>2. m \in Matches /\ p \in Players
    BY <1>0
  <2>3. Invitations' = Invitations \ {<<p, m>>}
    <3>1. ASSUME NEW t \in tickets, t.player = p PROVE FALSE
      BY <3>1 DEF GuestInv, SingleAdmission
    <3> QED
      BY <1>0, <2>1, <3>1 DEF Invitations
  <2>4. m \in matches => <<p, m>> \in Invitations
    BY DEF Invitations
  <2>5. CASE Admissible(m, p)
    <3>1. \A n \in Matches : p \notin players[n]
      BY DEF GuestInv, SingleAdmission
    <3>2. Guests!Cardinality(players[m]) < MaxPlayers
      <4>1. Cardinality(players[m]) \in Nat
        BY <2>2, FS_CardinalityType DEF GuestInv, RostersFit
      <4>2. Cardinality(players[m]) < MaxPlayers
        BY <2>2, <2>5, <3>1, <4>1, ConstantTypes DEF Admissible, Full
      <4> QED
        BY <4>2 DEF Cardinality, Guests!Cardinality
    <3>3. players' = [players EXCEPT ![m] = @ \cup {p}] /\ m \in matches
      BY <1>7, <2>5 DEF RegisterPlayer, Admissible
    <3> HIDE DEF m, p
    <3>4. Guests!Admit(p, m)
      BY <2>1, <2>3, <2>4, <3>2, <3>3 DEF Guests!Admit
    <3> QED
      BY <2>2, <3>4 DEF Guests!Next
  <2>6. CASE ~Admissible(m, p)
    <3>1. players' = players
      BY <1>7, <2>6 DEF RegisterPlayer
    <3>2. CASE m \in matches
      <4>1. Guests!Lapse(p, m)
        BY <2>1, <2>3, <2>4, <3>1, <3>2 DEF Guests!Lapse
      <4> QED
        BY <2>2, <4>1 DEF Guests!Next
    <3>3. CASE m \notin matches
      <4>1. <<p, m>> \notin Invitations
        BY <3>3, InvitedBy
      <4> QED
        BY <2>1, <2>3, <3>1, <4>1 DEF Guests!admissionVars
    <3> QED
      BY <3>2, <3>3
  <2> QED
    BY <2>5, <2>6
<1>8. ASSUME NEW m \in Matches, StartRoom(m) PROVE UNCHANGED Guests!admissionVars
  BY <1>8, SameGuests DEF StartRoom, drawnVars
<1>9. ASSUME NEW m \in Matches, NEW p \in Players, FinishRoom(m, p)
      PROVE  UNCHANGED Guests!admissionVars
  BY <1>9, SameGuests DEF FinishRoom, drawnVars
<1>10. ASSUME NEW m \in Matches, NEW p \in Players, NEW param \in Kinds,
              NEW direction \in ParamDirection,
              UpdatePlayerParams(m, p, param, direction)
       PROVE  UNCHANGED Guests!admissionVars
  BY <1>10, SameGuests DEF UpdatePlayerParams, drawnVars
<1>11. CASE SweepBegin \/ Tick \/ UNCHANGED vars
  BY <1>11, SameGuests DEF SweepBegin, Tick, vars, roomVars, drawnVars
<1> QED
  BY <1>1, <1>2, <1>3, <1>4, <1>5, <1>6, <1>7, <1>8, <1>9, <1>10, <1>11 DEF Next

\* Whoever is out stays out: an invitation goes to a new id only, and a seat to
\* whoever holds an invitation.
LEMMA OutStaysOut ==
  ASSUME TypeOK, [Guests!Next]_(Guests!admissionVars), NEW p \in drawnPlayers,
         ~Guests!Expected(p), ~Guests!Seated(p)
  PROVE  ~Guests!Expected(p)' /\ ~Guests!Seated(p)'
<1>0. players \in [Matches -> SUBSET drawnPlayers]
  BY DEF TypeOK
<1> USE DEF Guests!Expected, Guests!Seated
<1>1. CASE \E m \in Matches : Guests!Open(m)
  BY <1>1 DEF Guests!Open
<1>2. ASSUME NEW q \in Players, NEW m \in Matches, Guests!Invite(q, m)
      PROVE  ~Guests!Expected(p)' /\ ~Guests!Seated(p)'
  BY <1>2 DEF Guests!Invite
<1>3. ASSUME NEW q \in Players, NEW m \in Matches, Guests!Admit(q, m)
      PROVE  ~Guests!Expected(p)' /\ ~Guests!Seated(p)'
  BY <1>3 DEF Guests!Admit
<1>4. ASSUME NEW q \in Players, NEW m \in Matches, Guests!Lapse(q, m)
      PROVE  ~Guests!Expected(p)' /\ ~Guests!Seated(p)'
  BY <1>4 DEF Guests!Lapse
<1>7. ASSUME NEW q \in Players, NEW m \in Matches, Guests!Leave(q, m)
      PROVE  ~Guests!Expected(p)' /\ ~Guests!Seated(p)'
  BY <1>0, <1>7 DEF Guests!Leave
<1>5. ASSUME NEW S \in SUBSET matches, Guests!Close(S)
      PROVE  ~Guests!Expected(p)' /\ ~Guests!Seated(p)'
  BY <1>5 DEF Guests!Close
<1>6. CASE UNCHANGED Guests!admissionVars
  BY <1>6 DEF Guests!admissionVars
<1> HIDE DEF Guests!Expected, Guests!Seated
<1> QED
  BY <1>1, <1>2, <1>3, <1>4, <1>5, <1>6, <1>7 DEF Guests!Next

LEMMA GuestsPromise ==
  Guests!Init /\ []GuestInv /\ [][Guests!Next]_(Guests!admissionVars)
    => ImplementsAdmission /\ OutForGood
<1>1. GuestInv /\ [Guests!Next]_(Guests!admissionVars)
        => [\A p \in drawnPlayers : ~Guests!Expected(p) /\ ~Guests!Seated(p)
              => ~Guests!Expected(p)' /\ ~Guests!Seated(p)']_(Guests!admissionVars)
  BY OutStaysOut DEF GuestInv
<1> QED
  BY <1>1, PTL DEF ImplementsAdmission, OutForGood, Guests!Spec, Guests!OutForGood

\* What the code does with tickets, claims and rosters is what Admission promises about
\* invitations and seats (issue_join_ticket, consume_ticket, register_player_udp,
\* remove_player, delete_room, the cleanup).
THEOREM AdmissionImplemented == Spec => ImplementsAdmission /\ OutForGood
<1>1. Init => Guests!Init /\ ClaimsDrawn
  BY DEF Init, Guests!Init, Invitations, ClaimsDrawn
<1>2. GuestInv /\ [Next]_vars => ClaimsDrawn'
  BY ClaimsStep
<1>3. Spec => []GuestInv
  BY <1>1, <1>2, TypeCorrect, AdmitsOnce, RostersAlwaysFit, TicketsFollowRooms, PTL
  DEF Spec, GuestInv
<1>4. GuestInv /\ [Next]_vars => [Guests!Next]_(Guests!admissionVars)
  BY GuestStep
<1> QED
  BY <1>1, <1>3, <1>4, GuestsPromise, PTL DEF Spec
=============================================================================
