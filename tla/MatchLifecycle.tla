--------------------------- MODULE MatchLifecycle ---------------------------
(***************************************************************************)
(* What the control plane promises about a match, whatever the interleaving *)
(* of API calls, joins and the cleanup task: a match is created once, is a  *)
(* lobby, may run, and is closed for good; its roster never exceeds the     *)
(* room size; the finish ranking belongs to the running phase, lists each   *)
(* player at most once, is extended only at its end by a player who is in   *)
(* the room, and is never rewritten while the match lives.                  *)
(***************************************************************************)
EXTENDS Integers, Sequences, FiniteSets

CONSTANTS Matches, Players, MaxPlayers

VARIABLES
  phase,    \* [Matches -> Phase]
  roster,   \* [Matches -> SUBSET Players]
  ranking   \* [Matches -> Seq(Players)], order of arrival

lifecycleVars == <<phase, roster, ranking>>

Phase == {"unborn", "lobby", "running", "closed"}
Open(m) == phase[m] \in {"lobby", "running"}
Ranked(m) == {ranking[m][i] : i \in DOMAIN ranking[m]}

Init ==
  /\ phase = [m \in Matches |-> "unborn"]
  /\ roster = [m \in Matches |-> {}]
  /\ ranking = [m \in Matches |-> <<>>]

Create(m) ==
  /\ phase[m] = "unborn"
  /\ phase' = [phase EXCEPT ![m] = "lobby"]
  /\ UNCHANGED <<roster, ranking>>

\* Players may come while the match runs: a late joiner is admitted.
Enter(m, p) ==
  /\ Open(m)
  /\ Cardinality(roster[m]) < MaxPlayers
  /\ \A n \in Matches : p \notin roster[n]
  /\ roster' = [roster EXCEPT ![m] = @ \cup {p}]
  /\ UNCHANGED <<phase, ranking>>

Leave(m, p) ==
  /\ p \in roster[m]
  /\ roster' = [roster EXCEPT ![m] = @ \ {p}]
  /\ UNCHANGED <<phase, ranking>>

Run(m) ==
  /\ phase[m] = "lobby"
  /\ phase' = [phase EXCEPT ![m] = "running"]
  /\ UNCHANGED <<roster, ranking>>

Finish(m, p) ==
  /\ phase[m] = "running"
  /\ p \in roster[m] \ Ranked(m)
  /\ ranking' = [ranking EXCEPT ![m] = Append(@, p)]
  /\ UNCHANGED <<phase, roster>>

\* An organiser closes one open match; the cleanup closes any set of lobbies.
CloseAll(S) ==
  /\ phase' = [m \in Matches |-> IF m \in S THEN "closed" ELSE phase[m]]
  /\ roster' = [m \in Matches |-> IF m \in S THEN {} ELSE roster[m]]
  /\ ranking' = [m \in Matches |-> IF m \in S THEN <<>> ELSE ranking[m]]

Close(m) == Open(m) /\ CloseAll({m})
Expire(S) == (\A m \in S : phase[m] = "lobby") /\ CloseAll(S)

Next ==
  \/ \E m \in Matches : Create(m) \/ Run(m) \/ Close(m)
  \/ \E m \in Matches, p \in Players : Enter(m, p) \/ Leave(m, p) \/ Finish(m, p)
  \/ \E S \in SUBSET Matches : Expire(S)

Spec == Init /\ [][Next]_lifecycleVars

\* Matches are kept in memory: when the server goes down, every open one is over.
Crash == CloseAll({m \in Matches : Open(m)})

CrashSpec == Init /\ [][Next \/ Crash]_lifecycleVars

-----------------------------------------------------------------------------
\* A ranking lists a player once at most, and there is none but of a match
\* that runs (finish_player keeps the rank of a player it finds in the ranking).
RankingSound ==
  \A m \in Matches :
    /\ \A i, j \in DOMAIN ranking[m] : ranking[m][i] = ranking[m][j] => i = j
    /\ ranking[m] # <<>> => phase[m] = "running"

\* The rank a player was told stays true while the match lives, whoever finishes,
\* leaves or joins later (finish_player, remove_player).
RankIsFinal ==
  [][\A m \in Matches : Open(m) /\ phase'[m] \in {"lobby", "running"} =>
       \A i \in DOMAIN ranking[m] :
          i \in DOMAIN ranking'[m] /\ ranking'[m][i] = ranking[m][i]]_lifecycleVars
=============================================================================
