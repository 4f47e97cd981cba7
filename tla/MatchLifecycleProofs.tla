------------------------ MODULE MatchLifecycleProofs ------------------------
(***************************************************************************)
(* What the abstract life of a match promises about ranks.                 *)
(***************************************************************************)
EXTENDS MatchLifecycle, TLAPS

\* Rankings are sequences of players.
RankingType == ranking \in [Matches -> Seq(Players)] /\ DOMAIN phase = Matches

\* The shape and the soundness of the rankings hold together: the search of
\* finish_player is what keeps a player from being ranked twice.
LEMMA RankingStep ==
  ASSUME RankingType, RankingSound, [Next \/ Crash]_lifecycleVars
  PROVE  RankingType' /\ RankingSound'
<1> USE DEF RankingType, RankingSound
<1>1. ASSUME NEW m \in Matches, NEW p \in Players, Finish(m, p)
      PROVE  RankingType' /\ RankingSound'
  <2>1. /\ ranking'[m] = Append(ranking[m], p)
        /\ \A n \in Matches \ {m} : ranking'[n] = ranking[n]
        /\ ranking' \in [Matches -> Seq(Players)] /\ phase' = phase
    BY <1>1 DEF Finish
  <2>2. \A i \in DOMAIN ranking[m] : ranking[m][i] # p
    BY <1>1 DEF Finish, Ranked
  <2>3. \A i, j \in DOMAIN ranking'[m] : ranking'[m][i] = ranking'[m][j] => i = j
    BY <2>1, <2>2
  <2> QED
    BY <1>1, <2>1, <2>3 DEF Finish
<1>2. ASSUME NEW S \in SUBSET Matches, CloseAll(S)
      PROVE  RankingType' /\ RankingSound'
  BY <1>2 DEF CloseAll
<1>3. ASSUME NEW m \in Matches, Create(m) \/ Run(m)
      PROVE  RankingType' /\ RankingSound'
  BY <1>3 DEF Create, Run
<1>4. ASSUME NEW m \in Matches, NEW p \in Players, Enter(m, p) \/ Leave(m, p)
      PROVE  RankingType' /\ RankingSound'
  BY <1>4 DEF Enter, Leave
<1>5. ASSUME UNCHANGED lifecycleVars
      PROVE  RankingType' /\ RankingSound'
  BY <1>5 DEF lifecycleVars
<1> HIDE DEF RankingType, RankingSound
<1> QED
  BY <1>1, <1>2, <1>3, <1>4, <1>5 DEF Next, Crash, Close, Expire

\* Nobody is ranked twice, and only a running match has a ranking (finish_player),
\* even if the server goes down in between.
THEOREM RankedOnce == CrashSpec => []RankingSound
<1>1. Init => RankingType /\ RankingSound
  BY DEF Init, RankingType, RankingSound
<1> QED
  BY <1>1, RankingStep, PTL DEF CrashSpec

\* A rank, once told, stays what it is until the match closes (finish_player
\* appends, and nothing else writes finished_player_ids).
THEOREM RanksAreFinal == CrashSpec => RankIsFinal
<1> DEFINE Kept ==
      \A m \in Matches : Open(m) /\ phase'[m] \in {"lobby", "running"} =>
        \A i \in DOMAIN ranking[m] :
          i \in DOMAIN ranking'[m] /\ ranking'[m][i] = ranking[m][i]
<1>1. Init => RankingType /\ RankingSound
  BY DEF Init, RankingType, RankingSound
<1>2. RankingType /\ [Next \/ Crash]_lifecycleVars => Kept \/ UNCHANGED lifecycleVars
  <2> SUFFICES ASSUME RankingType, Next \/ Crash PROVE Kept
    BY DEF lifecycleVars
  <2> USE DEF RankingType, Kept
  <2>1. ASSUME NEW m \in Matches, NEW p \in Players, Finish(m, p) PROVE Kept
    BY <2>1 DEF Finish
  <2>2. ASSUME NEW S \in SUBSET Matches, CloseAll(S) PROVE Kept
    BY <2>2 DEF CloseAll
  <2>3. ASSUME UNCHANGED ranking PROVE Kept
    BY <2>3
  <2> QED
    BY <2>1, <2>2, <2>3 DEF Next, Crash, Create, Run, Enter, Leave, Close, Expire
<1>3. CrashSpec => [][Kept]_lifecycleVars
  BY <1>1, <1>2, RankingStep, PTL DEF CrashSpec
<1> QED
  BY <1>3 DEF RankIsFinal
=============================================================================
