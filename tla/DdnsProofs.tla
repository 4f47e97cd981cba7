----------------------------- MODULE DdnsProofs -----------------------------
(***************************************************************************)
(* What the updater's cached address is worth, for any number of           *)
(* addresses, changes and runs that are cut off.                           *)
(***************************************************************************)
EXTENDS DdnsUpdater, TLAPS

\* The state file is a copy of the record unless a run was cut off between the two,
\* and a run that is about to write it has seen or made the record right.
Cached ==
  /\ cutOff \/ stateFile = None \/ stateFile = record
  /\ pc = "save" => record = publicIp

LEMMA InitTyped == DdnsInit => DdnsTypeOK /\ Cached
BY DEF DdnsInit, DdnsTypeOK, Cached

LEMMA StepTyped == DdnsTypeOK /\ [DdnsNext]_ddnsVars => DdnsTypeOK'
<1> SUFFICES ASSUME DdnsTypeOK, [DdnsNext]_ddnsVars PROVE DdnsTypeOK'
  OBVIOUS
<1> USE DEF DdnsTypeOK
<1>1. CASE UNCHANGED ddnsVars
  BY <1>1 DEF ddnsVars, worldVars
<1>2. ASSUME NEW dryRun \in BOOLEAN, Begin(dryRun) PROVE DdnsTypeOK'
  BY <1>2 DEF Begin, worldVars
<1>3. CASE Ask
  BY <1>3 DEF Ask, IsAddress, worldVars
<1>4. CASE Compare
  BY <1>4 DEF Compare, IsAddress, worldVars
<1>5. CASE Lookup
  BY <1>5, AddressAssumption DEF Lookup, IsAddress, worldVars
<1>6. CASE Update
  BY <1>6 DEF Update, Accepted, worldVars
<1>7. CASE Save
  BY <1>7 DEF Save, worldVars
<1>8. CASE CutOff
  BY <1>8 DEF CutOff, Contents, Accepted, worldVars
<1>9. CASE ChangeAddress
  BY <1>9 DEF ChangeAddress
<1> QED
  BY <1>1, <1>2, <1>3, <1>4, <1>5, <1>6, <1>7, <1>8, <1>9 DEF DdnsNext, Run

LEMMA StepCached == Cached /\ [DdnsNext]_ddnsVars => Cached'
<1> SUFFICES ASSUME Cached, [DdnsNext]_ddnsVars PROVE Cached'
  OBVIOUS
<1> USE DEF Cached
<1>1. CASE UNCHANGED ddnsVars
  BY <1>1 DEF ddnsVars, worldVars
<1>2. ASSUME NEW dryRun \in BOOLEAN, Begin(dryRun) PROVE Cached'
  BY <1>2 DEF Begin, worldVars
<1>3. CASE Ask
  BY <1>3 DEF Ask, IsAddress, worldVars
<1>4. CASE Compare
  BY <1>4 DEF Compare, IsAddress, worldVars
<1>5. CASE Lookup
  BY <1>5 DEF Lookup, IsAddress, worldVars
<1>6. CASE Update
  BY <1>6 DEF Update, Accepted, worldVars
<1>7. CASE Save
  BY <1>7 DEF Save, worldVars
<1>8. CASE CutOff
  <2>1. pc' = "idle" /\ (record' = record \/ cutOff')
    BY <1>8 DEF CutOff
  <2>2. cutOff => cutOff'
    BY <1>8 DEF CutOff
  <2>3. stateFile' \in {stateFile, None}
    BY <1>8 DEF CutOff
  <2> QED
    BY <2>1, <2>2, <2>3
<1>9. CASE ChangeAddress
  BY <1>9 DEF ChangeAddress
<1> QED
  BY <1>1, <1>2, <1>3, <1>4, <1>5, <1>6, <1>7, <1>8, <1>9 DEF DdnsNext, Run

\* Whatever IP_CHECK_URL answers, and although the script takes for an address what
\* only looks like one, the record and the state file hold nothing but addresses: an
\* update that is refused ends the run (lines 108-133).
THEOREM DdnsTyped == DdnsSpec => []DdnsTypeOK
BY InitTyped, StepTyped, PTL DEF DdnsSpec

\* "[ok] unchanged" is right about the record unless a run was cut off between the
\* update of the record and the write of the state file.
THEOREM UnchangedIsRight == DdnsSpec => []UnchangedMeansRight
<1>1. DdnsTypeOK /\ Cached => UnchangedMeansRight
  BY AddressAssumption DEF DdnsTypeOK, IsAddress, Cached, UnchangedMeansRight, Unchanged
<1> QED
  BY <1>1, InitTyped, StepTyped, StepCached, PTL DEF DdnsSpec

-----------------------------------------------------------------------------
(* The record catches up *)

\* What the liveness of the updater rests on besides fairness: a run is never blocked
\* at a step, nor cron between two runs.
RunsGoOn ==
  /\ pc = "idle" => ENABLED <<Begin(FALSE)>>_ddnsVars
  /\ pc = "ask" => ENABLED <<Ask>>_ddnsVars
  /\ pc = "ask" /\ ~dry => ENABLED <<AskRight>>_ddnsVars
  /\ pc \in {"compare", "lookup", "update", "save"} => ENABLED <<Run>>_ddnsVars

\* x is the address, and no run has yet told the record or the state file.
Due(x) == ip = x /\ stateFile # x /\ record # x
Caught(x) == record = x \/ ip # x

\* A run that knows the address and is not a dry one, at one of its steps.
Aims(x, step) == pc = step /\ publicIp = x /\ ~dry

\* Nothing but a run that reaches the record ends the state of being due.
LEMMA StaysDue ==
  ASSUME NEW x \in Addresses, DdnsTypeOK, Cached, [DdnsNext]_ddnsVars, Due(x)
  PROVE  Due(x)' \/ Caught(x)'
<1> USE DEF Due, Caught
<1>1. CASE UNCHANGED ddnsVars
  BY <1>1 DEF ddnsVars, worldVars
<1>2. ASSUME NEW dryRun \in BOOLEAN, Begin(dryRun) PROVE Due(x)' \/ Caught(x)'
  BY <1>2 DEF Begin, worldVars
<1>3. CASE Ask \/ Compare \/ Lookup \/ Update \/ Save
  BY <1>3 DEF Ask, IsAddress, Compare, Lookup, Update, Accepted, Save, Cached, worldVars
<1>4. CASE CutOff \/ ChangeAddress
  BY <1>4, AddressAssumption DEF CutOff, Contents, ChangeAddress
<1> QED
  BY <1>1, <1>2, <1>3, <1>4 DEF DdnsNext, Run

At(step) == pc = step

\* A step that leaves the state alone cuts nothing off.
LEMMA NotCutOff == ASSUME DdnsTypeOK, [~CutOff]_ddnsVars PROVE ~CutOff
<1> SUFFICES ASSUME UNCHANGED ddnsVars, CutOff PROVE FALSE
  OBVIOUS
<1>1. pc' = pc
  BY DEF ddnsVars
<1> QED
  BY <1>1 DEF CutOff

\* The steps of a run that is not cut off: each leads on, or to the run's end.
LEMMA RunMoves ==
  ASSUME DdnsTypeOK, [DdnsNext]_ddnsVars, ~CutOff
  PROVE  /\ At("idle") => At("idle")' \/ At("ask")'
         /\ At("ask") => At("ask")' \/ At("compare")' \/ At("idle")'
         /\ At("compare") => At("compare")' \/ At("lookup")' \/ At("idle")'
         /\ At("lookup") => At("lookup")' \/ At("update")' \/ At("save")'
         /\ At("update") => At("update")' \/ At("save")' \/ At("idle")'
         /\ At("save") => At("save")' \/ At("idle")'
         /\ Ask => ~At("ask")'
         /\ Run => \A step \in {"compare", "lookup", "update", "save"} : At(step) => ~At(step)'
<1> USE DEF At
<1>1. CASE UNCHANGED ddnsVars
  <2>1. pc' = pc
    BY <1>1 DEF ddnsVars
  <2>2. ~Ask /\ ~Run
    BY <2>1 DEF Ask, IsAddress, Run, Compare, Lookup, Update, Save
  <2> QED
    BY <2>1, <2>2
<1>2. ASSUME NEW dryRun \in BOOLEAN, Begin(dryRun) PROVE pc = "idle" /\ pc' = "ask"
  BY <1>2 DEF Begin
<1>3. Ask => pc = "ask" /\ pc' \in {"compare", "idle"}
  BY DEF Ask, IsAddress
<1>4. Run => \/ pc = "compare" /\ pc' \in {"lookup", "idle"}
             \/ pc = "lookup" /\ pc' \in {"update", "save"}
             \/ pc = "update" /\ pc' \in {"save", "idle"}
             \/ pc = "save" /\ pc' = "idle"
  BY DEF Run, Compare, Lookup, Update, Save
<1>5. ChangeAddress => pc' = pc
  BY DEF ChangeAddress
<1> QED
  BY <1>1, <1>2, <1>3, <1>4, <1>5 DEF DdnsNext

\* What a run has learnt it keeps, and a run that aims at x gets x into the record.
LEMMA AimHolds ==
  ASSUME NEW x \in Addresses, DdnsTypeOK, [DdnsNext]_ddnsVars, ~CutOff, Due(x)
  PROVE  /\ AskRight => Aims(x, "compare")'
         /\ Begin(FALSE) => (At("ask") /\ ~dry)'
         /\ At("ask") /\ ~dry => (At("ask") /\ ~dry)' \/ ~At("ask")'
         /\ Aims(x, "compare") => Aims(x, "compare")' \/ Aims(x, "lookup")'
         /\ Aims(x, "lookup") => Aims(x, "lookup")' \/ Aims(x, "update")'
         /\ Aims(x, "update") => Aims(x, "update")' \/ Caught(x)'
<1> DEFINE Knows == publicIp = x /\ ~dry
<1>1. AskRight => /\ pc' = "compare" /\ publicIp' = x /\ (~dry /\ ~dry')
  <2>1. AskRight => pc' = "compare" /\ publicIp' = x
    BY DEF AskRight, Ask, IsAddress, Due
  <2>2. AskRight => ~dry /\ dry' = dry
    BY DEF AskRight, Ask, IsAddress
  <2> QED
    BY <2>1, <2>2, Zenon
<1>2. Begin(FALSE) => pc' = "ask" /\ ~dry'
  BY DEF Begin
<1>3. \/ pc = "idle"
      \/ pc' = pc /\ publicIp' = publicIp /\ dry' = dry
      \/ Ask
      \/ Compare \/ Lookup \/ Update \/ Save
  <2>1. UNCHANGED ddnsVars => pc' = pc /\ publicIp' = publicIp /\ dry' = dry
    BY DEF ddnsVars
  <2>2. \A dryRun : Begin(dryRun) => pc = "idle"
    BY DEF Begin
  <2>3. ChangeAddress => pc' = pc /\ publicIp' = publicIp /\ dry' = dry
    BY DEF ChangeAddress
  <2> QED
    BY <2>1, <2>2, <2>3 DEF DdnsNext, Run
<1>4. Ask => pc = "ask" /\ pc' # "ask"
  BY DEF Ask, IsAddress
<1>5. Compare => pc = "compare" /\ (Knows => pc' = "lookup" /\ Knows')
  <2>1. Compare => pc = "compare" /\ publicIp' = publicIp /\ dry' = dry
    BY DEF Compare
  <2>2. Compare /\ Knows => pc' = "lookup"
    <3>1. Due(x) /\ publicIp = x => ~Unchanged
      BY DEF Due, Unchanged
    <3> QED
      BY <3>1, Zenon DEF Compare
  <2> QED
    BY <2>1, <2>2, Zenon
<1>6. Lookup => pc = "lookup" /\ (Knows => pc' = "update" /\ Knows')
  <2>1. Lookup => pc = "lookup" /\ publicIp' = publicIp /\ dry' = dry
    BY DEF Lookup
  <2>2. Lookup /\ publicIp = x => pc' = "update"
    BY DEF Lookup, Due
  <2> QED
    BY <2>1, <2>2, Zenon
<1>7. Update => pc = "update" /\ (Knows => Caught(x)')
  BY DEF Update, Accepted, Caught
<1>8. Save => pc = "save"
  BY DEF Save
<1>9. dry' = dry /\ ~dry => ~dry'
  BY Zenon
<1>10. publicIp' = publicIp /\ dry' = dry /\ Knows => Knows'
  BY <1>9
<1> HIDE DEF Knows
<1>11. \A step : Aims(x, step) <=> pc = step /\ Knows
  BY DEF Aims, Knows
<1>12. \A step : Aims(x, step)' <=> pc' = step /\ Knows'
  BY DEF Aims, Knows
<1>13. Knows' <=> publicIp' = x /\ ~dry'
  BY DEF Knows
<1>14. AskRight => Aims(x, "compare")'
  BY <1>1, <1>12, <1>13
<1>15. Begin(FALSE) => (At("ask") /\ ~dry)'
  BY <1>2 DEF At
<1>16. At("ask") /\ ~dry => (At("ask") /\ ~dry)' \/ ~At("ask")'
  BY <1>3, <1>4, <1>5, <1>6, <1>7, <1>8, <1>9 DEF At
<1>17. /\ Aims(x, "compare") => Aims(x, "compare")' \/ Aims(x, "lookup")'
       /\ Aims(x, "lookup") => Aims(x, "lookup")' \/ Aims(x, "update")'
       /\ Aims(x, "update") => Aims(x, "update")' \/ Caught(x)'
  BY <1>3, <1>4, <1>5, <1>6, <1>7, <1>8, <1>10, <1>11, <1>12
<1> QED
  BY <1>14, <1>15, <1>16, <1>17

\* The record gets the address the host keeps, if runs are not cut off for ever
\* (cloudflare-ddns-update.sh; the README's cron entry).
THEOREM RecordDoesCatchUp ==
  DdnsSpec /\ []RunsGoOn /\ <>[][~CutOff]_ddnsVars => RecordCatchesUp
<1> SUFFICES ASSUME NEW x \in Addresses
             PROVE  DdnsSpec /\ []RunsGoOn /\ <>[][~CutOff]_ddnsVars
                      => ((ip = x /\ stateFile # x) ~> (record = x \/ ip # x))
  BY DEF RecordCatchesUp
<1> DEFINE T == DdnsTypeOK /\ Cached
           Fresh == At("ask") /\ ~dry
           C == Aims(x, "compare")
           L == Aims(x, "lookup")
           U == Aims(x, "update")
<1>1. DdnsSpec => []T
  BY InitTyped, StepTyped, StepCached, PTL DEF DdnsSpec
<1>2. T /\ [DdnsNext]_ddnsVars /\ Due(x) => Due(x)' \/ Caught(x)'
  BY StaysDue
<1>3. /\ T => At("idle") \/ At("ask") \/ At("compare") \/ At("lookup") \/ At("update") \/ At("save")
      /\ C => At("compare")
      /\ L => At("lookup")
      /\ U => At("update")
      /\ (ip = x /\ stateFile # x) => Due(x) \/ Caught(x)
      /\ Due(x) => ~Caught(x)
      /\ Caught(x) => (record = x \/ ip # x)
  BY DEF DdnsTypeOK, At, Aims, Due, Caught
<1>4. /\ RunsGoOn /\ At("idle") => ENABLED <<Begin(FALSE)>>_ddnsVars
      /\ RunsGoOn /\ At("ask") => ENABLED <<Ask>>_ddnsVars
      /\ RunsGoOn /\ Fresh => ENABLED <<AskRight>>_ddnsVars
      /\ RunsGoOn /\ (At("compare") \/ At("lookup") \/ At("update") \/ At("save"))
           => ENABLED <<Run>>_ddnsVars
  BY DEF RunsGoOn, At
<1>5. T /\ [DdnsNext]_ddnsVars /\ [~CutOff]_ddnsVars =>
        /\ At("idle") => At("idle")' \/ At("ask")'
        /\ At("ask") => At("ask")' \/ At("compare")' \/ At("idle")'
        /\ At("compare") => At("compare")' \/ At("lookup")' \/ At("idle")'
        /\ At("lookup") => At("lookup")' \/ At("update")' \/ At("save")'
        /\ At("update") => At("update")' \/ At("save")' \/ At("idle")'
        /\ At("save") => At("save")' \/ At("idle")'
        /\ <<Ask>>_ddnsVars => ~At("ask")'
        /\ <<Run>>_ddnsVars /\ At("compare") => ~At("compare")'
        /\ <<Run>>_ddnsVars /\ At("lookup") => ~At("lookup")'
        /\ <<Run>>_ddnsVars /\ At("update") => ~At("update")'
        /\ <<Run>>_ddnsVars /\ At("save") => ~At("save")'
  BY RunMoves, NotCutOff
<1>6. T /\ [DdnsNext]_ddnsVars /\ [~CutOff]_ddnsVars /\ Due(x) =>
        /\ <<AskRight>>_ddnsVars => C'
        /\ <<Begin(FALSE)>>_ddnsVars => Fresh'
        /\ Fresh => Fresh' \/ ~At("ask")'
        /\ C => C' \/ L'
        /\ L => L' \/ U'
        /\ U => U' \/ Caught(x)'
  BY AimHolds, NotCutOff
<1> HIDE DEF T, Fresh, C, L, U
<1> QED
  BY <1>1, <1>2, <1>3, <1>4, <1>5, <1>6, PTL DEF DdnsSpec, DdnsFairness
=============================================================================
