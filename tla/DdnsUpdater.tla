---------------------------- MODULE DdnsUpdater -----------------------------
(***************************************************************************)
(* The script that keeps the server's DNS record at the host's public      *)
(* address (scripts/cloudflare-ddns-update.sh), started by cron.  Three    *)
(* things have to agree, and none is written together with another: the    *)
(* address the provider gave the host, the record, and the state file with *)
(* the address of the last success, which spares a run the API calls.      *)
(*                                                                         *)
(* A run may end after any of its steps (set -e, a kill, a power cut), and *)
(* a request whose answer is lost may have been executed.                  *)
(***************************************************************************)
EXTENDS Integers

CONSTANTS
  Addresses,   \* public addresses
  LookAlikes,  \* answers that pass the script's test and are no addresses
  Garbage,     \* an answer that does not pass it
  MaxChanges,  \* bound: changes of the public address
  MaxFaults,   \* bound: runs that are cut off
  None

ASSUME AddressAssumption ==
  /\ Addresses \cap LookAlikes = {}
  /\ {None, Garbage} \cap (Addresses \cup LookAlikes) = {}

VARIABLES
  ip,         \* the public address the host has now
  record,     \* the content of the DNS record, None when there is none
  stateFile,  \* STATE_FILE, None when missing or empty
  pc,         \* where the run stands
  publicIp,   \* PUBLIC_IP of the run
  dry,        \* DRY_RUN of the run
  cutOff,     \* did a run change the record and not get to the state file since?
  changes, faults

ddnsVars == <<ip, record, stateFile, pc, publicIp, dry, cutOff, changes, faults>>
worldVars == <<ip, changes>>

-----------------------------------------------------------------------------
DdnsInit ==
  /\ ip \in Addresses
  /\ record \in Addresses \cup {None}
  /\ stateFile = None
  /\ pc = "idle"
  /\ publicIp = None
  /\ dry = FALSE
  /\ cutOff = FALSE
  /\ changes = 0
  /\ faults = 0

Begin(dryRun) ==
  /\ pc = "idle"
  /\ pc' = "ask"
  /\ dry' = dryRun
  /\ UNCHANGED <<worldVars, record, stateFile, publicIp, cutOff, faults>>

\* is_ipv4 and is_ipv6: four numbers of any size up to 999, or any text with a colon.
IsAddress(answer) == answer \in Addresses \cup LookAlikes

\* get_public_ip; what does not look like an address ends the run.
Ask ==
  /\ pc = "ask"
  /\ publicIp' \in {ip, Garbage} \cup LookAlikes
  /\ pc' = IF IsAddress(publicIp') THEN "compare" ELSE "idle"
  /\ UNCHANGED <<worldVars, record, stateFile, dry, cutOff, faults>>

\* Mutant: a state file is enough to end the run.
UnchangedEver == stateFile # None

\* "[ok] unchanged", or the end of a dry run, or on to the API.
Unchanged == publicIp = stateFile

Compare ==
  /\ pc = "compare"
  /\ pc' = IF Unchanged \/ dry THEN "idle" ELSE "lookup"
  /\ UNCHANGED <<worldVars, record, stateFile, publicIp, dry, cutOff, faults>>

\* A record that is right already needs no update.
Lookup ==
  /\ pc = "lookup"
  /\ pc' = IF record = publicIp THEN "save" ELSE "update"
  /\ UNCHANGED <<worldVars, record, stateFile, publicIp, dry, cutOff, faults>>

\* External: the content Cloudflare accepts for a record of type A or AAAA.
Accepted(content) == content \in Addresses

\* What a request with this content may leave in the record.
Contents(content) == {record} \cup {x \in {content} : Accepted(x)}

\* Mutant: the answer's success is not looked at.
UpdateUnchecked ==
  /\ pc = "update"
  /\ record' \in Contents(publicIp)
  /\ cutOff' = (cutOff \/ record' # record)
  /\ pc' = "save"
  /\ UNCHANGED <<worldVars, stateFile, publicIp, dry, faults>>

\* PUT or POST; an answer without success ends the run.
Update ==
  /\ pc = "update"
  /\ \/ /\ Accepted(publicIp)
        /\ record' = publicIp
        /\ cutOff' = TRUE
        /\ pc' = "save"
     \/ /\ ~Accepted(publicIp)
        /\ pc' = "idle"
        /\ UNCHANGED <<record, cutOff>>
  /\ UNCHANGED <<worldVars, stateFile, publicIp, dry, faults>>

Save ==
  /\ pc = "save"
  /\ stateFile' = publicIp
  /\ cutOff' = FALSE
  /\ pc' = "idle"
  /\ UNCHANGED <<worldVars, record, publicIp, dry, faults>>

\* The run ends where it stands.  An update under way may have been executed; the
\* state file may have been emptied (echo > truncates it first).
CutOff ==
  /\ pc # "idle"
  /\ faults < MaxFaults
  /\ faults' = faults + 1
  /\ pc' = "idle"
  /\ record' \in IF pc = "update" THEN Contents(publicIp) ELSE {record}
  /\ cutOff' = (cutOff \/ record' # record)
  /\ stateFile' \in IF pc = "save" THEN {stateFile, None} ELSE {stateFile}
  /\ UNCHANGED <<worldVars, publicIp, dry>>

\* The provider gives the host another address, perhaps one it has had before.
ChangeAddress ==
  /\ changes < MaxChanges
  /\ changes' = changes + 1
  /\ ip' \in Addresses \ {ip}
  /\ UNCHANGED <<record, stateFile, pc, publicIp, dry, cutOff, faults>>

-----------------------------------------------------------------------------
Run == Compare \/ Lookup \/ Update \/ Save
AskRight == Ask /\ ~dry /\ publicIp' = ip

DdnsNext ==
  \/ \E dryRun \in BOOLEAN : Begin(dryRun)
  \/ Ask
  \/ Run
  \/ CutOff
  \/ ChangeAddress

\* cron starts a run every five minutes, and not a dry one; a run goes on; the
\* address service answers with the address again and again.
DdnsFairness ==
  /\ SF_ddnsVars(Begin(FALSE))
  /\ SF_ddnsVars(AskRight)
  /\ WF_ddnsVars(Ask)
  /\ WF_ddnsVars(Run)

DdnsSpec == DdnsInit /\ [][DdnsNext]_ddnsVars /\ DdnsFairness

-----------------------------------------------------------------------------
(* Properties *)

\* The types: whatever passes for an address on the way, the record and the state
\* file hold none but addresses, because an update that is refused is not saved.
DdnsTypeOK ==
  /\ ip \in Addresses
  /\ record \in Addresses \cup {None}
  /\ stateFile \in Addresses \cup {None}
  /\ publicIp \in Addresses \cup LookAlikes \cup {None, Garbage}
  /\ pc \in {"idle", "ask", "compare", "lookup", "update", "save"}
  /\ pc \in {"compare", "lookup", "update"} => IsAddress(publicIp)
  /\ pc = "save" => publicIp \in Addresses
  /\ dry \in BOOLEAN /\ cutOff \in BOOLEAN

\* A run that says "[ok] unchanged" and makes no call is right about the record, or
\* an earlier run was cut off after it changed the record and before it wrote the
\* state file: only then, when the address comes back to the one in the file, does
\* the script leave a wrong record alone.
UnchangedMeansRight ==
  pc = "compare" /\ Unchanged => record = publicIp \/ cutOff

\* An address that is not the one in the state file gets into the record, unless the
\* host loses it first, however many runs are cut off on the way.
RecordCatchesUp ==
  \A x \in Addresses : (ip = x /\ stateFile # x) ~> (record = x \/ ip # x)
=============================================================================
