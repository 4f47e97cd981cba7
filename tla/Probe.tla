------------------------------- MODULE Probe --------------------------------
(***************************************************************************)
(* The latency probe (test-client/src/bin/remote-rtt.rs): it makes a room, *)
(* joins it with two clients, a and b, sends numbered positions from a and *)
(* waits for each at b, relayed by the server.  The network between may    *)
(* lose, repeat, delay and reorder everything, and others in the room may  *)
(* send, too.                                                              *)
(***************************************************************************)
EXTENDS Integers, Sequences

CONSTANTS
  DefaultSamples,  \* DEFAULT_SAMPLES
  Settings,        \* the values RTT_SAMPLES and --samples are given
  MaxArrivals,     \* bound: packets that reach the two sockets
  None

ASSUME SamplesAssumption == DefaultSamples \in Nat \ {0} /\ Settings \subseteq Nat
ASSUME ArrivalsAssumption == MaxArrivals \in Nat
ASSUME UnsetAssumption == None \notin Nat

VARIABLES
  pc,         \* how far main is
  samples,    \* config.samples
  seq,        \* the sample being measured
  delivered,  \* per delivered sample, its number and that of the packet heard
  lost,       \* samples that timed out
  inbox,      \* per client, packets in its socket's buffer
  arrivals    \* packets that have reached a socket

probeVars == <<pc, samples, seq, delivered, lost, inbox, arrivals>>

-----------------------------------------------------------------------------
(* Data *)

Clients == {"a", "b"}

JoinOk == [type |-> "join_ok", seq |-> 0]
Refusal == [type |-> "error", seq |-> 0]
\* Whatever is no answer to a join and no position of a's.
Noise == [type |-> "noise", seq |-> 0]
Pos(k) == [type |-> "pos", seq |-> k]

Http == {"create", "join_a", "join_b"}
Connecting == {"connect_a", "connect_b"}
Measuring == {"send", "wait", "pause"}
Ended == {"done", "failed"}
After == [create |-> "join_a", join_a |-> "join_b", join_b |-> "connect_a",
          connect_a |-> "connect_b", connect_b |-> "send"]
ConnectPc == [a |-> "connect_a", b |-> "connect_b"]

\* Mutant: --samples 0 is taken as it stands.
ConfiguredZero(env, arg) ==
  CASE arg # None -> arg
    [] arg = None /\ env \notin {None, 0} -> env
    [] OTHER -> DefaultSamples

\* parse_config: zero in the environment means the default; as an argument it is
\* an error (None).
Configured(env, arg) ==
  CASE arg # None -> IF arg = 0 THEN None ELSE arg
    [] arg = None /\ env \notin {None, 0} -> env
    [] OTHER -> DefaultSamples

\* summarize: where it finds the median and the 95th percentile of n sorted values.
MedianIndex(n) == n \div 2
P95Index(n) == ((n - 1) * 95 + 50) \div 100

\* Mutant: a probe without a single answer is summarized, too.
SummarizesAny == pc = "done"

\* The end of main: no answers, no summary.
Summarizes == pc = "done" /\ delivered # <<>>

-----------------------------------------------------------------------------
ProbeInit ==
  /\ \E env, arg \in Settings \cup {None} :
       /\ samples = Configured(env, arg)
       /\ pc = IF samples = None THEN "failed" ELSE "create"
  /\ seq = 1
  /\ delivered = <<>>
  /\ lost = 0
  /\ inbox = [x \in Clients |-> <<>>]
  /\ arrivals = 0

\* The API calls of main: an error or ten seconds without an answer end the probe.
Call ==
  /\ pc \in Http
  /\ pc' \in {After[pc], "failed"}
  /\ UNCHANGED <<samples, seq, delivered, lost, inbox, arrivals>>

\* connect_and_join: whoever sends, each packet starts a new wait of ten seconds.
HearAnswer(x) ==
  /\ pc = ConnectPc[x]
  /\ inbox[x] # <<>>
  /\ inbox' = [inbox EXCEPT ![x] = Tail(@)]
  /\ CASE Head(inbox[x]) = JoinOk -> pc' = After[pc]
       [] Head(inbox[x]) = Refusal -> pc' = "failed"
       [] OTHER -> UNCHANGED pc
  /\ UNCHANGED <<samples, seq, delivered, lost, arrivals>>

ConnectTimeout ==
  /\ pc \in Connecting
  /\ pc' = "failed"
  /\ UNCHANGED <<samples, seq, delivered, lost, inbox, arrivals>>

-----------------------------------------------------------------------------
(* measure_datagram_one_way *)

SendProbe ==
  /\ pc = "send"
  /\ pc' \in {"wait", "failed"}
  /\ UNCHANGED <<samples, seq, delivered, lost, inbox, arrivals>>

\* Mutant: any position of a's is taken for the one just sent.
ExpectedAny(packet) == packet.type = "pos"

Expected(packet) == packet = Pos(seq)

\* b takes one packet out of its buffer; only a's position of this sample counts.
HearProbe ==
  /\ pc = "wait"
  /\ inbox["b"] # <<>>
  /\ inbox' = [inbox EXCEPT !["b"] = Tail(@)]
  /\ LET packet == Head(inbox["b"]) IN
     \/ /\ Expected(packet)
        /\ delivered' = Append(delivered, [sample |-> seq, packet |-> packet.seq])
        /\ pc' = "pause"
     \/ ~Expected(packet) /\ UNCHANGED <<pc, delivered>>
  /\ UNCHANGED <<samples, seq, lost, arrivals>>

\* Mutants: the wait goes on after it was given up; or is never given up.
SampleTimeoutStays ==
  /\ pc = "wait"
  /\ lost < samples
  /\ lost' = lost + 1
  /\ UNCHANGED <<pc, samples, seq, delivered, inbox, arrivals>>

SampleTimeoutNever == FALSE /\ UNCHANGED probeVars

\* Three seconds for the whole wait, however many packets came.
SampleTimeout ==
  /\ pc = "wait"
  /\ lost' = lost + 1
  /\ pc' = "pause"
  /\ UNCHANGED <<samples, seq, delivered, inbox, arrivals>>

RecvFails ==
  /\ pc = "wait"
  /\ pc' = "failed"
  /\ UNCHANGED <<samples, seq, delivered, lost, inbox, arrivals>>

NextSample ==
  /\ pc = "pause"
  /\ IF seq < samples THEN seq' = seq + 1 /\ pc' = "send"
                      ELSE pc' = "done" /\ UNCHANGED seq
  /\ UNCHANGED <<samples, delivered, lost, inbox, arrivals>>

-----------------------------------------------------------------------------
(* The network and the server *)

\* Positions the probe has sent so far.
SentProbes == 1 .. (IF pc \in {"wait", "pause", "done"} THEN seq ELSE seq - 1)

\* What may reach the socket of x: answers once the join is out, a's positions at
\* b, and what others send.
Underway(x) ==
  {Noise} \cup (IF pc \in Measuring \cup Ended \/ pc = "connect_b" \/ x = "a"
                THEN {JoinOk, Refusal} ELSE {})
          \cup (IF x = "b" THEN {Pos(k) : k \in SentProbes} ELSE {})

Arrive(x) ==
  /\ pc \notin Http \cup Ended
  /\ arrivals < MaxArrivals
  /\ arrivals' = arrivals + 1
  /\ \E packet \in Underway(x) : inbox' = [inbox EXCEPT ![x] = Append(@, packet)]
  /\ UNCHANGED <<pc, samples, seq, delivered, lost>>

-----------------------------------------------------------------------------
ProbeStep ==
  \/ Call
  \/ \E x \in Clients : HearAnswer(x)
  \/ ConnectTimeout
  \/ SendProbe
  \/ HearProbe
  \/ SampleTimeout
  \/ RecvFails
  \/ NextSample

ProbeNext == ProbeStep \/ \E x \in Clients : Arrive(x)

\* The program runs and its timers fire; nothing need fail.
ProbeFairness ==
  /\ WF_probeVars(Call)
  /\ \A x \in Clients : WF_probeVars(HearAnswer(x))
  /\ WF_probeVars(ConnectTimeout)
  /\ WF_probeVars(SendProbe)
  /\ WF_probeVars(HearProbe)
  /\ WF_probeVars(SampleTimeout)
  /\ WF_probeVars(NextSample)

ProbeSpec == ProbeInit /\ [][ProbeNext]_probeVars /\ ProbeFairness

-----------------------------------------------------------------------------
(* Properties *)

Decided == IF pc \in {"pause", "done"} THEN seq ELSE seq - 1

\* The types; a run that has begun has at least one sample to take.
ProbeTypeOK ==
  /\ pc \in Http \cup Connecting \cup Measuring \cup Ended
  /\ pc # "failed" => samples \in Nat \ {0} /\ seq \in 1 .. samples
  /\ delivered \in Seq([sample : Nat, packet : Nat])
  /\ lost \in Nat
  /\ inbox \in [Clients -> Seq([type : {"join_ok", "error", "noise", "pos"}, seq : Nat])]
  /\ arrivals \in 0 .. MaxArrivals

\* A latency is that of the packet sent for its sample: a late or repeated copy of
\* an earlier position, which may still be in b's buffer after its sample was given
\* up, is never measured, and no sample is measured twice.
OwnAnswers ==
  /\ \A i \in DOMAIN delivered : delivered[i].packet = delivered[i].sample
  /\ \A i, j \in DOMAIN delivered : i < j => delivered[i].sample < delivered[j].sample

\* Every sample is either delivered or lost, so the summary's received and lost add
\* up to the samples, even if answers race their timeouts.
Accounted == Len(delivered) + lost = Decided

\* The summary takes its median and its 95th percentile from among the latencies,
\* however few samples were answered: timeouts may leave one, or none (summarize).
SummaryInside ==
  LET n == Len(delivered) IN
  Summarizes => {MedianIndex(n), P95Index(n)} \subseteq 0 .. n - 1

\* The probe ends, whatever is lost, if others do not send to it for ever.
ProbeEnds == <>(pc \in Ended)
=============================================================================
