---------------------------- MODULE ProbeProofs -----------------------------
(***************************************************************************)
(* The latency probe measures what it says, for any number of samples and  *)
(* of packets that reach its sockets.                                      *)
(***************************************************************************)
EXTENDS Probe, TLAPS

ProgramCounters == Http \cup Connecting \cup Measuring \cup Ended
Packet == [type : {"join_ok", "error", "noise", "pos"}, seq : Nat]
Measurement == [sample : Nat, packet : Nat]

LEMMA HeadTail ==
  ASSUME NEW S, NEW q \in Seq(S), q # <<>>
  PROVE  Head(q) \in S /\ Tail(q) \in Seq(S)
OBVIOUS

LEMMA Append1 ==
  ASSUME NEW S, NEW q \in Seq(S), NEW e \in S
  PROVE  /\ Append(q, e) \in Seq(S)
         /\ Len(Append(q, e)) = Len(q) + 1
         /\ DOMAIN Append(q, e) = 1 .. Len(q) + 1
         /\ Append(q, e)[Len(q) + 1] = e
         /\ \A i \in 1 .. Len(q) : Append(q, e)[i] = q[i]
OBVIOUS

\* parse_config yields a number of samples to take, or an error.
LEMMA ConfiguredPositive ==
  ASSUME NEW env \in Settings \cup {None}, NEW arg \in Settings \cup {None},
         Configured(env, arg) # None
  PROVE  Configured(env, arg) \in Nat \ {0}
BY SamplesAssumption, UnsetAssumption DEF Configured

\* What may be under way is a packet.
LEMMA UnderwayTyped ==
  ASSUME ProbeTypeOK, pc \notin Ended, NEW x \in Clients, NEW packet \in Underway(x)
  PROVE  packet \in Packet
<1>1. SentProbes \subseteq Nat
  BY DEF ProbeTypeOK, SentProbes, Ended
<1> QED
  BY <1>1 DEF Underway, Packet, Noise, JoinOk, Refusal, Pos

LEMMA InitTyped == ProbeInit => ProbeTypeOK
<1> SUFFICES ASSUME ProbeInit PROVE ProbeTypeOK
  OBVIOUS
<1>1. PICK env \in Settings \cup {None}, arg \in Settings \cup {None} :
        /\ samples = Configured(env, arg)
        /\ pc = IF samples = None THEN "failed" ELSE "create"
  BY DEF ProbeInit
<1>2. pc # "failed" => samples \in Nat \ {0}
  BY <1>1, ConfiguredPositive
<1> QED
  BY <1>1, <1>2, ArrivalsAssumption
     DEF ProbeInit, ProbeTypeOK, Http, Connecting, Measuring, Ended

\* Every step keeps the types; with the sample's number in range, the loop of
\* measure_datagram_one_way ends at the last one.
LEMMA StepTyped == ProbeTypeOK /\ [ProbeNext]_probeVars => ProbeTypeOK'
<1> SUFFICES ASSUME ProbeTypeOK, [ProbeNext]_probeVars PROVE ProbeTypeOK'
  OBVIOUS
<1> USE DEF ProbeTypeOK, Http, Connecting, Measuring, Ended, Packet, Measurement
<1>1. CASE UNCHANGED probeVars
  BY <1>1 DEF probeVars
<1>2. CASE Call
  BY <1>2 DEF Call, After
<1>3. ASSUME NEW x \in Clients, HearAnswer(x) PROVE ProbeTypeOK'
  <2>1. inbox' \in [Clients -> Seq(Packet)]
    BY <1>3 DEF HearAnswer
  <2>2. pc \in Connecting /\ pc' \in {pc, After[pc], "failed"}
    BY <1>3 DEF HearAnswer, ConnectPc, Clients
  <2> QED
    BY <1>3, <2>1, <2>2 DEF HearAnswer, After
<1>4. CASE ConnectTimeout
  BY <1>4 DEF ConnectTimeout
<1>5. CASE SendProbe
  BY <1>5 DEF SendProbe
<1>6. CASE HearProbe
  <2>1. inbox["b"] \in Seq(Packet) /\ inbox["b"] # <<>>
    BY <1>6 DEF HearProbe, Expected, Clients
  <2>2. Tail(inbox["b"]) \in Seq(Packet) /\ Head(inbox["b"]) \in Packet
    <3> HIDE DEF Packet
    <3> QED
      BY <2>1, HeadTail
  <2>3. inbox' \in [Clients -> Seq(Packet)]
    BY <1>6, <2>2 DEF HearProbe, Expected
  <2>4. seq \in Nat /\ Head(inbox["b"]).seq \in Nat
    BY <1>6, <2>2 DEF HearProbe, Expected
  <2>5. delivered' \in Seq(Measurement)
    <3> DEFINE new == [sample |-> seq, packet |-> Head(inbox["b"]).seq]
    <3>1. new \in Measurement /\ delivered \in Seq(Measurement)
      BY <2>4
    <3>2. delivered' \in {delivered, Append(delivered, new)}
      BY <1>6 DEF HearProbe, Expected
    <3> HIDE DEF Measurement, new
    <3>3. Append(delivered, new) \in Seq(Measurement)
      BY <3>1, Append1
    <3> QED
      BY <3>1, <3>2, <3>3
  <2> QED
    BY <1>6, <2>3, <2>5 DEF HearProbe, Expected
<1>7. CASE SampleTimeout
  BY <1>7 DEF SampleTimeout
<1>8. CASE RecvFails
  BY <1>8 DEF RecvFails
<1>9. CASE NextSample
  BY <1>9 DEF NextSample
<1>10. ASSUME NEW x \in Clients, Arrive(x) PROVE ProbeTypeOK'
  <2>1. PICK packet \in Underway(x) : inbox' = [inbox EXCEPT ![x] = Append(@, packet)]
    BY <1>10 DEF Arrive
  <2>2. packet \in Packet
    BY <1>10, <2>1, UnderwayTyped DEF Arrive
  <2>3. inbox' \in [Clients -> Seq(Packet)]
    BY <2>1, <2>2
  <2> QED
    BY <1>10, <2>3, ArrivalsAssumption DEF Arrive
<1> QED
  BY <1>1, <1>2, <1>3, <1>4, <1>5, <1>6, <1>7, <1>8, <1>9, <1>10 DEF ProbeNext, ProbeStep

\* The probe's state is well typed: with --samples 0 or RTT_SAMPLES=0 it either
\* fails to begin or takes the default number of samples (parse_config).
THEOREM ProbeTyped == ProbeSpec => []ProbeTypeOK
BY InitTyped, StepTyped, PTL DEF ProbeSpec

-----------------------------------------------------------------------------
(* Measurements *)

\* What is delivered belongs to a sample that is decided, each to one.
Booked ==
  /\ OwnAnswers
  /\ \A i \in DOMAIN delivered : delivered[i].sample <= Decided
  /\ Accounted

LEMMA InitBooked == ProbeInit => Booked
<1> SUFFICES ASSUME ProbeInit PROVE Booked
  OBVIOUS
<1>1. delivered = <<>> /\ lost = 0 /\ seq = 1 /\ pc \in {"failed", "create"}
  BY DEF ProbeInit
<1>2. Decided = 0 /\ Len(delivered) = 0 /\ DOMAIN delivered = {}
  BY <1>1 DEF Decided
<1> QED
  BY <1>1, <1>2 DEF Booked, OwnAnswers, Accounted

\* A sample is decided once: by the first packet of its own, or by its timeout.
LEMMA StepBooked == ProbeTypeOK /\ Booked /\ [ProbeNext]_probeVars => Booked'
<1> SUFFICES ASSUME ProbeTypeOK, Booked, [ProbeNext]_probeVars PROVE Booked'
  OBVIOUS
<1> USE DEF Http, Connecting, Measuring, Ended
<1>1. delivered \in Seq(Measurement) /\ lost \in Nat
  BY DEF ProbeTypeOK, Measurement
<1>0. \A i \in DOMAIN delivered : delivered[i] \in Measurement
  <2> HIDE DEF Measurement
  <2> QED
    BY <1>1
<1>2. ASSUME UNCHANGED <<delivered, lost>>, Decided' = Decided PROVE Booked'
  BY <1>2 DEF Booked, OwnAnswers, Accounted
<1>3. CASE UNCHANGED probeVars
  BY <1>2, <1>3 DEF probeVars, Decided
<1>4. CASE Call
  BY <1>2, <1>4 DEF Call, Decided, After
<1>5. ASSUME NEW x \in Clients, HearAnswer(x) PROVE Booked'
  <2>1. pc \in Connecting /\ pc' \in {pc, After[pc], "failed"}
    BY <1>5 DEF HearAnswer, ConnectPc, Clients
  <2> QED
    BY <1>2, <1>5, <2>1 DEF HearAnswer, Decided, After
<1>6. CASE ConnectTimeout
  BY <1>2, <1>6 DEF ConnectTimeout, Decided
<1>7. CASE SendProbe
  BY <1>2, <1>7 DEF SendProbe, Decided
<1>8. CASE HearProbe
  <2> DEFINE packet == Head(inbox["b"])
             new == [sample |-> seq, packet |-> packet.seq]
  <2>1. CASE UNCHANGED <<pc, delivered>>
    BY <1>2, <1>8, <2>1 DEF HearProbe, Expected, Decided
  <2>2. CASE /\ packet = Pos(seq)
             /\ delivered' = Append(delivered, new)
             /\ pc' = "pause"
    <3>1. seq \in Nat \ {0} /\ pc = "wait" /\ seq' = seq /\ lost' = lost
      BY <1>8 DEF HearProbe, Expected, ProbeTypeOK
    <3>2. Decided = seq - 1 /\ Decided' = seq
      BY <2>2, <3>1 DEF Decided
    <3>3. new \in Measurement /\ new.packet = new.sample /\ new.sample = seq
      BY <2>2, <3>1 DEF Pos, Measurement
    <3> HIDE DEF new
    <3>4. /\ Len(delivered') = Len(delivered) + 1
          /\ DOMAIN delivered' = 1 .. Len(delivered) + 1
          /\ delivered'[Len(delivered) + 1] = new
          /\ \A i \in 1 .. Len(delivered) : delivered'[i] = delivered[i]
      BY <1>1, <2>2, <3>3, Append1
    <3>5. \A i \in DOMAIN delivered :
            /\ delivered[i].packet = delivered[i].sample
            /\ delivered[i].sample <= seq - 1
            /\ delivered[i].sample \in Nat
      BY <1>0, <3>2 DEF Booked, OwnAnswers, Measurement
    <3>6. \A i \in DOMAIN delivered' :
            /\ delivered'[i].packet = delivered'[i].sample
            /\ delivered'[i].sample <= seq
      <4> TAKE i \in DOMAIN delivered'
      <4>1. CASE i = Len(delivered) + 1
        BY <3>1, <3>3, <3>4, <4>1
      <4>2. CASE i \in DOMAIN delivered
        BY <1>1, <3>1, <3>4, <3>5, <4>2
      <4> QED
        BY <1>1, <3>4, <4>1, <4>2
    <3>7. \A i, j \in DOMAIN delivered' : i < j => delivered'[i].sample < delivered'[j].sample
      <4> TAKE i, j \in DOMAIN delivered'
      <4> HAVE i < j
      <4>1. i \in DOMAIN delivered
        BY <1>1, <3>4
      <4>2. CASE j = Len(delivered) + 1
        <5>1. delivered[i].sample <= seq - 1 /\ delivered[i].sample \in Nat
          BY <3>5, <4>1
        <5> QED
          BY <1>1, <3>1, <3>3, <3>4, <4>1, <4>2, <5>1
      <4>3. CASE j \in DOMAIN delivered
        BY <1>1, <3>4, <4>1, <4>3 DEF Booked, OwnAnswers
      <4> QED
        BY <1>1, <3>4, <4>2, <4>3
    <3>8. Accounted'
      BY <1>1, <3>1, <3>2, <3>4 DEF Booked, Accounted
    <3> QED
      BY <3>2, <3>6, <3>7, <3>8 DEF Booked, OwnAnswers
  <2> QED
    BY <1>8, <2>1, <2>2 DEF HearProbe, Expected
<1>9. CASE SampleTimeout
  <2>1. seq \in Nat \ {0} /\ Decided = seq - 1 /\ Decided' = seq
    BY <1>9 DEF SampleTimeout, Decided, ProbeTypeOK
  <2>2. Accounted'
    BY <1>1, <1>9, <2>1 DEF SampleTimeout, Booked, Accounted
  <2>3. \A i \in DOMAIN delivered : delivered[i].sample <= seq
    BY <1>0, <2>1 DEF Booked, Measurement
  <2> QED
    BY <1>9, <2>1, <2>2, <2>3 DEF SampleTimeout, Booked, OwnAnswers
<1>10. CASE RecvFails
  BY <1>2, <1>10 DEF RecvFails, Decided
<1>11. CASE NextSample
  <2>1. pc = "pause" /\ seq \in Nat /\ UNCHANGED <<delivered, lost>>
    BY <1>11 DEF NextSample, ProbeTypeOK
  <2>2. Decided' = Decided
    BY <1>11, <2>1 DEF NextSample, Decided
  <2> QED
    BY <1>2, <2>1, <2>2
<1>12. ASSUME NEW x \in Clients, Arrive(x) PROVE Booked'
  BY <1>2, <1>12 DEF Arrive, Decided
<1> QED
  BY <1>3, <1>4, <1>5, <1>6, <1>7, <1>8, <1>9, <1>10, <1>11, <1>12
     DEF ProbeNext, ProbeStep

LEMMA AlwaysBooked == ProbeSpec => []Booked
BY InitTyped, StepTyped, InitBooked, StepBooked, PTL DEF ProbeSpec

\* A latency is measured on the packet of its own sample, once, whatever late or
\* repeated copies lie in the receiver's buffer (measure_datagram_one_way).
THEOREM MeasuresOwnSample == ProbeSpec => []OwnAnswers
<1>1. Booked => OwnAnswers
  BY DEF Booked
<1> QED
  BY <1>1, AlwaysBooked, PTL

\* Received and lost add up to the samples decided, at every moment (SampleStats).
THEOREM NothingUncounted == ProbeSpec => []Accounted
<1>1. Booked => Accounted
  BY DEF Booked
<1> QED
  BY <1>1, AlwaysBooked, PTL

\* A probe that ends well has counted every sample of its configuration.
THEOREM CountsAllSamples ==
  ProbeSpec => [](pc = "done" => Len(delivered) + lost = samples)
<1> DEFINE AtTheEnd == pc = "done" => seq = samples
<1>1. ProbeInit => AtTheEnd
  BY DEF ProbeInit
<1>2. ProbeTypeOK /\ AtTheEnd /\ [ProbeNext]_probeVars => AtTheEnd'
  <2> SUFFICES ASSUME ProbeTypeOK, AtTheEnd, [ProbeNext]_probeVars PROVE AtTheEnd'
    OBVIOUS
  <2>1. CASE NextSample
    BY <2>1 DEF NextSample, ProbeTypeOK
  <2>2. CASE UNCHANGED probeVars
    BY <2>2 DEF probeVars
  <2>3. ASSUME NEW x \in Clients, HearAnswer(x) PROVE AtTheEnd'
    BY <2>3 DEF HearAnswer, ConnectPc, Clients, After
  <2>4. ASSUME NEW x \in Clients, Arrive(x) PROVE AtTheEnd'
    BY <2>4 DEF Arrive
  <2> QED
    BY <2>1, <2>2, <2>3, <2>4
       DEF ProbeNext, ProbeStep, Call, After, Http, ConnectTimeout, SendProbe,
           HearProbe, Expected, SampleTimeout, RecvFails
<1>3. Booked /\ AtTheEnd => (pc = "done" => Len(delivered) + lost = samples)
  BY DEF Booked, Accounted, Decided
<1> QED
  BY <1>1, <1>2, <1>3, AlwaysBooked, ProbeTyped, PTL DEF ProbeSpec

LEMMA IndexesInside ==
  ASSUME NEW n \in Nat \ {0}
  PROVE  {MedianIndex(n), P95Index(n)} \subseteq 0 .. n - 1
BY DEF MedianIndex, P95Index

\* summarize indexes within the sorted latencies, however few arrived, because main
\* does not call it when none did.
THEOREM SummaryAlwaysInside == ProbeSpec => []SummaryInside
<1>1. ProbeTypeOK => SummaryInside
  <2> SUFFICES ASSUME ProbeTypeOK, Summarizes
               PROVE  {MedianIndex(Len(delivered)), P95Index(Len(delivered))}
                        \subseteq 0 .. Len(delivered) - 1
    BY DEF SummaryInside
  <2>1. delivered \in Seq(Measurement) /\ delivered # <<>>
    BY DEF ProbeTypeOK, Summarizes, Measurement
  <2>2. Len(delivered) \in Nat \ {0}
    <3> HIDE DEF Measurement
    <3> QED
      BY <2>1
  <2> QED
    BY <2>2, IndexesInside
<1> QED
  BY <1>1, ProbeTyped, PTL
=============================================================================
