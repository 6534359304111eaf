------------------------------ MODULE AafStream ------------------------------
(***************************************************************************)
(* AafPcmTalker and AafPcmListener (src/avtp/formats/aaf/stream.rs) with a *)
(* network between them: several talkers share a segment with foreign AVTP *)
(* traffic, frames are lost, and, where an instance allows it, duplicated  *)
(* or reordered.  One listener filters the segment and turns gaps in the   *)
(* sequence numbers into a count of lost packets.                          *)
(*                                                                         *)
(* A stream is identified by a MAC address and a unique id, as in StreamID.*)
(* A talker's PtpSynchronizedClock appears as what SyncClock refines: a    *)
(* call fails, or answers with a later time (MonotonicClock).              *)
(***************************************************************************)
EXTENDS Integers, Sequences, FiniteSets, SequencesExt

CONSTANTS
    Talkers,      \* the streams: records [mac, uid]
    Filter,       \* the listener's StreamFilter
    SeqRange,       \* 2^8, the sequence numbers
    Duplicates,   \* the network may deliver a frame more than once
    Reorders,     \* the network may deliver frames out of order
    MaxPackets,   \* bound: for each talker, the calls its clock answers
    MaxForeign,   \* bound: foreign frames
    MaxFlight     \* bound: frames in flight

ASSUME StreamAssumption ==
    /\ SeqRange \in Nat \ {0}
    /\ Duplicates \in BOOLEAN /\ Reorders \in BOOLEAN
    /\ MaxPackets \in [Talkers -> Nat] /\ MaxForeign \in Nat /\ MaxFlight \in Nat

VARIABLES
    sequence_num,  \* of each talker
    clock,         \* the calls each talker's clock has answered, each with a later time
    network,       \* frames in flight, in the order they were sent
    expected_seq,  \* of the listener
    received,      \* what the latest process() returned
    sent,          \* history: packets each talker has built
    lastIndex,     \* history: the latest accepted packet of each stream, 0: none
    youngest,      \* history: the one built last of the accepted packets of each stream
    lost,          \* history: the packets of each stream that the network has lost
    foreign        \* foreign frames so far

talker == <<sequence_num, clock, sent>>
listener == <<expected_seq, received, lastIndex, youngest>>
vars == <<talker, network, listener, lost, foreign>>

\* expected_seq = None, before the first packet
NoSeq == -1
SequenceNums == 0..(SeqRange - 1)

\* What the listener can tell apart: a PDU that is not a stream PDU, one whose
\* header is not valid AAF, AAF in the AES3 format, and AAF PCM.
Kinds == {"notStream", "notAaf", "aes3", "pcm"}

\* index counts the packets of the stream and is not on the wire.
Frames ==
    [kind : Kinds, id : Talkers, sequence_num : SequenceNums, index : Nat]

Outcomes == {"nothing", "Frame", "None", "InvalidAaf"}

TypeOK ==
    /\ sequence_num \in [Talkers -> SequenceNums]
    /\ clock \in [Talkers -> Nat]
    /\ network \in Seq(Frames)
    /\ expected_seq \in SequenceNums \cup {NoSeq}
    /\ received.outcome \in Outcomes /\ received.packets_lost \in SequenceNums
    /\ sent \in [Talkers -> Nat]
    /\ lastIndex \in [Talkers -> Nat] /\ youngest \in [Talkers -> Nat]
    /\ lost \in [Talkers -> SUBSET Nat]
    /\ foreign \in Nat

Init ==
    /\ sequence_num = [t \in Talkers |-> 0]
    /\ clock = [t \in Talkers |-> 0]
    /\ network = <<>>
    /\ expected_seq = NoSeq
    /\ received = [outcome |-> "nothing", packets_lost |-> 0]
    /\ sent = [t \in Talkers |-> 0]
    /\ lastIndex = [t \in Talkers |-> 0] /\ youngest = [t \in Talkers |-> 0]
    /\ lost = [t \in Talkers |-> {}]
    /\ foreign = 0

-----------------------------------------------------------------------------
(* The talker *)

\* u8 wrapping_add(1) and wrapping_sub
UnwrappedNext(seq) == seq + 1
NextSeq(seq) == (seq + 1) % SeqRange
Gap(seq, expected) == (seq - expected) % SeqRange

\* The clock answers with a later time; a call whose clock fails changes nothing
\* here and is a step that leaves every variable as it is.
ClockAnswers(t) ==
    /\ clock[t] < MaxPackets[t]
    /\ clock' = [clock EXCEPT ![t] = @ + 1]

\* build_packet: time, then the PCM variant, then the header with the current
\* sequence number, which is incremented last.
BuildPacket(t) ==
    /\ Len(network) < MaxFlight
    /\ ClockAnswers(t)
    /\ sent' = [sent EXCEPT ![t] = @ + 1]
    /\ network' = Append(network,
           [kind |-> "pcm", id |-> t, sequence_num |-> sequence_num[t],
            index |-> sent'[t]])
    /\ sequence_num' = [sequence_num EXCEPT ![t] = NextSeq(@)]
    /\ UNCHANGED <<listener, lost, foreign>>

\* AafPcm::new rejects the payload: the clock has moved, no number is used.
CountsRejected(t) ==
    /\ ClockAnswers(t)
    /\ sequence_num' = [sequence_num EXCEPT ![t] = NextSeq(@)]
    /\ UNCHANGED <<sent, network, listener, lost, foreign>>
BuildRejected(t) ==
    /\ ClockAnswers(t)
    /\ UNCHANGED <<sequence_num, sent, network, listener, lost, foreign>>

-----------------------------------------------------------------------------
(* The listener *)

\* StreamFilter::matches
Matches(id) ==
    CASE Filter.kind = "Any" -> TRUE
      [] Filter.kind = "MacOnly" -> Filter.mac = id.mac
      [] Filter.kind = "Exact" -> Filter.mac = id.mac /\ Filter.uid = id.uid

\* process: the order of the tests is the code's, the AAF header is validated
\* before the stream is filtered.
Outcome(frame) ==
    IF frame.kind = "notStream" THEN "None"
    ELSE IF frame.kind = "notAaf" THEN "InvalidAaf"
    ELSE IF ~Matches(frame.id) THEN "None"
    ELSE IF frame.kind # "pcm" THEN "None"
    ELSE "Frame"

Process(frame) ==
    IF Outcome(frame) = "Frame"
    THEN /\ received' = [outcome |-> "Frame",
                         packets_lost |-> IF expected_seq = NoSeq THEN 0
                                          ELSE Gap(frame.sequence_num, expected_seq)]
         /\ expected_seq' = NextSeq(frame.sequence_num)
         /\ lastIndex' = [lastIndex EXCEPT ![frame.id] = frame.index]
         /\ youngest' = [youngest EXCEPT ![frame.id] = IF @ < frame.index THEN frame.index ELSE @]
    ELSE /\ received' = [outcome |-> Outcome(frame), packets_lost |-> 0]
         /\ UNCHANGED <<expected_seq, lastIndex, youngest>>

-----------------------------------------------------------------------------
(* The network *)

\* Other devices on the segment; their ids and numbers are arbitrary.
SendForeign(kind, id, seq) ==
    /\ foreign < MaxForeign /\ Len(network) < MaxFlight
    /\ foreign' = foreign + 1
    /\ network' = Append(network,
           [kind |-> kind, id |-> id, sequence_num |-> seq, index |-> 0])
    /\ UNCHANGED <<talker, listener, lost>>

Deliver(i) ==
    /\ i = 1 \/ Reorders
    /\ Process(network[i])
    /\ network' = RemoveAt(network, i)
    /\ UNCHANGED <<talker, lost, foreign>>

DeliverCopy(i) ==
    /\ Duplicates
    /\ i = 1 \/ Reorders
    /\ Process(network[i])
    /\ UNCHANGED <<talker, network, lost, foreign>>

Lose(i) ==
    /\ network' = RemoveAt(network, i)
    /\ lost' = IF network[i].kind = "pcm"
                THEN [lost EXCEPT ![network[i].id] = @ \cup {network[i].index}]
                ELSE lost
    /\ UNCHANGED <<talker, listener, foreign>>

Next ==
    \/ \E t \in Talkers : BuildPacket(t) \/ BuildRejected(t)
    \/ \E kind \in Kinds \ {"pcm"}, id \in Talkers, seq \in SequenceNums :
           SendForeign(kind, id, seq)
    \/ \E i \in DOMAIN network : Deliver(i) \/ DeliverCopy(i) \/ Lose(i)

Spec == Init /\ [][Next]_vars

-----------------------------------------------------------------------------
(* Properties *)

Accepts(i) ==
    /\ network[i].kind = "pcm" /\ Matches(network[i].id)
    /\ Deliver(i) \/ DeliverCopy(i)

\* The packet at i arrives in order: all that its stream has had accepted was built
\* before it, the youngest of that was accepted last, and nothing that was built in
\* between is still on its way.
ArrivesInOrder(i) ==
    LET id == network[i].id IN
    /\ lastIndex[id] = youngest[id] /\ youngest[id] < network[i].index
    /\ \A j \in DOMAIN network : network[j].kind = "pcm" /\ network[j].id = id =>
           network[j].index \notin (youngest[id] + 1)..(network[i].index - 1)

LostBefore(i) == {k \in lost[network[i].id] : k < network[i].index}

\* The gap is the loss: with a packet that arrives in order, process() reports how many
\* packets the network has lost since the one accepted before it, modulo the range of the
\* sequence number, whatever was rejected, filtered or not PCM in between, and whatever
\* arrived twice or late before; 0 with the first packet of the stream.
LossIsExact ==
    [][\A i \in DOMAIN network : Accepts(i) /\ ArrivesInOrder(i) =>
         LET before == lastIndex[network[i].id]
         IN  received'.packets_lost =
                 IF before = 0 THEN 0
                 ELSE Cardinality({k \in LostBefore(i) : k > before}) % SeqRange]_vars

\* The field's comment: "Number of packets lost before this one (sequence number gap)".
\* However packets arrive, no more are reported with one than the network had lost before
\* it.
PacketsLostWereLost ==
    [][\A i \in DOMAIN network : Accepts(i) =>
         received'.packets_lost <= Cardinality(LostBefore(i))]_vars

\* The header's comment: "receivers can use gaps to detect packet loss".  Whatever
\* the filter and the order of arrival, a reported loss is a loss: since the latest
\* accepted packet of the stream one was built that has not arrived.
ReportedLossIsLoss ==
    [][\A i \in DOMAIN network : Accepts(i) /\ received'.packets_lost > 0 =>
         network[i].index > lastIndex[network[i].id] + 1]_vars
=============================================================================
