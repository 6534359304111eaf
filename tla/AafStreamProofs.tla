--------------------------- MODULE AafStreamProofs ---------------------------
(***************************************************************************)
(* Losses reported by an AafPcmListener, for any streams, any range of     *)
(* sequence numbers and any traffic, on a network that loses, duplicates   *)
(* and reorders, when the listener's filter accepts one stream at most.    *)
(*                                                                         *)
(* The reported number is arithmetic on what is on the wire.  That it is a *)
(* distance needs an invariant that ties the sequence numbers of the       *)
(* talker, of the frames and of the listener to the history; that the      *)
(* distance is the loss, if packets arrive in order, needs one that says   *)
(* where every packet that was built has gone.                             *)
(***************************************************************************)
EXTENDS AafStream, FiniteSetTheorems, SequenceTheorems, TLAPS

\* The filter accepts one stream at most, as Exact does.
OneStream == \A s, t \in Talkers : Matches(s) /\ Matches(t) => s = t

\* The numbers of the talkers, and of the packets on the wire, are those of the
\* history, modulo their range.
Numbered ==
    /\ \A t \in Talkers : sequence_num[t] = sent[t] % SeqRange
    /\ \A i \in DOMAIN network : network[i].kind = "pcm" =>
           /\ network[i].index > 0
           /\ network[i].sequence_num = (network[i].index - 1) % SeqRange

\* The listener expects the successor of the latest packet it has accepted.
Expecting ==
    \A t \in Talkers : Matches(t) =>
        expected_seq = IF lastIndex[t] = 0 THEN NoSeq ELSE lastIndex[t] % SeqRange

\* A packet of the stream the listener accepts was lost, or is on its way, or is no
\* younger than one that was accepted; what is on its way was built.
OnTheWay(t, k) ==
    \E i \in DOMAIN network :
        network[i].kind = "pcm" /\ network[i].id = t /\ network[i].index = k
AccountedFor ==
    /\ \A i \in DOMAIN network : network[i].kind = "pcm" =>
           network[i].index <= sent[network[i].id]
    /\ \A t \in Talkers : Matches(t) =>
           \A k \in 1..sent[t] : k \in lost[t] \/ k <= youngest[t] \/ OnTheWay(t, k)

IInv == TypeOK /\ Numbered /\ Expecting

-----------------------------------------------------------------------------
(* Sequence numbers *)

\* Euclidean division, as div_euclid and rem_euclid compute it.
LEMMA Division ==
    ASSUME NEW n \in Int, NEW d \in Nat \ {0}
    PROVE  /\ n \div d \in Int /\ n % d \in 0..(d - 1)
           /\ n = d * (n \div d) + (n % d)
OBVIOUS

\* Quotient and remainder are unique.
LEMMA Quotient ==
    ASSUME NEW q \in Int, NEW r \in Int, NEW d \in Nat \ {0}, 0 <= r, r < d
    PROVE  (d * q + r) \div d = q /\ (d * q + r) % d = r
OBVIOUS

\* Numbers that differ by whole windows have the same remainder.
LEMMA Congruent ==
    ASSUME NEW a \in Int, NEW b \in Int, NEW k \in Int, NEW d \in Nat \ {0},
           a = d * k + b
    PROVE  a % d = b % d
<1> DEFINE q == b \div d
           r == b % d
<1>1. q \in Int /\ r \in 0..(d - 1) /\ b = d * q + r
  BY Division
<1> HIDE DEF q, r
<1>2. d * (k + q) = d * k + d * q
  BY <1>1
<1>3. d * k \in Int /\ d * q \in Int /\ k + q \in Int
  BY <1>1
<1>4. a = d * (k + q) + r
  BY <1>1, <1>2, <1>3
<1>5. a % d = r
  BY <1>1, <1>3, <1>4, Quotient
<1>6. QED
  BY <1>5 DEF r

\* Remainders may be subtracted, and numbers added, before or after reducing.
LEMMA Remainders ==
    ASSUME NEW a \in Int, NEW b \in Int, NEW d \in Nat \ {0}
    PROVE  /\ (a % d) % d = a % d
           /\ ((a % d) - (b % d)) % d = (a - b) % d
           /\ ((a % d) + b) % d = (a + b) % d
<1> DEFINE q == a \div d
           r == a % d
           p == b \div d
           s == b % d
           k == p - q
           l == -q
<1>1. q \in Int /\ r \in 0..(d - 1) /\ a = d * q + r
  BY Division
<1>2. p \in Int /\ s \in 0..(d - 1) /\ b = d * p + s
  BY Division
<1> HIDE DEF q, r, p, s
<1>3. k \in Int /\ l \in Int /\ d * q \in Int /\ d * p \in Int
      /\ d * k = d * p - d * q /\ d * l = -(d * q)
  BY <1>1, <1>2
<1> HIDE DEF k, l
<1> DEFINE difference == r - s
           expected == a - b
           sum == r + b
           total == a + b
<1>4. difference \in Int /\ expected \in Int /\ difference = d * k + expected
  BY ONLY <1>1, <1>2, <1>3, d \in Nat \ {0}, a \in Int, b \in Int
<1>5. /\ sum \in Int /\ total \in Int /\ sum = d * l + total
      /\ r \in Int /\ r = d * l + a
  BY ONLY <1>1, <1>3, d \in Nat \ {0}, a \in Int, b \in Int
<1> HIDE DEF difference, expected, sum, total
<1>6. difference % d = expected % d
  BY <1>3, <1>4, Congruent
<1>7. sum % d = total % d /\ r % d = a % d
  BY <1>3, <1>5, Congruent
<1>8. QED
  BY <1>6, <1>7 DEF r, s, difference, expected, sum, total

LEMMA InRange ==
    ASSUME NEW n \in Int
    PROVE  n % SeqRange \in SequenceNums
BY StreamAssumption DEF SequenceNums

\* NextSeq of the number of a packet is the number of the next one.
LEMMA NextNumber ==
    ASSUME NEW n \in Int
    PROVE  NextSeq(n % SeqRange) = (n + 1) % SeqRange
<1>1. \A b \in Int : ((n % SeqRange) + b) % SeqRange = (n + b) % SeqRange
  BY StreamAssumption, Remainders
<1>2. QED
  BY <1>1 DEF NextSeq

\* The gap between the number of a packet and the expected one.
LEMMA GapIsDistance ==
    ASSUME NEW n \in Int, NEW m \in Int
    PROVE  Gap(n % SeqRange, m % SeqRange) = (n - m) % SeqRange
BY StreamAssumption, Remainders DEF Gap

-----------------------------------------------------------------------------
(* Frames in flight *)

\* Removing a frame adds none and leaves the others.
LEMMA Removing ==
    ASSUME NEW S, NEW s \in Seq(S), NEW i \in DOMAIN s
    PROVE  /\ RemoveAt(s, i) \in Seq(S)
           /\ \A j \in DOMAIN RemoveAt(s, i) :
                  \E k \in DOMAIN s : RemoveAt(s, i)[j] = s[k]
           /\ \A k \in DOMAIN s : k # i =>
                  \E j \in DOMAIN RemoveAt(s, i) : RemoveAt(s, i)[j] = s[k]
<1> DEFINE front == SubSeq(s, 1, i - 1)
           back == SubSeq(s, i + 1, Len(s))
           rest == front \o back
<1>1. i \in 1..Len(s) /\ Len(s) \in Nat /\ DOMAIN s = 1..Len(s)
  OBVIOUS
<1>2. /\ front \in Seq(S) /\ Len(front) = i - 1
      /\ \A j \in 1..(i - 1) : front[j] = s[j]
  BY <1>1
<1>3. /\ back \in Seq(S) /\ Len(back) = Len(s) - i
      /\ \A j \in 1..(Len(s) - i) : back[j] = s[i + j]
  BY <1>1
<1> HIDE DEF front, back
<1>4. /\ rest \in Seq(S) /\ Len(rest) = Len(s) - 1
      /\ \A j \in 1..(Len(s) - 1) :
             rest[j] = IF j < i THEN front[j] ELSE back[j - (i - 1)]
  <2>1. /\ rest \in Seq(S) /\ Len(rest) = Len(front) + Len(back)
        /\ \A j \in 1..(Len(front) + Len(back)) :
               rest[j] = IF j <= Len(front) THEN front[j] ELSE back[j - Len(front)]
    BY <1>2, <1>3, ConcatProperties
  <2> HIDE DEF rest
  <2>2. QED
    BY ONLY <1>1, <1>2, <1>3, <2>1
<1> HIDE DEF rest
<1>5. ASSUME NEW j \in 1..(Len(s) - 1)
      PROVE  \E k \in DOMAIN s : rest[j] = s[k]
  <2>1. CASE j < i
    <3>1. j \in 1..(i - 1) /\ j \in DOMAIN s
      BY <1>1, <2>1
    <3>2. rest[j] = front[j]
      BY <1>4, <2>1
    <3>3. front[j] = s[j]
      BY <1>2, <3>1
    <3>4. QED
      BY <3>1, <3>2, <3>3
  <2>2. CASE ~(j < i)
    <3> DEFINE m == j - (i - 1)
    <3>1. m \in 1..(Len(s) - i) /\ i + m = j + 1 /\ j + 1 \in DOMAIN s
      BY <1>1, <2>2
    <3>2. rest[j] = back[m]
      BY <1>4, <2>2
    <3> HIDE DEF m
    <3>3. back[m] = s[i + m]
      BY <1>3, <3>1
    <3>4. QED
      BY <3>1, <3>2, <3>3
  <2>3. QED
    BY <2>1, <2>2
<1>6. DOMAIN (rest) = 1..(Len(s) - 1)
  BY <1>4
<1>7. ASSUME NEW k \in DOMAIN s, k # i
      PROVE  \E j \in 1..(Len(s) - 1) : rest[j] = s[k]
  <2>1. CASE k < i
    <3>1. k \in 1..(i - 1) /\ k \in 1..(Len(s) - 1)
      BY <1>1, <2>1
    <3>2. rest[k] = front[k]
      BY <1>4, <2>1, <3>1
    <3>3. front[k] = s[k]
      BY <1>2, <3>1
    <3>4. QED
      BY <3>1, <3>2, <3>3
  <2>2. CASE ~(k < i)
    <3> DEFINE m == k - i
               j == k - 1
    <3>1. /\ m \in 1..(Len(s) - i) /\ i + m = k
          /\ j \in 1..(Len(s) - 1) /\ ~(j < i) /\ j - (i - 1) = m
      BY <1>1, <1>7, <2>2
    <3> HIDE DEF m, j
    <3>2. rest[j] = back[m]
      BY <1>4, <3>1
    <3>3. back[m] = s[i + m]
      BY <1>3, <3>1
    <3>4. QED
      BY <3>1, <3>2, <3>3
  <2>3. QED
    BY <2>1, <2>2
<1>8. QED
  BY <1>4, <1>5, <1>6, <1>7 DEF RemoveAt, front, back, rest

\* Appending a frame adds that one.
LEMMA Appending ==
    ASSUME NEW S, NEW s \in Seq(S), NEW e \in S
    PROVE  /\ Append(s, e) \in Seq(S)
           /\ \A j \in DOMAIN Append(s, e) :
                  Append(s, e)[j] = e \/ \E k \in DOMAIN s : Append(s, e)[j] = s[k]
           /\ Len(s) + 1 \in DOMAIN Append(s, e) /\ Append(s, e)[Len(s) + 1] = e
           /\ \A k \in DOMAIN s : k \in DOMAIN Append(s, e) /\ Append(s, e)[k] = s[k]
OBVIOUS

-----------------------------------------------------------------------------
(* The invariant *)

LEMMA InitInv == Init => IInv
<1> SUFFICES ASSUME Init PROVE IInv
  OBVIOUS
<1>1. 0 \in SequenceNums /\ 0 % SeqRange = 0
  BY StreamAssumption DEF SequenceNums
<1>2. TypeOK
  BY <1>1 DEF Init, TypeOK, Outcomes
<1>3. Numbered
  BY <1>1 DEF Init, Numbered
<1>4. Expecting
  BY DEF Init, Expecting
<1>5. QED
  BY <1>2, <1>3, <1>4 DEF IInv

\* A packet takes the talker's number and leaves the successor behind.
LEMMA BuildPreserves ==
    ASSUME IInv, NEW t \in Talkers, BuildPacket(t)
    PROVE  IInv'
<1> DEFINE packet == [kind |-> "pcm", id |-> t, sequence_num |-> sequence_num[t],
                      index |-> sent'[t]]
<1>1. /\ clock' \in [Talkers -> Nat] /\ sent' \in [Talkers -> Nat]
      /\ sent' = [sent EXCEPT ![t] = sent[t] + 1]
      /\ network' = Append(network, packet)
      /\ sequence_num' = [sequence_num EXCEPT ![t] = NextSeq(sequence_num[t])]
      /\ sent \in [Talkers -> Nat] /\ sequence_num \in [Talkers -> SequenceNums]
      /\ network \in Seq(Frames)
  BY DEF BuildPacket, ClockAnswers, IInv, TypeOK
<1>2. packet \in Frames
  BY <1>1 DEF Frames, Kinds
<1>3. /\ sequence_num[t] = sent[t] % SeqRange
      /\ NextSeq(sequence_num[t]) = (sent[t] + 1) % SeqRange
      /\ NextSeq(sequence_num[t]) \in SequenceNums
  BY <1>1, NextNumber, InRange DEF IInv, Numbered
<1>4. TypeOK'
  <2>1. network' \in Seq(Frames)
    BY <1>1, <1>2, Appending
  <2>2. sequence_num' \in [Talkers -> SequenceNums]
    BY <1>1, <1>3
  <2>3. QED
    BY <1>1, <2>1, <2>2 DEF BuildPacket, listener, IInv, TypeOK
<1>5. Numbered'
  <2>1. \A s \in Talkers : sequence_num'[s] = sent'[s] % SeqRange
    BY <1>1, <1>3 DEF IInv, Numbered
  <2>2. packet.index > 0 /\ packet.sequence_num = (packet.index - 1) % SeqRange
    <3>1. packet.index = sent[t] + 1 /\ packet.sequence_num = sequence_num[t]
      BY <1>1
    <3>2. sent[t] \in Nat /\ (sent[t] + 1) - 1 = sent[t]
      BY <1>1
    <3> HIDE DEF packet
    <3>3. QED
      BY <1>3, <3>1, <3>2
  <2> HIDE DEF packet
  <2>3. ASSUME NEW j \in DOMAIN network', network'[j].kind = "pcm"
        PROVE  /\ network'[j].index > 0
               /\ network'[j].sequence_num = (network'[j].index - 1) % SeqRange
    <3>1. network'[j] = packet \/ \E k \in DOMAIN network : network'[j] = network[k]
      BY <1>1, <1>2, Appending
    <3>2. QED
      BY <2>2, <2>3, <3>1 DEF IInv, Numbered
  <2>4. QED
    BY <2>1, <2>3 DEF Numbered
<1>6. Expecting'
  BY DEF BuildPacket, listener, IInv, Expecting
<1>7. QED
  BY <1>4, <1>5, <1>6 DEF IInv

LEMMA RejectPreserves ==
    ASSUME IInv, NEW t \in Talkers, BuildRejected(t)
    PROVE  IInv'
<1>1. TypeOK'
  BY DEF BuildRejected, ClockAnswers, listener, IInv, TypeOK
<1>2. Numbered' /\ Expecting'
  BY DEF BuildRejected, listener, IInv, Numbered, Expecting
<1>3. QED
  BY <1>1, <1>2 DEF IInv

\* A frame of another device is no packet of the streams.
LEMMA ForeignPreserves ==
    ASSUME IInv, NEW kind \in Kinds \ {"pcm"}, NEW id \in Talkers, NEW seq \in SequenceNums,
           SendForeign(kind, id, seq)
    PROVE  IInv'
<1> DEFINE frame == [kind |-> kind, id |-> id, sequence_num |-> seq, index |-> 0]
<1>1. /\ network \in Seq(Frames) /\ network' = Append(network, frame)
      /\ foreign' \in Nat
  BY DEF SendForeign, IInv, TypeOK
<1>2. frame \in Frames /\ frame.kind # "pcm"
  BY DEF Frames
<1> HIDE DEF frame
<1>3. TypeOK'
  BY <1>1, <1>2, Appending DEF SendForeign, talker, listener, IInv, TypeOK
<1>4. Numbered'
  <2>1. \A j \in DOMAIN network' :
            network'[j] = frame \/ \E k \in DOMAIN network : network'[j] = network[k]
    BY <1>1, <1>2, Appending
  <2>2. QED
    BY <1>2, <2>1 DEF SendForeign, talker, IInv, Numbered
<1>5. Expecting'
  BY DEF SendForeign, listener, IInv, Expecting
<1>6. QED
  BY <1>3, <1>4, <1>5 DEF IInv

\* Losing a frame, or taking it off the wire, keeps the numbers of the others.
LEMMA RemovalKeepsNumbers ==
    ASSUME IInv, NEW i \in DOMAIN network, network' = RemoveAt(network, i) \/ UNCHANGED network,
           UNCHANGED talker
    PROVE  network' \in Seq(Frames) /\ Numbered'
<1>1. network \in Seq(Frames)
  BY DEF IInv, TypeOK
<1>2. /\ network' \in Seq(Frames)
      /\ \A j \in DOMAIN network' : \E k \in DOMAIN network : network'[j] = network[k]
  BY <1>1, Removing
<1>3. QED
  BY <1>2 DEF talker, IInv, Numbered

LEMMA LosePreserves ==
    ASSUME IInv, NEW i \in DOMAIN network, Lose(i)
    PROVE  IInv'
<1>1. network' \in Seq(Frames) /\ Numbered'
  BY RemovalKeepsNumbers DEF Lose
<1>2. TypeOK' /\ Expecting'
  <2>1. network[i] \in Frames /\ lost \in [Talkers -> SUBSET Nat]
    BY DEF IInv, TypeOK
  <2>2. network[i].index \in Nat
    BY <2>1 DEF Frames
  <2>3. lost' \in [Talkers -> SUBSET Nat]
    BY <2>1, <2>2 DEF Lose
  <2>4. QED
    BY <1>1, <2>3 DEF Lose, talker, listener, IInv, TypeOK, Expecting
<1>3. QED
  BY <1>1, <1>2 DEF IInv

\* What a packet's number, and the number it makes the listener expect, stand for.
LEMMA Accepted ==
    ASSUME IInv, NEW i \in DOMAIN network, network[i].kind = "pcm"
    PROVE  /\ network[i] \in Frames /\ network[i].index \in Nat \ {0}
           /\ network[i].sequence_num = (network[i].index - 1) % SeqRange
           /\ NextSeq(network[i].sequence_num) = network[i].index % SeqRange
<1>1. network[i] \in Frames
  BY DEF IInv, TypeOK
<1>2. /\ network[i].index \in Nat \ {0}
      /\ network[i].sequence_num = (network[i].index - 1) % SeqRange
  BY <1>1 DEF Frames, IInv, Numbered
<1>3. network[i].index - 1 \in Int /\ (network[i].index - 1) + 1 = network[i].index
  BY <1>2
<1>4. QED
  BY <1>1, <1>2, <1>3, NextNumber

\* What process() does to the listener, whatever happens to the frame on the wire.
LEMMA ProcessPreserves ==
    ASSUME OneStream, IInv, NEW i \in DOMAIN network, Process(network[i])
    PROVE  /\ expected_seq' \in SequenceNums \cup {NoSeq}
           /\ lastIndex' \in [Talkers -> Nat] /\ youngest' \in [Talkers -> Nat]
           /\ received'.outcome \in Outcomes /\ received'.packets_lost \in SequenceNums
           /\ Expecting'
<1> DEFINE frame == network[i]
<1>1. frame \in Frames /\ lastIndex \in [Talkers -> Nat] /\ youngest \in [Talkers -> Nat]
      /\ expected_seq \in SequenceNums \cup {NoSeq}
  BY DEF IInv, TypeOK
<1>2. 0 \in SequenceNums
  BY StreamAssumption DEF SequenceNums
<1>3. CASE Outcome(frame) = "Frame"
  <2>1. frame.kind = "pcm" /\ Matches(frame.id) /\ frame.id \in Talkers
    BY <1>1, <1>3 DEF Outcome, Frames
  <2>2. /\ frame.index \in Nat \ {0} /\ frame.sequence_num \in Int
        /\ NextSeq(frame.sequence_num) = frame.index % SeqRange
        /\ frame.index % SeqRange \in SequenceNums
    <3>1. frame.sequence_num \in SequenceNums
      BY <1>1 DEF Frames
    <3>2. QED
      BY <2>1, <3>1, Accepted, InRange DEF SequenceNums
  <2>3. /\ expected_seq' = NextSeq(frame.sequence_num)
        /\ lastIndex' = [lastIndex EXCEPT ![frame.id] = frame.index]
        /\ youngest' \in [Talkers -> Nat]
        /\ received' = [outcome |-> "Frame",
                        packets_lost |-> IF expected_seq = NoSeq THEN 0
                                         ELSE Gap(frame.sequence_num, expected_seq)]
    BY <1>1, <1>3, <2>2 DEF Process
  <2>4. expected_seq # NoSeq => Gap(frame.sequence_num, expected_seq) \in SequenceNums
    <3> SUFFICES ASSUME expected_seq \in Int
                 PROVE  Gap(frame.sequence_num, expected_seq) \in SequenceNums
      BY <1>1 DEF SequenceNums
    <3>1. frame.sequence_num - expected_seq \in Int
      BY <2>2
    <3>2. QED
      BY <3>1, InRange DEF Gap
  <2>5. Expecting'
    <3> SUFFICES ASSUME NEW t \in Talkers, Matches(t)
                 PROVE  expected_seq' = IF lastIndex'[t] = 0 THEN NoSeq
                                        ELSE lastIndex'[t] % SeqRange
      BY DEF Expecting, Matches
    <3>1. t = frame.id
      BY <2>1 DEF OneStream
    <3>2. lastIndex'[t] = frame.index
      BY <1>1, <2>1, <2>3, <3>1
    <3>3. QED
      BY <2>2, <2>3, <3>2
  <2>6. QED
    BY <1>1, <1>2, <2>1, <2>2, <2>3, <2>4, <2>5 DEF Outcomes
<1>4. CASE Outcome(frame) # "Frame"
  <2>1. /\ received' = [outcome |-> Outcome(frame), packets_lost |-> 0]
        /\ UNCHANGED <<expected_seq, lastIndex, youngest>>
    BY <1>4 DEF Process
  <2>2. Outcome(frame) \in Outcomes
    BY DEF Outcome, Outcomes
  <2>3. Expecting'
    BY <2>1 DEF IInv, Expecting, Matches
  <2>4. QED
    BY <1>1, <1>2, <2>1, <2>2, <2>3
<1>5. QED
  BY <1>3, <1>4

LEMMA DeliverPreserves ==
    ASSUME OneStream, IInv, NEW i \in DOMAIN network, Deliver(i) \/ DeliverCopy(i)
    PROVE  IInv'
<1>1. Process(network[i]) /\ UNCHANGED <<talker, lost, foreign>>
      /\ (network' = RemoveAt(network, i) \/ UNCHANGED network)
  BY DEF Deliver, DeliverCopy
<1>2. network' \in Seq(Frames) /\ Numbered'
  BY <1>1, RemovalKeepsNumbers
<1>3. /\ expected_seq' \in SequenceNums \cup {NoSeq} /\ lastIndex' \in [Talkers -> Nat]
      /\ youngest' \in [Talkers -> Nat]
      /\ received'.outcome \in Outcomes /\ received'.packets_lost \in SequenceNums
      /\ Expecting'
  BY <1>1, ProcessPreserves
<1>4. TypeOK'
  BY <1>1, <1>2, <1>3 DEF talker, IInv, TypeOK
<1>5. QED
  BY <1>2, <1>3, <1>4 DEF IInv

LEMMA NextPreserves ==
    ASSUME OneStream, IInv, [Next]_vars
    PROVE  IInv'
<1>1. CASE UNCHANGED vars
  BY <1>1 DEF vars, talker, listener, IInv, TypeOK, Numbered, Expecting, Matches
<1>2. ASSUME NEW t \in Talkers, BuildPacket(t) \/ BuildRejected(t) PROVE IInv'
  BY <1>2, BuildPreserves, RejectPreserves
<1>3. ASSUME NEW kind \in Kinds \ {"pcm"}, NEW id \in Talkers, NEW seq \in SequenceNums,
             SendForeign(kind, id, seq)
      PROVE  IInv'
  BY <1>3, ForeignPreserves
<1>4. ASSUME NEW i \in DOMAIN network, Deliver(i) \/ DeliverCopy(i) \/ Lose(i) PROVE IInv'
  BY <1>4, DeliverPreserves, LosePreserves
<1>5. QED
  BY <1>1, <1>2, <1>3, <1>4 DEF Next

-----------------------------------------------------------------------------
(* Where the packets are *)

\* A packet that stays on the wire stays accounted for, and a new one is on its way.
LEMMA BuildAccounts ==
    ASSUME IInv, AccountedFor, NEW t \in Talkers, BuildPacket(t)
    PROVE  AccountedFor'
<1> DEFINE packet == [kind |-> "pcm", id |-> t, sequence_num |-> sequence_num[t],
                      index |-> sent[t] + 1]
<1>1. /\ sent \in [Talkers -> Nat] /\ sequence_num \in [Talkers -> SequenceNums]
      /\ network \in Seq(Frames)
      /\ sent' = [sent EXCEPT ![t] = sent[t] + 1] /\ sent'[t] = sent[t] + 1
      /\ network' = Append(network, packet)
      /\ UNCHANGED <<lost, youngest>>
  BY DEF BuildPacket, listener, IInv, TypeOK
<1>2. packet \in Frames /\ packet.kind = "pcm" /\ packet.id = t /\ packet.index = sent[t] + 1
  BY <1>1 DEF Frames, Kinds
<1> HIDE DEF packet
<1>3. /\ \A j \in DOMAIN network' :
             network'[j] = packet \/ \E k \in DOMAIN network : network'[j] = network[k]
      /\ \E j \in DOMAIN network' : network'[j] = packet
      /\ \A k \in DOMAIN network : k \in DOMAIN network' /\ network'[k] = network[k]
  BY <1>1, <1>2, Appending
<1>4. ASSUME NEW j \in DOMAIN network', network'[j].kind = "pcm"
      PROVE  network'[j].index <= sent'[network'[j].id]
  <2>1. CASE network'[j] = packet
    BY <1>1, <1>2, <2>1
  <2>2. ASSUME NEW k \in DOMAIN network, network'[j] = network[k]
        PROVE  network'[j].index <= sent'[network'[j].id]
    <3>1. network[k] \in Frames
      BY <1>1
    <3>2. network[k].id \in Talkers /\ network[k].index \in Nat
      BY <3>1 DEF Frames
    <3>3. network[k].index <= sent[network[k].id]
      BY <1>4, <2>2 DEF AccountedFor
    <3>4. QED
      BY <1>1, <2>2, <3>2, <3>3
  <2>3. QED
    BY <1>3, <2>1, <2>2
<1>5. ASSUME NEW s \in Talkers, Matches(s), NEW k \in 1..sent'[s]
      PROVE  k \in lost'[s] \/ k <= youngest'[s] \/ OnTheWay(s, k)'
  <2>1. CASE k \in 1..sent[s]
    <3>1. k \in lost[s] \/ k <= youngest[s] \/ OnTheWay(s, k)
      BY <1>5, <2>1 DEF AccountedFor
    <3>2. OnTheWay(s, k) => OnTheWay(s, k)'
      BY <1>3 DEF OnTheWay
    <3>3. QED
      BY <1>1, <3>1, <3>2
  <2>2. CASE k \notin 1..sent[s]
    <3>1. s = t /\ k = sent[t] + 1
      BY <1>1, <2>2
    <3>2. QED
      BY <1>2, <1>3, <3>1 DEF OnTheWay
  <2>3. QED
    BY <2>1, <2>2
<1>6. QED
  BY <1>4, <1>5 DEF AccountedFor, Matches

LEMMA ForeignAccounts ==
    ASSUME IInv, AccountedFor, NEW kind \in Kinds \ {"pcm"}, NEW id \in Talkers,
           NEW seq \in SequenceNums, SendForeign(kind, id, seq)
    PROVE  AccountedFor'
<1> DEFINE frame == [kind |-> kind, id |-> id, sequence_num |-> seq, index |-> 0]
<1>1. /\ network \in Seq(Frames) /\ network' = Append(network, frame)
      /\ UNCHANGED <<sent, lost, youngest>>
  BY DEF SendForeign, talker, listener, IInv, TypeOK
<1>2. frame \in Frames /\ frame.kind # "pcm"
  BY DEF Frames
<1> HIDE DEF frame
<1>3. /\ \A j \in DOMAIN network' :
             network'[j] = frame \/ \E k \in DOMAIN network : network'[j] = network[k]
      /\ \A k \in DOMAIN network : k \in DOMAIN network' /\ network'[k] = network[k]
  BY <1>1, <1>2, Appending
<1>4. \A j \in DOMAIN network' : network'[j].kind = "pcm" =>
          network'[j].index <= sent'[network'[j].id]
  BY <1>1, <1>2, <1>3 DEF AccountedFor
<1>5. \A t \in Talkers, k \in Nat : OnTheWay(t, k) => OnTheWay(t, k)'
  BY <1>3 DEF OnTheWay
<1>6. \A t \in Talkers : Matches(t) =>
          \A k \in 1..sent'[t] : k \in lost'[t] \/ k <= youngest'[t] \/ OnTheWay(t, k)'
  <2>1. \A t \in Talkers : Matches(t) =>
            \A k \in 1..sent[t] : k \in lost[t] \/ k <= youngest[t] \/ OnTheWay(t, k)
    BY DEF AccountedFor
  <2>2. \A t \in Talkers : \A k \in 1..sent[t] : k \in Nat
    BY DEF IInv, TypeOK
  <2>3. QED
    BY <1>1, <1>5, <2>1, <2>2
<1>7. QED
  BY <1>4, <1>6 DEF AccountedFor, Matches

\* A frame leaves the wire as a loss, or towards the listener, whose youngest packet is
\* then no older.
LEMMA RemovalAccounts ==
    ASSUME IInv, AccountedFor, NEW i \in DOMAIN network,
           network' = RemoveAt(network, i) \/ UNCHANGED network,
           UNCHANGED sent,
           \A t \in Talkers : \A k \in Nat : k \in lost[t] => k \in lost'[t],
           \A t \in Talkers : \A k \in Nat : k <= youngest[t] => k <= youngest'[t],
           network[i].kind = "pcm" /\ Matches(network[i].id) =>
               \/ network[i].index \in lost'[network[i].id]
               \/ network[i].index <= youngest'[network[i].id]
    PROVE  AccountedFor'
<1>1. network \in Seq(Frames) /\ sent \in [Talkers -> Nat]
  BY DEF IInv, TypeOK
<1>2. /\ \A j \in DOMAIN network' : \E k \in DOMAIN network : network'[j] = network[k]
      /\ \A k \in DOMAIN network : k # i => \E j \in DOMAIN network' : network'[j] = network[k]
  BY <1>1, Removing
<1>3. \A j \in DOMAIN network' : network'[j].kind = "pcm" =>
          network'[j].index <= sent'[network'[j].id]
  BY <1>2 DEF AccountedFor
<1>4. ASSUME NEW t \in Talkers, Matches(t), NEW k \in 1..sent'[t]
      PROVE  k \in lost'[t] \/ k <= youngest'[t] \/ OnTheWay(t, k)'
  <2>1. k \in Nat /\ k \in 1..sent[t]
    BY <1>1
  <2>2. k \in lost[t] \/ k <= youngest[t] \/ OnTheWay(t, k)
    BY <1>4, <2>1 DEF AccountedFor
  <2>3. ASSUME OnTheWay(t, k)
        PROVE  k \in lost'[t] \/ k <= youngest'[t] \/ OnTheWay(t, k)'
    <3>1. PICK m \in DOMAIN network :
              network[m].kind = "pcm" /\ network[m].id = t /\ network[m].index = k
      BY <2>3 DEF OnTheWay
    <3>2. CASE m = i
      BY <1>4, <3>1, <3>2
    <3>3. CASE m # i
      BY <1>2, <3>1, <3>3 DEF OnTheWay
    <3>4. QED
      BY <3>2, <3>3
  <2>4. QED
    BY <2>1, <2>2, <2>3
<1>5. QED
  BY <1>3, <1>4 DEF AccountedFor, Matches

LEMMA NextAccounts ==
    ASSUME IInv, AccountedFor, [Next]_vars
    PROVE  AccountedFor'
<1>0. ASSUME UNCHANGED <<sent, network, lost, youngest>> PROVE AccountedFor'
  <2>1. \A t, k : OnTheWay(t, k)' <=> OnTheWay(t, k)
    BY <1>0 DEF OnTheWay
  <2>2. \A t : Matches(t)' <=> Matches(t)
    BY DEF Matches
  <2>3. QED
    BY <1>0, <2>1, <2>2 DEF AccountedFor
<1>1. CASE UNCHANGED vars
  BY <1>0, <1>1 DEF vars, talker, listener
<1>2. ASSUME NEW t \in Talkers, BuildRejected(t) PROVE AccountedFor'
  BY <1>0, <1>2 DEF BuildRejected, listener
<1>3. ASSUME NEW i \in DOMAIN network, Deliver(i) \/ DeliverCopy(i) \/ Lose(i)
      PROVE  AccountedFor'
  <2> DEFINE frame == network[i]
  <2>1. /\ frame \in Frames /\ lost \in [Talkers -> SUBSET Nat]
        /\ youngest \in [Talkers -> Nat]
    BY DEF IInv, TypeOK
  <2>2. frame.id \in Talkers /\ frame.index \in Nat
    BY <2>1 DEF Frames
  <2> HIDE DEF frame
  <2>3. CASE Lose(i)
    <3>1. /\ network' = RemoveAt(network, i) /\ UNCHANGED <<sent, youngest>>
          /\ lost' = IF frame.kind = "pcm"
                     THEN [lost EXCEPT ![frame.id] = lost[frame.id] \cup {frame.index}]
                     ELSE lost
      BY <2>3 DEF Lose, talker, listener, frame
    <3>2. /\ \A t \in Talkers : \A k \in Nat : k \in lost[t] => k \in lost'[t]
          /\ frame.kind = "pcm" => frame.index \in lost'[frame.id]
      BY <2>1, <2>2, <3>1
    <3>3. QED
      BY <3>1, <3>2, RemovalAccounts DEF frame
  <2>4. CASE Deliver(i) \/ DeliverCopy(i)
    <3>1. /\ Process(frame) /\ UNCHANGED <<sent, lost>>
          /\ network' = RemoveAt(network, i) \/ UNCHANGED network
      BY <2>4 DEF Deliver, DeliverCopy, talker, frame
    <3>2. CASE Outcome(frame) = "Frame"
      <4>1. youngest' = [youngest EXCEPT ![frame.id] =
                            IF youngest[frame.id] < frame.index THEN frame.index
                            ELSE youngest[frame.id]]
        BY <3>1, <3>2 DEF Process
      <4>2. /\ \A t \in Talkers : \A k \in Nat : k <= youngest[t] => k <= youngest'[t]
            /\ frame.index <= youngest'[frame.id]
        BY <2>1, <2>2, <4>1
      <4>3. QED
        BY <3>1, <4>2, RemovalAccounts DEF frame
    <3>3. CASE Outcome(frame) # "Frame"
      <4>1. UNCHANGED youngest
        BY <3>1, <3>3 DEF Process
      <4>2. ~(frame.kind = "pcm" /\ Matches(frame.id))
        BY <3>3 DEF Outcome
      <4>3. QED
        BY <3>1, <4>1, <4>2, RemovalAccounts DEF frame
    <3>4. QED
      BY <3>2, <3>3
  <2>5. QED
    BY <1>3, <2>3, <2>4
<1>4. QED
  BY <1>1, <1>2, <1>3, BuildAccounts, ForeignAccounts DEF Next

-----------------------------------------------------------------------------
(* The theorems *)

\* In every behaviour, the listener's expectation and the numbers on the wire are
\* those of the history, and no packet of its stream is unaccounted for.
THEOREM Invariance == OneStream => (Spec => [](IInv /\ AccountedFor))
<1>1. SUFFICES ASSUME OneStream PROVE Spec => [](IInv /\ AccountedFor)
  OBVIOUS
<1>2. Init => IInv /\ AccountedFor
  BY InitInv DEF Init, AccountedFor
<1>3. IInv /\ AccountedFor /\ [Next]_vars => (IInv /\ AccountedFor)'
  BY <1>1, NextPreserves, NextAccounts
<1>4. QED
  BY <1>2, <1>3, PTL DEF Spec

\* Sequence numbers, and what is reported as lost, stay within their range.
THEOREM TypeCorrect == OneStream => (Spec => []TypeOK)
<1>1. IInv => TypeOK
  BY DEF IInv
<1>2. QED
  BY <1>1, Invariance, PTL

\* Whatever order packets arrive in, what process() reports with one is its distance from
\* the one accepted before it.
LEMMA ReportsDistance ==
    ASSUME IInv, NEW i \in DOMAIN network, Accepts(i)
    PROVE  received'.packets_lost =
               IF lastIndex[network[i].id] = 0 THEN 0
               ELSE (network[i].index - lastIndex[network[i].id] - 1) % SeqRange
<1> DEFINE frame == network[i]
           before == lastIndex[frame.id]
<1>1. /\ frame \in Frames /\ frame.index \in Nat \ {0}
      /\ frame.sequence_num = (frame.index - 1) % SeqRange
  BY Accepted DEF Accepts
<1>2. frame.id \in Talkers /\ Matches(frame.id) /\ Outcome(frame) = "Frame"
  BY <1>1 DEF Accepts, Outcome, Frames
<1>3. before \in Nat /\ expected_seq = IF before = 0 THEN NoSeq ELSE before % SeqRange
  BY <1>2 DEF IInv, TypeOK, Expecting
<1>4. received'.packets_lost =
          IF expected_seq = NoSeq THEN 0 ELSE Gap(frame.sequence_num, expected_seq)
  BY <1>2 DEF Accepts, Deliver, DeliverCopy, Process
<1>5. CASE before = 0
  BY <1>3, <1>4, <1>5
<1>6. CASE before # 0
  <2>1. expected_seq = before % SeqRange /\ expected_seq # NoSeq
    <3>1. before % SeqRange \in SequenceNums
      BY <1>3, InRange
    <3>2. QED
      BY <1>3, <1>6, <3>1 DEF SequenceNums, NoSeq
  <2>2. frame.index - 1 \in Int /\ before \in Int
        /\ (frame.index - 1) - before = frame.index - before - 1
    BY <1>1, <1>3
  <2> HIDE DEF frame, before
  <2>3. Gap(frame.sequence_num, expected_seq) = (frame.index - before - 1) % SeqRange
    BY <1>1, <2>1, <2>2, GapIsDistance
  <2>4. QED
    BY <1>4, <1>6, <2>1, <2>3 DEF frame, before
<1>7. QED
  BY <1>5, <1>6

\* Between a packet that arrives in order and the one accepted before it, all are lost.
LEMMA BetweenIsLost ==
    ASSUME IInv, AccountedFor, NEW i \in DOMAIN network,
           network[i].kind = "pcm", Matches(network[i].id), ArrivesInOrder(i)
    PROVE  Cardinality({k \in LostBefore(i) : k > lastIndex[network[i].id]})
               = network[i].index - lastIndex[network[i].id] - 1
<1> DEFINE id == network[i].id
           last == lastIndex[network[i].id]
           index == network[i].index
<1>1. network[i] \in Frames /\ lost \in [Talkers -> SUBSET Nat]
      /\ lastIndex \in [Talkers -> Nat] /\ sent \in [Talkers -> Nat]
  BY DEF IInv, TypeOK
<1>2. id \in Talkers /\ last \in Nat /\ index \in Nat /\ sent[id] \in Nat
  BY <1>1 DEF Frames
<1>3. last = youngest[id] /\ last < index /\ index <= sent[id]
  BY DEF ArrivesInOrder, AccountedFor
<1>4. \A k \in (last + 1)..(index - 1) : ~OnTheWay(id, k)
  BY <1>3 DEF ArrivesInOrder, OnTheWay
<1>5. \A k \in 1..sent[id] : k \in lost[id] \/ k <= youngest[id] \/ OnTheWay(id, k)
  BY <1>2 DEF AccountedFor
<1>6. LostBefore(i) = {k \in lost[id] : k < index}
  BY DEF LostBefore
<1>7. lost[id] \subseteq Nat
  BY <1>1, <1>2
<1> HIDE DEF id, last, index
<1>8. {k \in LostBefore(i) : k > last} = (last + 1)..(index - 1)
  <2>1. ASSUME NEW k \in (last + 1)..(index - 1)
        PROVE  k \in lost[id]
    <3>1. k \in 1..sent[id] /\ ~(k <= last)
      BY <1>2, <1>3, <2>1
    <3>2. QED
      BY <1>3, <1>4, <1>5, <3>1
  <2>2. QED
    BY <1>2, <1>6, <1>7, <2>1
<1>9. Cardinality((last + 1)..(index - 1)) = (index - last) - 1
  <2> DEFINE a == last + 1
             b == index - 1
  <2>1. a \in Int /\ b \in Int /\ (a > b => (index - last) - 1 = 0) /\ (b - a) + 1 = (index - last) - 1
    BY <1>2, <1>3
  <2> HIDE DEF a, b
  <2>2. Cardinality(a..b) = IF a > b THEN 0 ELSE (b - a) + 1
    BY <2>1, FS_Interval
  <2>3. QED
    BY <2>1, <2>2 DEF a, b
<1>10. QED
  BY <1>2, <1>8, <1>9 DEF id, last, index

\* The gap is the loss: with a packet that arrives in order, process() reports how many
\* packets the network has lost since the one accepted before it, modulo the range of the
\* sequence numbers, whatever arrived twice or late before.
THEOREM LossesAreExact == OneStream => (Spec => LossIsExact)
<1>1. SUFFICES ASSUME OneStream PROVE Spec => LossIsExact
  OBVIOUS
<1> DEFINE Exact(i) ==
        received'.packets_lost =
            IF lastIndex[network[i].id] = 0 THEN 0
            ELSE Cardinality({k \in LostBefore(i) : k > lastIndex[network[i].id]}) % SeqRange
<1>2. ASSUME IInv, AccountedFor, NEW i \in DOMAIN network, Accepts(i), ArrivesInOrder(i)
      PROVE  Exact(i)
  BY <1>2, ReportsDistance, BetweenIsLost DEF Accepts
<1>3. IInv /\ AccountedFor /\ [Next]_vars =>
          [\A i \in DOMAIN network : Accepts(i) /\ ArrivesInOrder(i) => Exact(i)]_vars
  BY <1>2
<1>4. Spec => [](IInv /\ AccountedFor)
  BY <1>1, Invariance
<1>5. LossIsExact <=>
          [][\A i \in DOMAIN network : Accepts(i) /\ ArrivesInOrder(i) => Exact(i)]_vars
  BY PTL DEF LossIsExact
<1>6. QED
  BY <1>3, <1>4, <1>5, PTL DEF Spec

\* A listener with the Exact filter accepts one stream, whatever names streams have.
THEOREM ExactAccepts ==
    ASSUME NEW Macs, NEW Uids, Talkers \subseteq [mac : Macs, uid : Uids],
           Filter.kind = "Exact"
    PROVE  OneStream
BY DEF OneStream, Matches
=============================================================================
