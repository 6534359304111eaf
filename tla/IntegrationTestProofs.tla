------------------------- MODULE IntegrationTestProofs -------------------------
(***************************************************************************)
(* What a pass of avtp-integration-test means, for any file, any playback  *)
(* delay, any range of sequence numbers and any number of losses, copies,  *)
(* foreign frames and failures, under every scheduling of the threads.     *)
(*                                                                         *)
(* A packet is followed through the stages of the test: the wire, the      *)
(* event channel, the jitter buffer, the packets presented.  What is at a  *)
(* later stage is not behind what is at an earlier one; when nothing is    *)
(* lost or copied the stages hold the packets of the file in one row.      *)
(***************************************************************************)
EXTENDS IntegrationTest, SequenceTheorems, FiniteSetTheorems, TLAPS

-----------------------------------------------------------------------------
(* Timestamps: remainders for a divisor that is not known, and what a frame's timestamp
   expands to *)

\* Euclidean division, as div_euclid and rem_euclid compute it.
LEMMA Division ==
    ASSUME NEW n \in Int, NEW d \in Nat \ {0}
    PROVE  /\ n \div d \in Int /\ n % d \in 0..(d - 1)
           /\ n = d * (n \div d) + (n % d)
OBVIOUS

\* Quotient and remainder are unique.
LEMMA Quotient ==
    ASSUME NEW q \in Int, NEW r \in Int, NEW d \in Nat \ {0}, 0 <= r, r < d
    PROVE  (d * q + r) \div d = q /\ (d * q + r) % d = r
OBVIOUS

\* Distinct multiples of d are at least d apart.
LEMMA Multiples ==
    ASSUME NEW q \in Int, NEW p \in Int, NEW d \in Nat \ {0}, q > p
    PROVE  d * q >= d * p + d
<1>1. q - p >= 1
  OBVIOUS
<1>2. d * (q - p) >= d
  BY <1>1
<1>3. d * (q - p) = d * q - d * p
  OBVIOUS
<1>4. d * q \in Int /\ d * p \in Int
  OBVIOUS
<1>5. QED
  BY <1>2, <1>3, <1>4

\* Numbers that differ by whole windows have the same remainder.
LEMMA Congruent ==
    ASSUME NEW a \in Int, NEW b \in Int, NEW k \in Int, NEW d \in Nat \ {0},
           a = d * k + b
    PROVE  a % d = b % d
<1> DEFINE q == b \div d
           r == b % d
<1>1. q \in Int /\ r \in 0..(d - 1) /\ b = d * q + r
  BY Division
<1> HIDE DEF q, r
<1>2. d * (k + q) = d * k + d * q
  BY <1>1
<1>3. d * k \in Int /\ d * q \in Int /\ k + q \in Int
  BY <1>1
<1>4. a = d * (k + q) + r
  BY <1>1, <1>2, <1>3
<1>5. a % d = r
  BY <1>1, <1>3, <1>4, Quotient
<1>6. QED
  BY <1>5 DEF r

\* Remainders may be subtracted, and numbers added, before or after reducing.
LEMMA Remainders ==
    ASSUME NEW a \in Int, NEW b \in Int, NEW d \in Nat \ {0}
    PROVE  /\ (a % d) % d = a % d
           /\ ((a % d) - (b % d)) % d = (a - b) % d
           /\ ((a % d) + b) % d = (a + b) % d
<1> DEFINE q == a \div d
           r == a % d
           p == b \div d
           s == b % d
           k == p - q
           l == -q
<1>1. q \in Int /\ r \in 0..(d - 1) /\ a = d * q + r
  BY Division
<1>2. p \in Int /\ s \in 0..(d - 1) /\ b = d * p + s
  BY Division
<1> HIDE DEF q, r, p, s
<1>3. k \in Int /\ l \in Int /\ d * q \in Int /\ d * p \in Int
      /\ d * k = d * p - d * q /\ d * l = -(d * q)
  BY <1>1, <1>2
<1> HIDE DEF k, l
<1> DEFINE difference == r - s
           expected == a - b
           sum == r + b
           total == a + b
<1>4. difference \in Int /\ expected \in Int /\ difference = d * k + expected
  BY ONLY <1>1, <1>2, <1>3, d \in Nat \ {0}, a \in Int, b \in Int
<1>5. /\ sum \in Int /\ total \in Int /\ sum = d * l + total
      /\ r \in Int /\ r = d * l + a
  BY ONLY <1>1, <1>3, d \in Nat \ {0}, a \in Int, b \in Int
<1> HIDE DEF difference, expected, sum, total
<1>6. difference % d = expected % d
  BY <1>3, <1>4, Congruent
<1>7. sum % d = total % d /\ r % d = a % d
  BY <1>3, <1>5, Congruent
<1>8. QED
  BY <1>6, <1>7 DEF r, s, difference, expected, sum, total

\* The nearest of three candidates d apart is the one within half of d.
LEMMA NearestWithinHalf ==
    ASSUME NEW base \in Int, NEW d \in Nat \ {0}, NEW ref \in Int, NEW t \in Int,
           t \in {base - d, base, base + d}, 2 * (ref - t) < d, 2 * (t - ref) < d
    PROVE  Nearest(base - d, base, base + d, ref) = t
BY DEF Nearest, Distance

\* expand_near recovers the absolute time a timestamp was cut from whenever it
\* lies less than half a wrap window from the reference.
LEMMA ExpandRecovers ==
    ASSUME NEW t \in Int, NEW ref \in Int, 2 * Distance(t, ref) < Wrap
    PROVE  ExpandNs(t % Wrap, ref) = t
<1> DEFINE q == t \div Wrap
           r == t % Wrap
           p == ref \div Wrap
           s == ref % Wrap
           base == p * Wrap + r
<1>1. Wrap \in Nat \ {0}
  BY TimeAssumption
<1>2. q \in Int /\ r \in 0..(Wrap - 1) /\ t = Wrap * q + r
  BY <1>1, Division
<1>3. p \in Int /\ s \in 0..(Wrap - 1) /\ ref = Wrap * p + s
  BY <1>1, Division
<1> HIDE DEF q, r, p, s
<1>4. Wrap * p \in Int /\ Wrap * q \in Int /\ p * Wrap = Wrap * p
  BY <1>1, <1>2, <1>3
<1>5. 2 * (ref - t) < Wrap /\ 2 * (t - ref) < Wrap
  BY <1>1 DEF Distance
<1>6. q \in {p - 1, p, p + 1}
  <2>1. ~ (q > p + 1)
    <3> SUFFICES ASSUME q > p + 1 PROVE FALSE
      OBVIOUS
    <3>1. Wrap * q >= Wrap * (p + 1) + Wrap
      BY <1>1, <1>2, <1>3, Multiples
    <3>2. Wrap * (p + 1) = Wrap * p + Wrap
      BY <1>1, <1>3
    <3>3. QED
      BY <1>1, <1>2, <1>3, <1>4, <1>5, <3>1, <3>2
  <2>2. ~ (p > q + 1)
    <3> SUFFICES ASSUME p > q + 1 PROVE FALSE
      OBVIOUS
    <3>1. Wrap * p >= Wrap * (q + 1) + Wrap
      BY <1>1, <1>2, <1>3, Multiples
    <3>2. Wrap * (q + 1) = Wrap * q + Wrap
      BY <1>1, <1>2
    <3>3. QED
      BY <1>1, <1>2, <1>3, <1>4, <1>5, <3>1, <3>2
  <2>3. QED
    BY <1>2, <1>3, <2>1, <2>2
<1>7. base \in Int /\ t \in {base - Wrap, base, base + Wrap}
  <2>1. CASE q = p - 1
    <3>1. Wrap * q = Wrap * p - Wrap
      BY <1>1, <1>3, <2>1
    <3>2. QED
      BY <1>1, <1>2, <1>4, <3>1
  <2>2. CASE q = p
    BY <1>1, <1>2, <1>4, <2>2
  <2>3. CASE q = p + 1
    <3>1. Wrap * q = Wrap * p + Wrap
      BY <1>1, <1>3, <2>3
    <3>2. QED
      BY <1>1, <1>2, <1>4, <3>1
  <2>4. QED
    BY <1>6, <2>1, <2>2, <2>3
<1> HIDE DEF base
<1>8. Nearest(base - Wrap, base, base + Wrap, ref) = t
  BY ONLY <1>1, <1>2, <1>5, <1>7, ref \in Int, NearestWithinHalf
<1>9. ExpandNs(r, ref) = Nearest(base - Wrap, base, base + Wrap, ref)
  BY DEF ExpandNs, base, p
<1>10. QED
  BY <1>8, <1>9 DEF r

-----------------------------------------------------------------------------
(* Sequences *)

\* r has the elements of s, some of them perhaps not and some again, in their order.
Follows(r, s) ==
    \E f \in [DOMAIN r -> DOMAIN s] :
        /\ \A j \in DOMAIN r : r[j] = s[f[j]]
        /\ \A i, j \in DOMAIN r : i <= j => f[i] <= f[j]

LEMMA TailFollows ==
    ASSUME NEW S, NEW s \in Seq(S), s # <<>>
    PROVE  /\ Tail(s) \in Seq(S) /\ Follows(Tail(s), s)
           /\ Head(s) = s[1] /\ 1 \in DOMAIN s
<1> DEFINE f == [j \in DOMAIN Tail(s) |-> j + 1]
<1>1. /\ Tail(s) \in Seq(S) /\ Len(s) \in Nat /\ Len(s) > 0 /\ DOMAIN s = 1..Len(s)
      /\ Len(Tail(s)) = Len(s) - 1 /\ DOMAIN Tail(s) = 1..(Len(s) - 1)
      /\ \A j \in 1..(Len(s) - 1) : Tail(s)[j] = s[j + 1]
  OBVIOUS
<1>2. /\ f \in [DOMAIN Tail(s) -> DOMAIN s]
      /\ \A j \in DOMAIN Tail(s) : Tail(s)[j] = s[f[j]]
      /\ \A i, j \in DOMAIN Tail(s) : i <= j => f[i] <= f[j]
  BY <1>1
<1> HIDE DEF f
<1>3. Follows(Tail(s), s)
  BY <1>2 DEF Follows
<1>4. QED
  BY <1>1, <1>3

\* A sequence up to i, and its end from j on.
Splice(s, i, j) == SubSeq(s, 1, i) \o SubSeq(s, j, Len(s))

LEMMA Joined ==
    ASSUME NEW S, NEW s \in Seq(S), NEW i \in 0..Len(s), NEW j \in 1..(Len(s) + 1), j <= i + 2
    PROVE  /\ Splice(s, i, j) \in Seq(S) /\ Len(Splice(s, i, j)) = i + Len(s) + 1 - j
           /\ \A k \in 1..Len(Splice(s, i, j)) :
                  Splice(s, i, j)[k] = s[IF k <= i THEN k ELSE k - i + j - 1]
<1> DEFINE r == Splice(s, i, j)
           front == SubSeq(s, 1, i)
           back == SubSeq(s, j, Len(s))
           joined == front \o back
<1>1. Len(s) \in Nat /\ DOMAIN s = 1..Len(s)
  OBVIOUS
<1>2. /\ front \in Seq(S) /\ Len(front) = i
      /\ \A k \in 1..i : front[k] = s[k]
  BY <1>1
<1>3. /\ back \in Seq(S) /\ Len(back) = Len(s) + 1 - j
      /\ \A k \in 1..(Len(s) + 1 - j) : back[k] = s[k + j - 1]
  BY <1>1
<1>6. r = joined
  BY DEF Splice
<1> HIDE DEF r
<1> HIDE DEF front, back
<1>4. /\ joined \in Seq(S) /\ Len(joined) = Len(front) + Len(back)
      /\ \A k \in 1..(Len(front) + Len(back)) :
             joined[k] = IF k <= Len(front) THEN front[k] ELSE back[k - Len(front)]
  BY <1>2, <1>3, ConcatProperties
<1> HIDE DEF joined
<1> DEFINE n == i + (Len(s) + 1 - j)
<1>8. /\ n \in Nat /\ Len(r) = n /\ r \in Seq(S)
      /\ \A k \in 1..n : r[k] = IF k <= i THEN front[k] ELSE back[k - i]
  BY ONLY <1>1, <1>2, <1>3, <1>4, <1>6, i \in 0..Len(s), j \in 1..(Len(s) + 1)
<1>5. ASSUME NEW k \in 1..Len(r)
      PROVE  r[k] = s[IF k <= i THEN k ELSE k - i + j - 1]
  <2>1. CASE k <= i
    <3>1. r[k] = front[k] /\ k \in 1..i
      BY <1>8, <2>1
    <3>2. QED
      BY <1>2, <2>1, <3>1
  <2>2. CASE ~(k <= i)
    <3>1. r[k] = back[k - i] /\ k - i \in 1..(Len(s) + 1 - j)
      BY ONLY <1>1, <1>8, <2>2, k \in 1..Len(r), i \in 0..Len(s), j \in 1..(Len(s) + 1)
    <3>2. back[k - i] = s[(k - i) + j - 1]
      BY <1>3, <3>1
    <3>3. QED
      BY <2>2, <3>1, <3>2
  <2>3. QED
    BY <2>1, <2>2
<1>7. /\ r \in Seq(S) /\ Len(r) = i + Len(s) + 1 - j
      /\ \A k \in 1..Len(r) : r[k] = s[IF k <= i THEN k ELSE k - i + j - 1]
  BY ONLY <1>1, <1>5, <1>8, i \in 0..Len(s), j \in 1..(Len(s) + 1)
<1>9. QED
  BY ONLY <1>7 DEF r

LEMMA RemovingFollows ==
    ASSUME NEW S, NEW s \in Seq(S), NEW i \in DOMAIN s
    PROVE  RemoveAt(s, i) \in Seq(S) /\ Follows(RemoveAt(s, i), s)
<1> DEFINE r == RemoveAt(s, i)
           a == i - 1
           b == i + 1
           f == [k \in DOMAIN r |-> IF k <= a THEN k ELSE k - a + b - 1]
<1>1. Len(s) \in Nat /\ DOMAIN s = 1..Len(s) /\ i \in 1..Len(s)
  OBVIOUS
<1>2. a \in 0..Len(s) /\ b \in 1..(Len(s) + 1) /\ b <= a + 2 /\ b = a + 2
  BY <1>1
<1>3. r = Splice(s, a, b)
  BY DEF RemoveAt, Splice
<1> HIDE DEF r, a, b
<1>4. /\ r \in Seq(S) /\ Len(r) = a + Len(s) + 1 - b
      /\ \A k \in 1..Len(r) : r[k] = s[IF k <= a THEN k ELSE k - a + b - 1]
  <2>1. s \in Seq(S) /\ a \in 0..Len(s) /\ b \in 1..(Len(s) + 1) /\ b <= a + 2
    BY <1>2
  <2>2. /\ Splice(s, a, b) \in Seq(S) /\ Len(Splice(s, a, b)) = a + Len(s) + 1 - b
        /\ \A k \in 1..Len(Splice(s, a, b)) :
               Splice(s, a, b)[k] = s[IF k <= a THEN k ELSE k - a + b - 1]
    BY ONLY <2>1, Joined
  <2>3. QED
    BY ONLY <1>3, <2>2
<1>5. DOMAIN r = 1..Len(r) /\ Len(r) = Len(s) - 1
  <2>1. DOMAIN r = 1..Len(r)
    BY <1>4
  <2>2. Len(r) = Len(s) - 1
    BY ONLY <1>1, <1>2, <1>4
  <2>3. QED
    BY <2>1, <2>2
<1>6. /\ f \in [DOMAIN r -> DOMAIN s]
      /\ \A k \in DOMAIN r : r[k] = s[f[k]]
      /\ \A k, l \in DOMAIN r : k <= l => f[k] <= f[l]
  <2>1. \A k \in DOMAIN r : f[k] = IF k <= a THEN k ELSE k - a + b - 1
    OBVIOUS
  <2>2. f \in [DOMAIN r -> DOMAIN s]
    BY ONLY <1>1, <1>2, <1>5
  <2>3. \A k \in DOMAIN r : r[k] = s[f[k]]
    BY <1>4, <1>5, <2>1
  <2>4. \A k, l \in DOMAIN r : k <= l => f[k] <= f[l]
    BY ONLY <1>1, <1>2, <1>5, <2>1
  <2>5. QED
    BY <2>2, <2>3, <2>4
<1> HIDE DEF f
<1>7. Follows(r, s)
  BY <1>6 DEF Follows
<1>8. QED
  BY <1>4, <1>7 DEF r

LEMMA CopyingFollows ==
    ASSUME NEW S, NEW s \in Seq(S), NEW i \in DOMAIN s
    PROVE  InsertAt(s, i, s[i]) \in Seq(S) /\ Follows(InsertAt(s, i, s[i]), s)
<1> DEFINE r == InsertAt(s, i, s[i])
           f == [k \in DOMAIN r |-> IF k <= i THEN k ELSE k - i + i - 1]
<1>1. Len(s) \in Nat /\ DOMAIN s = 1..Len(s) /\ i \in 1..Len(s) /\ s[i] \in S
  OBVIOUS
<1>2. SubSeq(s, 1, i - 1) \o <<s[i]>> = SubSeq(s, 1, i)
  <2>1. SubSeq(s, 1, i) = Append(SubSeq(s, 1, i - 1), s[i])
    BY <1>1
  <2>2. SubSeq(s, 1, i - 1) \in Seq(S)
    BY <1>1
  <2>3. QED
    BY <1>1, <2>1, <2>2, AppendIsConcat
<1>3. r = Splice(s, i, i)
  BY <1>2 DEF InsertAt, Splice
<1>4. i \in 0..Len(s) /\ i \in 1..(Len(s) + 1) /\ i <= i + 2
  BY <1>1
<1> HIDE DEF r
<1>5. /\ r \in Seq(S) /\ Len(r) = i + Len(s) + 1 - i
      /\ \A k \in 1..Len(r) : r[k] = s[IF k <= i THEN k ELSE k - i + i - 1]
  BY ONLY <1>3, <1>4, Joined, s \in Seq(S)
<1>6. DOMAIN r = 1..Len(r) /\ Len(r) = Len(s) + 1
  BY <1>1, <1>5
<1>7. /\ f \in [DOMAIN r -> DOMAIN s]
      /\ \A k \in DOMAIN r : r[k] = s[f[k]]
      /\ \A k, l \in DOMAIN r : k <= l => f[k] <= f[l]
  BY <1>1, <1>5, <1>6
<1> HIDE DEF f
<1>8. Follows(r, s)
  BY <1>7 DEF Follows
<1>9. QED
  BY <1>5, <1>8 DEF r

\* What follows a sequence has no new elements.
LEMMA NothingNew ==
    ASSUME NEW r, NEW s, Follows(r, s)
    PROVE  \A j \in DOMAIN r : \E k \in DOMAIN s : r[j] = s[k]
BY DEF Follows

\* What is left of a sequence after its head, or after one removal, holds nothing new.
LEMMA TailNothingNew ==
    ASSUME NEW S, NEW s \in Seq(S), s # <<>>
    PROVE  /\ Head(s) = s[1] /\ 1 \in DOMAIN s
           /\ \A j \in DOMAIN Tail(s) : \E k \in DOMAIN s : Tail(s)[j] = s[k]
<1>1. Follows(Tail(s), s) /\ Head(s) = s[1] /\ 1 \in DOMAIN s
  BY TailFollows
<1>2. QED
  BY <1>1, NothingNew

LEMMA RemovingNothingNew ==
    ASSUME NEW S, NEW s \in Seq(S), NEW i \in DOMAIN s
    PROVE  \A j \in DOMAIN RemoveAt(s, i) : \E k \in DOMAIN s : RemoveAt(s, i)[j] = s[k]
<1>1. Follows(RemoveAt(s, i), s)
  BY RemovingFollows
<1>2. QED
  BY <1>1, NothingNew

LEMMA CopyingNothingNew ==
    ASSUME NEW S, NEW s \in Seq(S), NEW i \in DOMAIN s
    PROVE  \A j \in DOMAIN InsertAt(s, i, s[i]) : \E k \in DOMAIN s : InsertAt(s, i, s[i])[j] = s[k]
<1>1. Follows(InsertAt(s, i, s[i]), s)
  BY CopyingFollows
<1>2. QED
  BY <1>1, NothingNew

\* Appending adds one element, behind the others.
LEMMA Appended ==
    ASSUME NEW S, NEW s \in Seq(S), NEW e \in S
    PROVE  /\ Append(s, e) \in Seq(S) /\ Len(Append(s, e)) = Len(s) + 1
           /\ DOMAIN Append(s, e) = 1..(Len(s) + 1)
           /\ \A k \in 1..Len(s) : Append(s, e)[k] = s[k]
           /\ Append(s, e)[Len(s) + 1] = e
BY AppendProperties

-----------------------------------------------------------------------------
(* Steps *)

\* What travels, and what is recorded of it.
data == <<now, wire, events, jitter_buf, presented, talker_records, talker_time>>

\* Only eight steps touch it; the others move the control of a thread.
LEMMA DataSteps ==
    ASSUME [Next]_vars
    PROVE  \/ UNCHANGED data
           \/ SendPacket \/ Receive \/ Collect \/ Present
           \/ SendForeign \/ Lose \/ Copy \/ Tick
<1>1. CASE UNCHANGED vars
  BY <1>1 DEF vars, mainVars, talkerVars, data
<1>2. CASE Main
  <2>1. CASE AwaitReady
    BY <2>1 DEF AwaitReady, receiverVars, data
  <2>2. CASE Collected
    BY <2>2 DEF Collected, talkerVars, data
  <2>3. CASE PollTalker
    BY <2>3 DEF PollTalker, talkerVars, data
  <2>4. CASE ReadClock
    BY <2>4 DEF ReadClock, talkerVars, data
  <2>5. CASE NoneReady
    BY <2>5 DEF NoneReady, talkerVars, data
  <2>6. CASE Check
    BY <2>6 DEF Check, talkerVars, data
  <2>7. CASE Analyze
    BY <2>7 DEF Analyze, talkerVars, data
  <2>8. CASE PresentFails
    BY <2>8 DEF PresentFails, talkerVars, data
  <2>9. QED
    BY <1>2, <2>1, <2>2, <2>3, <2>4, <2>5, <2>6, <2>7, <2>8 DEF Main
<1>3. CASE Receiver
  <2>1. CASE ReceiverOpens
    BY <2>1 DEF ReceiverOpens, talkerVars, mainVars, data
  <2>2. CASE ReceiverFails
    BY <2>2 DEF ReceiverFails, talkerVars, mainVars, data
  <2>3. QED
    BY <1>3, <2>1, <2>2 DEF Receiver
<1>4. CASE Talker
  <2>1. CASE TalkerOpens
    BY <2>1 DEF TalkerOpens, mainVars, data
  <2>2. CASE TalkerFinishes
    BY <2>2 DEF TalkerFinishes, mainVars, data
  <2>3. CASE TalkerFails
    BY <2>3 DEF TalkerFails, mainVars, data
  <2>4. QED
    BY <1>4, <2>1, <2>2, <2>3 DEF Talker
<1>5. QED
  BY <1>1, <1>2, <1>3, <1>4 DEF Next, Others

-----------------------------------------------------------------------------
(* Types *)

\* The types of the data and those of the threads' control.
DataTypes ==
    /\ now \in 0..MaxTime
    /\ talker_records \in Seq(Frames) /\ Len(talker_records) <= Packets
    /\ talker_time \in (Epoch - 1)..(PtpNow + Len(talker_records) - 1)
    /\ wire \in Seq(Frames) /\ events \in Seq(ReceivedFrames)
    /\ jitter_buf \in Seq(BufferedFrames) /\ presented \in Seq(Frames)

ThreadTypes ==
    /\ receiver \in {"open", "receive", "ended"}
    /\ ready \in {"empty", "ok", "error", "gone"}
    /\ talker \in {"absent", "open", "send", "ended"}
    /\ talker_channel \in {"empty", "records", "error", "gone"}
    /\ main \in {"wait", "collect", "poll", "clock", "present", "check", "analyze", "done"}
    /\ talker_result \in {"none", "records", "error"}
    /\ timed_out \in BOOLEAN
    /\ verdict \in {"none", "pass", "fail", "error"}

OtherTypes ==
    /\ current \in 0..PtpNow
    /\ disturbances \in [foreign : 0..MaxForeign, lost : 0..MaxLost, copies : 0..MaxCopies]

LEMMA Constants ==
    /\ Epoch \in Nat /\ Packets \in Nat /\ Pace \in Nat /\ Delay \in Nat /\ Lag \in Nat
    /\ SeqRange \in Nat \ {0} /\ Wrap \in Nat \ {0} /\ MaxTime \in Nat
BY TestAssumption, TimeAssumption DEF MaxTime, Deadline

\* The next packet and the time its talker's clock answers.
Packet == [kind |-> "ours", index |-> Sent + 1, seq_num |-> Sent % SeqRange,
           stamp |-> WrappingAdd(ClockTime % Wrap, Delay), due |-> ClockTime + Delay]

\* The stamp of a packet is its presentation time, cut.
LEMMA StampOf ==
    ASSUME NEW time \in Int
    PROVE  WrappingAdd(time % Wrap, Delay) = (time + Delay) % Wrap
<1>1. \A b \in Int : ((time % Wrap) + b) % Wrap = (time + b) % Wrap
  BY Constants, Remainders
<1>2. QED
  BY <1>1, Constants DEF WrappingAdd

LEMMA PacketFacts ==
    ASSUME DataTypes
    PROVE  /\ Packet \in Frames
           /\ ClockTime \in Epoch..(PtpNow + Sent)
           /\ talker_time < ClockTime /\ PtpNow <= ClockTime
           /\ Packet.stamp = Packet.due % Wrap
<1>1. /\ Sent \in Nat /\ now \in Nat /\ PtpNow \in Nat /\ PtpNow >= Epoch
      /\ talker_time \in (Epoch - 1)..(PtpNow + Sent - 1)
  BY Constants DEF DataTypes, Sent, PtpNow
<1>2. /\ ClockTime \in Epoch..(PtpNow + Sent)
      /\ talker_time < ClockTime /\ PtpNow <= ClockTime
  BY <1>1, Constants DEF ClockTime
<1>3. ClockTime \in Nat
  BY <1>2, Constants
<1>4. WrappingAdd(ClockTime % Wrap, Delay) = (ClockTime + Delay) % Wrap
  BY <1>3, StampOf
<1>5. (ClockTime + Delay) % Wrap \in Timestamps
  BY <1>3, Constants DEF Timestamps
<1>6. Sent % SeqRange \in 0..(SeqRange - 1)
  BY <1>1, Constants
<1>7. Packet \in Frames
  <2>1. ClockTime + Delay \in Nat /\ Sent + 1 \in Nat
    BY <1>1, <1>3, Constants
  <2>2. QED
    BY <1>4, <1>5, <1>6, <2>1 DEF Packet, Frames, Kinds
<1>8. QED
  BY <1>2, <1>4, <1>7 DEF Packet

\* Expanding a timestamp gives a number.
LEMMA ExpandType ==
    ASSUME NEW ts \in Timestamps, NEW ref \in Int
    PROVE  ExpandNs(ts, ref) \in Int
<1>1. ts \in Int /\ (ref \div Wrap) * Wrap \in Int
  BY Constants DEF Timestamps
<1>2. QED
  BY <1>1, Constants DEF ExpandNs, Nearest

LEMMA DataTypesKept ==
    ASSUME DataTypes, [Next]_vars
    PROVE  DataTypes'
<1>1. /\ now \in Nat /\ PtpNow \in Nat /\ Len(talker_records) \in Nat
  BY Constants DEF DataTypes, PtpNow
<1>2. CASE UNCHANGED data
  BY <1>2 DEF data, DataTypes, PtpNow
<1>3. CASE SendPacket
  <2>1. /\ wire' = Append(wire, Packet) /\ talker_records' = Append(talker_records, Packet)
        /\ talker_time' = ClockTime /\ Len(talker_records) < Packets
        /\ UNCHANGED <<now, events, jitter_buf, presented>>
    BY <1>3 DEF SendPacket, Packet, Sent, mainVars
  <2>2. Packet \in Frames /\ ClockTime \in Epoch..(PtpNow + Len(talker_records))
    BY PacketFacts DEF Sent
  <2>3. /\ wire' \in Seq(Frames) /\ talker_records' \in Seq(Frames)
        /\ Len(talker_records') = Len(talker_records) + 1
    BY <2>1, <2>2, Appended DEF DataTypes
  <2>4. talker_time' \in (Epoch - 1)..(PtpNow' + Len(talker_records') - 1)
    BY <1>1, <2>1, <2>2, <2>3, Constants DEF PtpNow
  <2>5. QED
    BY <1>1, <2>1, <2>3, <2>4, Constants DEF DataTypes
<1>4. CASE Receive
  <2>1. /\ wire # <<>> /\ wire' = Tail(wire)
        /\ UNCHANGED <<now, jitter_buf, presented, talker_records, talker_time>>
        /\ events' = IF Head(wire).kind = "ours"
                     THEN Append(events, [frame |-> Head(wire), received |-> PtpNow])
                     ELSE events
    BY <1>4 DEF Receive, talkerVars, mainVars
  <2>2. wire' \in Seq(Frames) /\ Head(wire) \in Frames
    BY <2>1 DEF DataTypes
  <2>3. events' \in Seq(ReceivedFrames)
    <3>1. [frame |-> Head(wire), received |-> PtpNow] \in ReceivedFrames
      BY <1>1, <2>2 DEF ReceivedFrames
    <3>2. QED
      BY <2>1, <3>1 DEF DataTypes
  <2>4. QED
    BY <2>1, <2>2, <2>3 DEF DataTypes, PtpNow
<1>5. CASE Collect
  <2> DEFINE event == Head(events)
             entry == [presentation_time |-> ExpandNs(event.frame.stamp, event.received),
                       frame |-> event.frame]
  <2>1. /\ events # <<>> /\ events' = Tail(events)
        /\ jitter_buf' = Append(jitter_buf, entry)
        /\ UNCHANGED <<now, wire, presented, talker_records, talker_time>>
    BY <1>5 DEF Collect, talkerVars
  <2>2. events' \in Seq(ReceivedFrames) /\ event \in ReceivedFrames
    BY <2>1 DEF DataTypes
  <2>3. event.frame \in Frames /\ event.frame.stamp \in Timestamps /\ event.received \in Int
    BY <2>2 DEF ReceivedFrames, Frames
  <2> HIDE DEF event
  <2>4. entry \in BufferedFrames
    BY <2>3, ExpandType DEF BufferedFrames
  <2> HIDE DEF entry
  <2>5. QED
    BY <2>1, <2>2, <2>4 DEF DataTypes, PtpNow
<1>6. CASE Present
  <2>1. PICK k \in DOMAIN jitter_buf :
            /\ presented' = Append(presented, jitter_buf[k].frame)
            /\ jitter_buf' = RemoveAt(jitter_buf, k)
            /\ UNCHANGED <<now, wire, events, talker_records, talker_time>>
    BY <1>6 DEF Present, Tops, talkerVars
  <2>2. jitter_buf[k].frame \in Frames
    <3>1. jitter_buf[k] \in BufferedFrames
      BY <2>1 DEF DataTypes
    <3>2. QED
      BY <3>1 DEF BufferedFrames
  <2>3. jitter_buf' \in Seq(BufferedFrames)
    BY <2>1, RemovingFollows DEF DataTypes
  <2>4. presented' \in Seq(Frames)
    BY <2>1, <2>2 DEF DataTypes
  <2>5. QED
    BY <2>1, <2>3, <2>4 DEF DataTypes, PtpNow
<1>7. CASE SendForeign
  <2>1. PICK kind \in Kinds \ {"ours"} : wire' = Append(wire, [NoFrame EXCEPT !.kind = kind])
    BY <1>7 DEF SendForeign
  <2>2. UNCHANGED <<now, events, jitter_buf, presented, talker_records, talker_time>>
    BY <1>7 DEF SendForeign, talkerVars, mainVars
  <2>3. [NoFrame EXCEPT !.kind = kind] \in Frames
    BY Constants DEF NoFrame, Frames, Kinds, Timestamps
  <2>4. wire' \in Seq(Frames)
    BY <2>1, <2>3 DEF DataTypes
  <2>5. QED
    BY <2>2, <2>4 DEF DataTypes, PtpNow
<1>8. CASE Lose \/ Copy
  <2>1. UNCHANGED <<now, events, jitter_buf, presented, talker_records, talker_time>>
    BY <1>8 DEF Lose, Copy, talkerVars, mainVars
  <2>2. PICK k \in DOMAIN wire : wire' = RemoveAt(wire, k) \/ wire' = InsertAt(wire, k, wire[k])
    BY <1>8 DEF Lose, Copy
  <2>3. wire' \in Seq(Frames)
    BY <2>2, RemovingFollows, CopyingFollows DEF DataTypes
  <2>4. QED
    BY <2>1, <2>3 DEF DataTypes, PtpNow
<1>9. CASE Tick
  <2>1. /\ now < MaxTime /\ now' = now + 1
        /\ UNCHANGED <<wire, events, jitter_buf, presented, talker_records, talker_time>>
    BY <1>9 DEF Tick, talkerVars, mainVars
  <2>2. QED
    BY <1>1, <2>1, Constants DEF DataTypes, PtpNow
<1>10. QED
  BY <1>2, <1>3, <1>4, <1>5, <1>6, <1>7, <1>8, <1>9, DataSteps

LEMMA ThreadTypesKept ==
    ASSUME ThreadTypes, [Next]_vars
    PROVE  ThreadTypes'
<1>1. CASE UNCHANGED vars
  BY <1>1 DEF vars, receiverVars, mainVars, talkerVars, ThreadTypes
<1>2. CASE Main
  BY <1>2 DEF Main, AwaitReady, Collect, Collected, PollTalker, ReadClock, Present,
              PresentFails, NoneReady,
              Check, Analyze, Report, Finish, receiverVars, talkerVars, ThreadTypes, Drained, Late
<1>3. CASE Receiver
  BY <1>3 DEF Receiver, ReceiverOpens, Receive, ReceiverFails, talkerVars, mainVars, ThreadTypes
<1>4. CASE Talker
  BY <1>4 DEF Talker, TalkerOpens, SendPacket, TalkerFinishes, TalkerFails, Ends, receiverVars,
              mainVars, ThreadTypes
<1>5. CASE SendForeign \/ Lose \/ Copy \/ Tick
  BY <1>5 DEF SendForeign, Lose, Copy, Tick, receiverVars, talkerVars, mainVars, ThreadTypes
<1>6. QED
  BY <1>1, <1>2, <1>3, <1>4, <1>5 DEF Next, Others

LEMMA OtherTypesKept ==
    ASSUME DataTypes, OtherTypes, [Next]_vars
    PROVE  OtherTypes'
<1>1. now \in Nat /\ PtpNow \in Nat
  BY Constants DEF DataTypes, PtpNow
<1>2. \/ UNCHANGED current /\ (UNCHANGED now \/ now' = now + 1)
      \/ current' = PtpNow /\ UNCHANGED now
  <2>1. CASE UNCHANGED vars
    BY <2>1 DEF vars, mainVars
  <2>2. CASE Main
    BY <2>2 DEF Main, AwaitReady, Collect, Collected, PollTalker, ReadClock, Present,
                PresentFails, NoneReady,
                Check, Analyze
  <2>3. CASE Receiver
    BY <2>3 DEF Receiver, ReceiverOpens, Receive, ReceiverFails, mainVars
  <2>4. CASE Talker
    BY <2>4 DEF Talker, TalkerOpens, SendPacket, TalkerFinishes, TalkerFails, mainVars
  <2>5. CASE SendForeign \/ Lose \/ Copy \/ Tick
    BY <2>5 DEF SendForeign, Lose, Copy, Tick, mainVars
  <2>6. QED
    BY <2>1, <2>2, <2>3, <2>4, <2>5 DEF Next, Others
<1>3. current' \in 0..PtpNow'
  BY <1>1, <1>2, Constants DEF OtherTypes, PtpNow
<1>4. \/ UNCHANGED disturbances
      \/ /\ disturbances.foreign < MaxForeign
         /\ disturbances' = [disturbances EXCEPT !.foreign = @ + 1]
      \/ /\ disturbances.lost < MaxLost
         /\ disturbances' = [disturbances EXCEPT !.lost = @ + 1]
      \/ /\ disturbances.copies < MaxCopies
         /\ disturbances' = [disturbances EXCEPT !.copies = @ + 1]
  <2>1. CASE UNCHANGED vars
    BY <2>1 DEF vars
  <2>2. CASE Main
    BY <2>2 DEF Main, AwaitReady, Collect, Collected, PollTalker, ReadClock, Present,
                PresentFails, NoneReady,
                Check, Analyze
  <2>3. CASE Receiver
    BY <2>3 DEF Receiver, ReceiverOpens, Receive, ReceiverFails
  <2>4. CASE Talker
    BY <2>4 DEF Talker, TalkerOpens, SendPacket, TalkerFinishes, TalkerFails
  <2>5. CASE SendForeign \/ Lose \/ Copy \/ Tick
    BY <2>5 DEF SendForeign, Lose, Copy, Tick
  <2>6. QED
    BY <2>1, <2>2, <2>3, <2>4, <2>5 DEF Next, Others
<1>5. disturbances' \in [foreign : 0..MaxForeign, lost : 0..MaxLost, copies : 0..MaxCopies]
  BY <1>4, TestAssumption DEF OtherTypes
<1>6. QED
  BY <1>3, <1>5 DEF OtherTypes

LEMMA TypeParts == TypeOK <=> DataTypes /\ ThreadTypes /\ OtherTypes
BY DEF TypeOK, DataTypes, ThreadTypes, OtherTypes

LEMMA InitTypes == Init => TypeOK
<1> SUFFICES ASSUME Init PROVE TypeOK
  OBVIOUS
<1>1. PtpNow = Epoch /\ Len(talker_records) = 0
  BY Constants DEF Init, PtpNow
<1>2. DataTypes
  BY <1>1, Constants DEF Init, DataTypes
<1>3. ThreadTypes
  BY DEF Init, ThreadTypes
<1>4. OtherTypes
  BY <1>1, Constants, TestAssumption DEF Init, OtherTypes
<1>5. QED
  BY <1>2, <1>3, <1>4, TypeParts

LEMMA TypesKept ==
    ASSUME TypeOK, [Next]_vars
    PROVE  TypeOK'
<1>1. DataTypes' /\ ThreadTypes' /\ OtherTypes'
  BY TypeParts, DataTypesKept, ThreadTypesKept, OtherTypesKept
<1>2. QED
  BY <1>1 DEF TypeOK, DataTypes, ThreadTypes, OtherTypes

\* Every variable keeps its type; the clock of the talker never runs ahead by more than the
\* packets it has sent.
THEOREM TypeCorrect == Spec => []TypeOK
BY InitTypes, TypesKept, PTL DEF Spec

-----------------------------------------------------------------------------
(* What travels was sent *)

\* The records are numbered, their presentation times grow and are those of the stamps.
Recorded ==
    \A k \in 1..Sent :
        /\ talker_records[k].kind = "ours" /\ talker_records[k].index = k
        /\ talker_records[k].seq_num = (k - 1) % SeqRange
        /\ talker_records[k].stamp = talker_records[k].due % Wrap
        /\ talker_records[k].due - Delay \in Epoch..talker_time
        /\ \A l \in 1..Sent : l < k => talker_records[l].due < talker_records[k].due

\* A frame of the talker, unchanged.
Genuine(frame) == frame.index \in 1..Sent /\ frame = talker_records[frame.index]

GenuineEverywhere ==
    /\ \A k \in DOMAIN wire : wire[k].kind = "ours" => Genuine(wire[k])
    /\ \A k \in DOMAIN events : Genuine(events[k].frame)
    /\ \A k \in DOMAIN jitter_buf : Genuine(jitter_buf[k].frame)
    /\ \A k \in DOMAIN presented : Genuine(presented[k])

LEMMA RecordedKept ==
    ASSUME DataTypes, Recorded, [Next]_vars
    PROVE  Recorded'
<1>1. CASE UNCHANGED <<talker_records, talker_time>>
  BY <1>1 DEF Recorded, Sent
<1>2. CASE SendPacket
  <2>1. talker_records' = Append(talker_records, Packet) /\ talker_time' = ClockTime
    BY <1>2 DEF SendPacket, Packet
  <2>2. /\ Sent \in Nat /\ Sent' = Sent + 1
        /\ \A k \in 1..Sent : talker_records'[k] = talker_records[k]
        /\ talker_records'[Sent + 1] = Packet
    BY <2>1, PacketFacts, Appended DEF DataTypes, Sent
  <2>3. ClockTime \in Int /\ talker_time \in Int /\ talker_time < ClockTime /\ Epoch <= ClockTime
    <3>1. Sent \in Nat /\ PtpNow \in Nat
      BY <2>2, Constants DEF DataTypes, PtpNow
    <3>2. QED
      BY <3>1, PacketFacts, Constants DEF DataTypes
  <2>4. /\ Packet.kind = "ours" /\ Packet.index = Sent + 1 /\ Packet.seq_num = Sent % SeqRange
        /\ Packet.due = ClockTime + Delay /\ Packet.stamp = Packet.due % Wrap
    BY PacketFacts DEF Packet
  <2>5. \A k \in 1..Sent : talker_records[k].due \in Nat
    <3>1. \A k \in 1..Sent : talker_records[k] \in Frames
      BY DEF DataTypes, Sent
    <3>2. QED
      BY <3>1 DEF Frames
  <2>6. ASSUME NEW k \in 1..Sent
        PROVE  /\ talker_records[k].due - Delay \in Epoch..ClockTime
               /\ talker_records[k].due < Packet.due
    <3>1. talker_records[k].due - Delay \in Epoch..talker_time
      BY DEF Recorded
    <3>2. QED
      BY <2>3, <2>4, <2>5, <3>1, Constants
  <2>7. ASSUME NEW k \in 1..(Sent + 1)
        PROVE  /\ talker_records'[k].kind = "ours" /\ talker_records'[k].index = k
               /\ talker_records'[k].seq_num = (k - 1) % SeqRange
               /\ talker_records'[k].stamp = talker_records'[k].due % Wrap
               /\ talker_records'[k].due - Delay \in Epoch..talker_time'
               /\ \A l \in 1..(Sent + 1) : l < k => talker_records'[l].due < talker_records'[k].due
    <3>1. CASE k = Sent + 1
      <4>1. Packet.due - Delay \in Epoch..talker_time'
        BY <2>1, <2>3, <2>4, Constants
      <4>2. \A l \in 1..(Sent + 1) : l < k => talker_records'[l].due < Packet.due
        BY <2>2, <2>6, <3>1
      <4>3. (Sent + 1) - 1 = Sent
        BY <2>2
      <4>4. QED
        BY <2>2, <2>4, <3>1, <4>1, <4>2, <4>3
    <3>2. CASE k \in 1..Sent
      <4>1. talker_records'[k] = talker_records[k]
        BY <2>2, <3>2
      <4>2. \A l \in 1..(Sent + 1) : l < k => talker_records'[l].due < talker_records[k].due
        <5>1. \A l \in 1..(Sent + 1) : l < k => l \in 1..Sent /\ talker_records'[l] = talker_records[l]
          BY <2>2, <3>2
        <5>2. QED
          BY <3>2, <5>1 DEF Recorded
      <4>3. talker_records[k].due - Delay \in Epoch..talker_time'
        BY <2>1, <2>6, <3>2
      <4>4. /\ talker_records[k].kind = "ours" /\ talker_records[k].index = k
            /\ talker_records[k].seq_num = (k - 1) % SeqRange
            /\ talker_records[k].stamp = talker_records[k].due % Wrap
        BY <3>2 DEF Recorded
      <4>5. QED
        BY <4>1, <4>2, <4>3, <4>4
    <3>3. QED
      BY <2>2, <3>1, <3>2
  <2>8. QED
    BY <2>2, <2>7 DEF Recorded
<1>3. ~SendPacket => UNCHANGED <<talker_records, talker_time>>
  BY DataSteps DEF data, Receive, Collect, Present, SendForeign, Lose, Copy, Tick,
                   talkerVars
<1>4. QED
  BY <1>1, <1>2, <1>3

\* A frame that was the talker's remains so.
LEMMA GenuineKept ==
    ASSUME DataTypes, [Next]_vars, NEW frame, Genuine(frame)
    PROVE  frame.index \in 1..Sent' /\ frame = talker_records'[frame.index]
<1>1. CASE UNCHANGED talker_records
  BY <1>1 DEF Genuine, Sent
<1>2. CASE SendPacket
  <2>1. talker_records' = Append(talker_records, Packet)
    BY <1>2 DEF SendPacket, Packet
  <2>2. /\ Sent \in Nat /\ Sent' = Sent + 1
        /\ \A k \in 1..Sent : talker_records'[k] = talker_records[k]
    BY <2>1, PacketFacts, Appended DEF DataTypes, Sent
  <2>3. QED
    BY <2>2 DEF Genuine
<1>3. ~SendPacket => UNCHANGED talker_records
  BY DataSteps DEF data, Receive, Collect, Present, SendForeign, Lose, Copy, Tick, talkerVars
<1>4. QED
  BY <1>1, <1>2, <1>3

\* Where the frames of each stage come from.
LEMMA Sources ==
    ASSUME DataTypes, [Next]_vars
    PROVE  /\ \A j \in DOMAIN wire' : \/ \E k \in DOMAIN wire : wire'[j] = wire[k]
                                      \/ SendPacket /\ wire'[j] = Packet
                                      \/ wire'[j].kind # "ours"
           /\ \A j \in DOMAIN events' :
                  \/ \E k \in DOMAIN events : events'[j] = events[k]
                  \/ \E k \in DOMAIN wire :
                         /\ Receive /\ wire[k].kind = "ours" /\ events'[j].frame = wire[k]
                         /\ events'[j].received = PtpNow
           /\ \A j \in DOMAIN jitter_buf' :
                  \/ \E k \in DOMAIN jitter_buf : jitter_buf'[j] = jitter_buf[k]
                  \/ \E k \in DOMAIN events :
                         /\ jitter_buf'[j].frame = events[k].frame
                         /\ jitter_buf'[j].presentation_time
                              = ExpandNs(events[k].frame.stamp, events[k].received)
           /\ \A j \in DOMAIN presented' :
                  \/ \E k \in DOMAIN presented : presented'[j] = presented[k]
                  \/ \E k \in DOMAIN jitter_buf : presented'[j] = jitter_buf[k].frame
<1>1. CASE UNCHANGED data \/ Tick
  BY <1>1 DEF data, Tick, talkerVars, mainVars
<1>2. CASE SendPacket
  <2>1. wire' = Append(wire, Packet) /\ UNCHANGED <<events, jitter_buf, presented>>
    BY <1>2 DEF SendPacket, Packet, mainVars
  <2>2. \A j \in DOMAIN wire' : wire'[j] = Packet \/ \E k \in DOMAIN wire : wire'[j] = wire[k]
    BY <2>1, PacketFacts DEF DataTypes
  <2>3. QED
    BY <1>2, <2>1, <2>2
<1>3. CASE Receive
  <2>1. wire # <<>> /\ wire' = Tail(wire) /\ UNCHANGED <<jitter_buf, presented>>
    BY <1>3 DEF Receive, mainVars
  <2>2. /\ Head(wire) = wire[1] /\ 1 \in DOMAIN wire
        /\ \A j \in DOMAIN wire' : \E k \in DOMAIN wire : wire'[j] = wire[k]
    <3>1. wire \in Seq(Frames)
      BY DEF DataTypes
    <3>2. /\ Head(wire) = wire[1] /\ 1 \in DOMAIN wire
          /\ \A j \in DOMAIN Tail(wire) : \E k \in DOMAIN wire : Tail(wire)[j] = wire[k]
      BY ONLY <2>1, <3>1, TailNothingNew
    <3>3. QED
      BY ONLY <2>1, <3>2
  <2> DEFINE event == [frame |-> wire[1], received |-> PtpNow]
  <2>3. \/ UNCHANGED events
        \/ wire[1].kind = "ours" /\ events' = Append(events, event)
    BY <1>3, <2>2 DEF Receive
  <2>4. event.frame = wire[1] /\ event.received = PtpNow /\ event \in ReceivedFrames
    <3>1. wire[1] \in Frames /\ PtpNow \in Nat
      BY <2>2, Constants DEF DataTypes, PtpNow
    <3>2. QED
      BY <3>1 DEF ReceivedFrames
  <2> HIDE DEF event
  <2>5. \/ UNCHANGED events
        \/ /\ wire[1].kind = "ours"
           /\ \A j \in DOMAIN events' :
                  events'[j] = event \/ \E k \in DOMAIN events : events'[j] = events[k]
    <3>1. CASE events' = Append(events, event)
      BY <2>3, <2>4, <3>1 DEF DataTypes
    <3>2. QED
      BY <2>3, <3>1
  <2>6. QED
    BY <1>3, <2>1, <2>2, <2>4, <2>5
<1>4. CASE Collect
  <2>1. events # <<>> /\ events' = Tail(events) /\ UNCHANGED <<wire, presented>>
    BY <1>4 DEF Collect
  <2>2. /\ Head(events) = events[1] /\ 1 \in DOMAIN events
        /\ \A j \in DOMAIN events' : \E k \in DOMAIN events : events'[j] = events[k]
    <3>1. events \in Seq(ReceivedFrames)
      BY DEF DataTypes
    <3>2. /\ Head(events) = events[1] /\ 1 \in DOMAIN events
          /\ \A j \in DOMAIN Tail(events) : \E k \in DOMAIN events : Tail(events)[j] = events[k]
      BY ONLY <2>1, <3>1, TailNothingNew
    <3>3. QED
      BY ONLY <2>1, <3>2
  <2> DEFINE entry == [presentation_time |-> ExpandNs(events[1].frame.stamp, events[1].received),
                       frame |-> events[1].frame]
  <2>3. jitter_buf' = Append(jitter_buf, entry)
    BY <1>4, <2>2 DEF Collect
  <2>4. /\ entry.frame = events[1].frame
        /\ entry.presentation_time = ExpandNs(events[1].frame.stamp, events[1].received)
    OBVIOUS
  <2> HIDE DEF entry
  <2>5. \A j \in DOMAIN jitter_buf' :
            jitter_buf'[j] = entry \/ \E k \in DOMAIN jitter_buf : jitter_buf'[j] = jitter_buf[k]
    BY <2>3 DEF DataTypes
  <2>6. QED
    BY <2>1, <2>2, <2>4, <2>5
<1>5. CASE Present
  <2>1. PICK k \in DOMAIN jitter_buf :
            /\ presented' = Append(presented, jitter_buf[k].frame)
            /\ jitter_buf' = RemoveAt(jitter_buf, k)
            /\ UNCHANGED <<wire, events>>
    BY <1>5 DEF Present, Tops
  <2>2. \A j \in DOMAIN jitter_buf' : \E l \in DOMAIN jitter_buf : jitter_buf'[j] = jitter_buf[l]
    <3>1. jitter_buf \in Seq(BufferedFrames)
      BY DEF DataTypes
    <3>2. \A j \in DOMAIN RemoveAt(jitter_buf, k) :
              \E l \in DOMAIN jitter_buf : RemoveAt(jitter_buf, k)[j] = jitter_buf[l]
      BY ONLY <3>1, k \in DOMAIN jitter_buf, RemovingNothingNew
    <3>3. QED
      BY ONLY <2>1, <3>2
  <2>3. \A j \in DOMAIN presented' :
            \/ presented'[j] = jitter_buf[k].frame
            \/ \E l \in DOMAIN presented : presented'[j] = presented[l]
    BY <2>1 DEF DataTypes
  <2>4. QED
    BY <2>1, <2>2, <2>3
<1>6. CASE SendForeign
  <2>1. PICK kind \in Kinds \ {"ours"} : wire' = Append(wire, [NoFrame EXCEPT !.kind = kind])
    BY <1>6 DEF SendForeign
  <2>2. UNCHANGED <<events, jitter_buf, presented>>
    BY <1>6 DEF SendForeign, mainVars
  <2> DEFINE frame == [NoFrame EXCEPT !.kind = kind]
  <2>3. frame.kind # "ours"
    BY DEF NoFrame
  <2> HIDE DEF frame
  <2>4. \A j \in DOMAIN wire' : wire'[j] = frame \/ \E k \in DOMAIN wire : wire'[j] = wire[k]
    BY <2>1 DEF DataTypes, frame
  <2>5. QED
    BY <2>2, <2>3, <2>4
<1>7. CASE Lose \/ Copy
  <2>1. UNCHANGED <<events, jitter_buf, presented>>
    BY <1>7 DEF Lose, Copy, mainVars
  <2>2. PICK k \in DOMAIN wire : wire' = RemoveAt(wire, k) \/ wire' = InsertAt(wire, k, wire[k])
    BY <1>7 DEF Lose, Copy
  <2>3. \A j \in DOMAIN wire' : \E l \in DOMAIN wire : wire'[j] = wire[l]
    <3>1. wire \in Seq(Frames)
      BY DEF DataTypes
    <3>2. \A j \in DOMAIN RemoveAt(wire, k) : \E l \in DOMAIN wire : RemoveAt(wire, k)[j] = wire[l]
      BY ONLY <3>1, k \in DOMAIN wire, RemovingNothingNew
    <3>3. \A j \in DOMAIN InsertAt(wire, k, wire[k]) :
              \E l \in DOMAIN wire : InsertAt(wire, k, wire[k])[j] = wire[l]
      BY ONLY <3>1, k \in DOMAIN wire, CopyingNothingNew
    <3>4. QED
      BY ONLY <2>2, <3>2, <3>3
  <2>4. QED
    BY <2>1, <2>3
<1>8. QED
  BY <1>1, <1>2, <1>3, <1>4, <1>5, <1>6, <1>7, DataSteps

LEMMA GenuineEverywhereKept ==
    ASSUME DataTypes, GenuineEverywhere, [Next]_vars
    PROVE  GenuineEverywhere'
<1> DEFINE Still(frame) == frame.index \in 1..Sent' /\ frame = talker_records'[frame.index]
<1>1. \A frame : Genuine(frame) => Still(frame)
  BY GenuineKept
<1>2. SendPacket => Still(Packet)
  <2> SUFFICES ASSUME SendPacket PROVE Still(Packet)
    OBVIOUS
  <2>1. talker_records' = Append(talker_records, Packet)
    BY DEF SendPacket, Packet
  <2>2. Sent \in Nat /\ Sent' = Sent + 1 /\ talker_records'[Sent + 1] = Packet
    BY <2>1, PacketFacts, Appended DEF DataTypes, Sent
  <2>3. QED
    BY <2>2 DEF Packet
<1> HIDE DEF Still
<1>3. \A j \in DOMAIN wire' : wire'[j].kind = "ours" => Still(wire'[j])
  BY <1>1, <1>2, Sources DEF GenuineEverywhere
<1>4. \A j \in DOMAIN events' : Still(events'[j].frame)
  BY <1>1, Sources DEF GenuineEverywhere
<1>5. \A j \in DOMAIN jitter_buf' : Still(jitter_buf'[j].frame)
  BY <1>1, Sources DEF GenuineEverywhere
<1>6. \A j \in DOMAIN presented' : Still(presented'[j])
  BY <1>1, Sources DEF GenuineEverywhere
<1>7. QED
  BY <1>3, <1>4, <1>5, <1>6 DEF Still, Genuine, GenuineEverywhere

-----------------------------------------------------------------------------
(* The times *)

\* The playback delay, and how late a frame can be received, are within half a window of
\* timestamps: the receiver's expansion is right.
Window ==
    /\ 2 * (Delay + Packets) < Wrap
    /\ \E late \in {Lag, MaxTime} : 2 * (late - Delay) < Wrap

Expanded ==
    \A k \in DOMAIN jitter_buf :
        jitter_buf[k].presentation_time = jitter_buf[k].frame.due

InTime ==
    /\ \A k \in DOMAIN wire : wire[k].kind = "ours" => PtpNow <= wire[k].due - Delay + Lag
    /\ \A k \in DOMAIN events :
           /\ events[k].received <= events[k].frame.due - Delay + Lag
           /\ events[k].received <= Epoch + MaxTime
           /\ events[k].frame.due <= events[k].received + Delay + Packets
    /\ Expanded

\* The presentation time of a genuine frame.
LEMMA GenuineDue ==
    ASSUME DataTypes, Recorded, NEW frame, Genuine(frame)
    PROVE  /\ frame.due \in Nat /\ frame.due - Delay \in Epoch..(PtpNow + Sent - 1)
           /\ frame.stamp = frame.due % Wrap /\ frame.kind = "ours"
<1>1. frame \in Frames
  BY DEF Genuine, DataTypes, Sent
<1>2. frame.due \in Nat
  BY <1>1 DEF Frames
<1>3. frame.due - Delay \in Epoch..talker_time /\ frame.stamp = frame.due % Wrap /\ frame.kind = "ours"
  BY DEF Genuine, Recorded
<1>4. talker_time \in (Epoch - 1)..(PtpNow + Sent - 1) /\ PtpNow \in Nat /\ Sent \in Nat
  BY Constants DEF DataTypes, Sent, PtpNow
<1>5. QED
  BY <1>2, <1>3, <1>4, Constants

\* The receiver's clock is near enough to the presentation time of what it receives.
LEMMA ExpandsToDue ==
    ASSUME DataTypes, Recorded, GenuineEverywhere, InTime, Window, NEW k \in DOMAIN events
    PROVE  ExpandNs(events[k].frame.stamp, events[k].received) = events[k].frame.due
<1> DEFINE due == events[k].frame.due
           received == events[k].received
<1>1. due \in Nat /\ due - Delay >= Epoch /\ events[k].frame.stamp = due % Wrap
  <2>1. Genuine(events[k].frame)
    BY DEF GenuineEverywhere
  <2>2. PtpNow \in Nat /\ Sent \in Nat
    BY Constants DEF DataTypes, PtpNow, Sent
  <2>3. QED
    BY <2>1, <2>2, GenuineDue, Constants
<1>2. received \in Nat
  <2>1. events[k] \in ReceivedFrames
    BY DEF DataTypes
  <2>2. QED
    BY <2>1 DEF ReceivedFrames
<1>3. /\ received <= due - Delay + Lag /\ received <= Epoch + MaxTime
      /\ due <= received + Delay + Packets
  BY DEF InTime
<1> HIDE DEF due, received
<1>4. 2 * Distance(due, received) < Wrap
  BY <1>1, <1>2, <1>3, Constants DEF Window, Distance
<1>5. ExpandNs(due % Wrap, received) = due
  BY <1>1, <1>2, <1>4, ExpandRecovers
<1>6. QED
  BY <1>1, <1>5 DEF due, received

LEMMA InTimeKept ==
    ASSUME DataTypes, Recorded, GenuineEverywhere, InTime, Window, [Next]_vars
    PROVE  InTime'
<1>1. /\ PtpNow \in Nat /\ Sent \in Nat /\ Sent <= Packets /\ now \in 0..MaxTime
      /\ PtpNow = Epoch + now /\ PtpNow' = Epoch + now'
  BY Constants DEF DataTypes, PtpNow, Sent
<1>2. \A k \in DOMAIN wire : wire[k].kind = "ours" => wire[k].due \in Nat
  BY GenuineDue DEF GenuineEverywhere
<1>3. ASSUME NEW j \in DOMAIN wire', wire'[j].kind = "ours"
      PROVE  PtpNow' <= wire'[j].due - Delay + Lag
  <2>1. CASE Tick
    <3>1. UNCHANGED wire /\ now' = now + 1
          /\ \A k \in DOMAIN wire : wire[k].kind = "ours" => PtpNow < wire[k].due - Delay + Lag
      BY <2>1 DEF Tick
    <3>2. PtpNow < wire[j].due - Delay + Lag /\ wire[j].due \in Nat
      BY <1>2, <1>3, <3>1
    <3>3. PtpNow' = PtpNow + 1
      BY <1>1, <3>1, Constants
    <3>4. QED
      BY <1>1, <3>1, <3>2, <3>3, Constants
  <2>2. CASE ~Tick
    <3>1. UNCHANGED now
      BY <2>2, DataSteps DEF data, SendPacket, Receive, Collect, Present, SendForeign, Lose, Copy
    <3>2. PtpNow' = PtpNow
      BY <3>1 DEF PtpNow
    <3>3. CASE wire'[j] = Packet
      <4>1. Packet.due = ClockTime + Delay
        BY DEF Packet
      <4>2. PtpNow <= ClockTime /\ ClockTime \in Int
        BY <1>1, PacketFacts, Constants
      <4>3. QED
        BY <1>1, <3>2, <3>3, <4>1, <4>2, Constants
    <3>4. ASSUME NEW k \in DOMAIN wire, wire'[j] = wire[k]
          PROVE  PtpNow' <= wire'[j].due - Delay + Lag
      BY <1>3, <3>2, <3>4 DEF InTime
    <3>5. QED
      BY <1>3, <3>3, <3>4, Sources
  <2>3. QED
    BY <2>1, <2>2
<1>4. ASSUME NEW j \in DOMAIN events'
      PROVE  /\ events'[j].received <= events'[j].frame.due - Delay + Lag
             /\ events'[j].received <= Epoch + MaxTime
             /\ events'[j].frame.due <= events'[j].received + Delay + Packets
  <2>1. ASSUME NEW k \in DOMAIN wire, wire[k].kind = "ours", events'[j].frame = wire[k],
               events'[j].received = PtpNow
        PROVE  /\ events'[j].received <= events'[j].frame.due - Delay + Lag
               /\ events'[j].received <= Epoch + MaxTime
               /\ events'[j].frame.due <= events'[j].received + Delay + Packets
    <3>1. Genuine(wire[k])
      BY <2>1 DEF GenuineEverywhere
    <3>2. wire[k].due \in Nat /\ wire[k].due - Delay \in Epoch..(PtpNow + Sent - 1)
      BY <3>1, GenuineDue
    <3>3. PtpNow <= wire[k].due - Delay + Lag
      BY <2>1 DEF InTime
    <3>4. PtpNow <= Epoch + MaxTime /\ wire[k].due <= PtpNow + Delay + Packets
      BY <1>1, <3>2, Constants
    <3>5. QED
      BY <2>1, <3>3, <3>4
  <2>2. QED
    BY <2>1, Sources DEF InTime
<1>5. Expanded'
  <2>1. \A k \in DOMAIN events :
            ExpandNs(events[k].frame.stamp, events[k].received) = events[k].frame.due
    BY ExpandsToDue
  <2>2. QED
    BY <2>1, Sources DEF InTime, Expanded
<1>6. QED
  BY <1>3, <1>4, <1>5 DEF InTime

-----------------------------------------------------------------------------
(* The order *)

\* Within a stage frames are in the order of the talker, and what is at a later stage is
\* not behind what is at an earlier one.
WireInOrder ==
    \A k, l \in DOMAIN wire : k <= l /\ wire[k].kind = "ours" /\ wire[l].kind = "ours" =>
        wire[k].index <= wire[l].index
EventsInOrder ==
    \A k, l \in DOMAIN events : k <= l => events[k].frame.index <= events[l].frame.index
PresentedInOrder ==
    \A k, l \in DOMAIN presented : k <= l => presented[k].index <= presented[l].index

BeforeWire(frame) ==
    \A l \in DOMAIN wire : wire[l].kind = "ours" => frame.index <= wire[l].index
BeforeEvents(frame) == \A l \in DOMAIN events : frame.index <= events[l].frame.index
BeforeBuffered(frame) == \A l \in DOMAIN jitter_buf : frame.index <= jitter_buf[l].frame.index

Ordered ==
    /\ WireInOrder /\ EventsInOrder /\ PresentedInOrder
    /\ \A k \in DOMAIN events : BeforeWire(events[k].frame)
    /\ \A k \in DOMAIN jitter_buf :
           BeforeWire(jitter_buf[k].frame) /\ BeforeEvents(jitter_buf[k].frame)
    /\ \A k \in DOMAIN presented :
           /\ BeforeWire(presented[k]) /\ BeforeEvents(presented[k])
           /\ BeforeBuffered(presented[k])

\* Losing and copying.
LEMMA WireFollowsKept ==
    ASSUME Ordered, Follows(wire', wire), UNCHANGED <<events, jitter_buf, presented>>
    PROVE  Ordered'
<1>1. PICK f \in [DOMAIN wire' -> DOMAIN wire] :
          /\ \A j \in DOMAIN wire' : wire'[j] = wire[f[j]]
          /\ \A i, j \in DOMAIN wire' : i <= j => f[i] <= f[j]
  BY DEF Follows
<1>2. WireInOrder'
  BY <1>1 DEF Ordered, WireInOrder
<1>3. \A frame : BeforeWire(frame) =>
          \A l \in DOMAIN wire' : wire'[l].kind = "ours" => frame.index <= wire'[l].index
  BY <1>1 DEF BeforeWire
<1>4. QED
  BY <1>2, <1>3 DEF Ordered, EventsInOrder, PresentedInOrder, BeforeWire, BeforeEvents,
                    BeforeBuffered

\* A new frame on the wire is another device's, or the latest packet.
LEMMA WireAppendKept ==
    ASSUME DataTypes, Ordered, GenuineEverywhere, NEW frame \in Frames,
           wire' = Append(wire, frame), UNCHANGED <<events, jitter_buf, presented>>,
           frame.kind = "ours" => frame.index = Sent + 1
    PROVE  Ordered'
<1>1. Sent \in Nat /\ Len(wire) \in Nat /\ DOMAIN wire = 1..Len(wire)
  BY DEF DataTypes, Sent
<1>2. /\ DOMAIN wire' = 1..(Len(wire) + 1)
      /\ \A k \in DOMAIN wire : wire'[k] = wire[k]
      /\ wire'[Len(wire) + 1] = frame
  BY <1>1, Appended DEF DataTypes
<1>3. \A g : Genuine(g) /\ frame.kind = "ours" => g.index <= frame.index
  BY <1>1 DEF Genuine
<1>4. \A g : Genuine(g) /\ BeforeWire(g) =>
          \A l \in DOMAIN wire' : wire'[l].kind = "ours" => g.index <= wire'[l].index
  BY <1>1, <1>2, <1>3 DEF BeforeWire
<1>5. WireInOrder'
  <2> SUFFICES ASSUME NEW k \in DOMAIN wire', NEW l \in DOMAIN wire', k <= l,
                      wire'[k].kind = "ours", wire'[l].kind = "ours"
               PROVE  wire'[k].index <= wire'[l].index
    BY DEF WireInOrder
  <2>1. CASE k \in DOMAIN wire /\ l \in DOMAIN wire
    BY <1>2, <2>1 DEF Ordered, WireInOrder
  <2>2. CASE k \in DOMAIN wire /\ l = Len(wire) + 1
    BY <1>2, <1>3, <2>2 DEF GenuineEverywhere
  <2>3. CASE k = Len(wire) + 1
    <3>1. l = k /\ wire'[k] = frame /\ frame.index \in Nat
      BY <1>1, <1>2, <2>3 DEF Frames
    <3>2. QED
      BY <3>1
  <2>4. QED
    BY <1>1, <1>2, <2>1, <2>2, <2>3
<1>6. QED
  BY <1>4, <1>5 DEF Ordered, GenuineEverywhere, EventsInOrder, PresentedInOrder, BeforeWire,
                    BeforeEvents, BeforeBuffered

LEMMA ReceiveKept ==
    ASSUME DataTypes, Ordered, GenuineEverywhere, Receive
    PROVE  Ordered'
<1>1. /\ wire # <<>> /\ wire' = Tail(wire) /\ UNCHANGED <<jitter_buf, presented>>
      /\ Head(wire) = wire[1] /\ 1 \in DOMAIN wire /\ Follows(wire', wire)
  <2>1. wire # <<>> /\ wire' = Tail(wire) /\ UNCHANGED <<jitter_buf, presented>>
    BY DEF Receive, mainVars
  <2>2. wire \in Seq(Frames)
    BY DEF DataTypes
  <2>3. QED
    BY <2>1, <2>2, TailFollows, Zenon
<1>2. PICK f \in [DOMAIN wire' -> DOMAIN wire] :
          /\ \A j \in DOMAIN wire' : wire'[j] = wire[f[j]]
          /\ \A i, j \in DOMAIN wire' : i <= j => f[i] <= f[j]
  BY <1>1, Zenon DEF Follows
<1>3. WireInOrder'
  BY <1>2 DEF Ordered, WireInOrder
<1>4. \A frame : BeforeWire(frame) =>
          \A l \in DOMAIN wire' : wire'[l].kind = "ours" => frame.index <= wire'[l].index
  BY <1>2 DEF BeforeWire
<1>5. wire[1].kind = "ours" =>
          \A l \in DOMAIN wire' : wire'[l].kind = "ours" => wire[1].index <= wire'[l].index
  <2>1. \A l \in DOMAIN wire : 1 <= l
    BY DEF DataTypes
  <2>2. QED
    BY <1>1, <1>2, <2>1 DEF Ordered, WireInOrder
<1>6. CASE UNCHANGED events
  BY <1>1, <1>3, <1>4, <1>6 DEF Ordered, EventsInOrder, PresentedInOrder, BeforeWire,
                                BeforeEvents, BeforeBuffered
<1>7. CASE ~UNCHANGED events
  <2> DEFINE event == [frame |-> wire[1], received |-> PtpNow]
  <2>1. wire[1].kind = "ours" /\ events' = Append(events, event)
    BY <1>1, <1>7 DEF Receive
  <2>2. event.frame = wire[1] /\ event \in ReceivedFrames /\ wire[1].index \in Nat
    <3>1. wire[1] \in Frames /\ PtpNow \in Nat
      BY <1>1, Constants DEF DataTypes, PtpNow
    <3>2. QED
      BY <3>1 DEF ReceivedFrames, Frames
  <2> HIDE DEF event
  <2>3. /\ Len(events) \in Nat /\ DOMAIN events = 1..Len(events)
        /\ DOMAIN events' = 1..(Len(events) + 1)
        /\ \A k \in DOMAIN events : events'[k] = events[k]
        /\ events'[Len(events) + 1].frame = wire[1]
    BY <2>1, <2>2, Appended DEF DataTypes
  <2>4. EventsInOrder'
    BY <1>1, <2>1, <2>2, <2>3 DEF Ordered, EventsInOrder, BeforeWire
  <2>5. \A frame : BeforeEvents(frame) /\ BeforeWire(frame) =>
            \A l \in DOMAIN events' : frame.index <= events'[l].frame.index
    BY <1>1, <2>1, <2>3 DEF BeforeEvents, BeforeWire
  <2>6. \A k \in DOMAIN events' : \A l \in DOMAIN wire' :
            wire'[l].kind = "ours" => events'[k].frame.index <= wire'[l].index
    BY <1>4, <1>5, <2>1, <2>3 DEF Ordered
  <2>7. QED
    BY <1>1, <1>3, <1>4, <2>4, <2>5, <2>6 DEF Ordered, PresentedInOrder, BeforeWire,
                                             BeforeEvents, BeforeBuffered
<1>8. QED
  BY <1>6, <1>7

LEMMA CollectKept ==
    ASSUME DataTypes, Ordered, Collect
    PROVE  Ordered'
<1>1. /\ events # <<>> /\ events' = Tail(events) /\ UNCHANGED <<wire, presented>>
      /\ Head(events) = events[1] /\ 1 \in DOMAIN events /\ Follows(events', events)
  <2>1. events # <<>> /\ events' = Tail(events) /\ UNCHANGED <<wire, presented>>
    BY DEF Collect
  <2>2. events \in Seq(ReceivedFrames)
    BY DEF DataTypes
  <2>3. QED
    BY <2>1, <2>2, TailFollows, Zenon
<1>2. PICK f \in [DOMAIN events' -> DOMAIN events] :
          /\ \A j \in DOMAIN events' : events'[j] = events[f[j]]
          /\ \A i, j \in DOMAIN events' : i <= j => f[i] <= f[j]
  BY <1>1, Zenon DEF Follows
<1>3. EventsInOrder'
  BY <1>2 DEF Ordered, EventsInOrder
<1>4. \A frame : BeforeEvents(frame) =>
          \A l \in DOMAIN events' : frame.index <= events'[l].frame.index
  BY <1>2 DEF BeforeEvents
<1>5. BeforeEvents(events[1].frame) /\ BeforeWire(events[1].frame)
  <2>1. \A l \in DOMAIN events : 1 <= l
    BY DEF DataTypes
  <2>2. QED
    BY <1>1, <2>1 DEF Ordered, EventsInOrder, BeforeEvents
<1>6. \A j \in DOMAIN jitter_buf' :
          \/ \E k \in DOMAIN jitter_buf : jitter_buf'[j] = jitter_buf[k]
          \/ jitter_buf'[j].frame = events[1].frame
  <2> DEFINE entry == [presentation_time |-> ExpandNs(events[1].frame.stamp, events[1].received),
                       frame |-> events[1].frame]
  <2>1. jitter_buf' = Append(jitter_buf, entry)
    BY <1>1 DEF Collect
  <2>2. entry.frame = events[1].frame
    OBVIOUS
  <2> HIDE DEF entry
  <2>3. QED
    BY <2>1, <2>2 DEF DataTypes
<1>7. \A j \in DOMAIN jitter_buf' :
          /\ \A l \in DOMAIN events' : jitter_buf'[j].frame.index <= events'[l].frame.index
          /\ BeforeWire(jitter_buf'[j].frame)
  BY <1>4, <1>5, <1>6 DEF Ordered
<1>8. \A k \in DOMAIN events' : BeforeWire(events'[k].frame)
  BY <1>2 DEF Ordered
<1>9. \A k \in DOMAIN presented : \A l \in DOMAIN jitter_buf' :
          presented[k].index <= jitter_buf'[l].frame.index
  BY <1>1, <1>6 DEF Ordered, BeforeBuffered, BeforeEvents
<1>10. QED
  BY <1>1, <1>3, <1>4, <1>7, <1>8, <1>9 DEF Ordered, WireInOrder, PresentedInOrder, BeforeWire,
                                            BeforeEvents, BeforeBuffered

\* What is on top of the heap is the first frame in the buffer.
LEMMA TopIsFirst ==
    ASSUME DataTypes, Recorded, GenuineEverywhere, Expanded, NEW k \in Tops
    PROVE  BeforeBuffered(jitter_buf[k].frame)
<1> SUFFICES ASSUME NEW l \in DOMAIN jitter_buf
             PROVE  jitter_buf[k].frame.index <= jitter_buf[l].frame.index
  BY DEF BeforeBuffered
<1>1. k \in DOMAIN jitter_buf /\ jitter_buf[k].frame.due <= jitter_buf[l].frame.due
  BY DEF Tops, OnTop, Expanded
<1> DEFINE first == jitter_buf[k].frame
           other == jitter_buf[l].frame
<1>2. Genuine(first) /\ Genuine(other)
  BY <1>1 DEF GenuineEverywhere
<1>3. first.due \in Nat /\ other.due \in Nat
  BY <1>2, GenuineDue
<1>4. Sent \in Nat
  BY DEF DataTypes, Sent
<1> HIDE DEF first, other
<1>5. other.index < first.index => other.due < first.due
  BY <1>2 DEF Genuine, Recorded
<1>6. first.index \in Nat /\ other.index \in Nat
  BY <1>2, <1>4 DEF Genuine
<1>7. QED
  BY <1>1, <1>3, <1>5, <1>6 DEF first, other

LEMMA PresentKept ==
    ASSUME DataTypes, Recorded, GenuineEverywhere, Expanded, Ordered, Present
    PROVE  Ordered'
<1>1. PICK k \in Tops :
          /\ presented' = Append(presented, jitter_buf[k].frame)
          /\ jitter_buf' = RemoveAt(jitter_buf, k)
          /\ UNCHANGED <<wire, events>>
  BY DEF Present
<1> DEFINE frame == jitter_buf[k].frame
<1>2. /\ k \in DOMAIN jitter_buf /\ frame \in Frames /\ frame.index \in Nat
      /\ BeforeWire(frame) /\ BeforeEvents(frame) /\ BeforeBuffered(frame)
  <2>1. k \in DOMAIN jitter_buf
    BY DEF Tops
  <2>2. jitter_buf[k] \in BufferedFrames
    BY <2>1 DEF DataTypes
  <2>3. QED
    BY <2>1, <2>2, TopIsFirst DEF Ordered, BufferedFrames, Frames
<1> HIDE DEF frame
<1>3. \A j \in DOMAIN jitter_buf' : \E l \in DOMAIN jitter_buf : jitter_buf'[j] = jitter_buf[l]
  <2>1. jitter_buf \in Seq(BufferedFrames)
    BY DEF DataTypes
  <2>2. \A j \in DOMAIN RemoveAt(jitter_buf, k) :
            \E l \in DOMAIN jitter_buf : RemoveAt(jitter_buf, k)[j] = jitter_buf[l]
    BY ONLY <1>2, <2>1, RemovingNothingNew
  <2>3. QED
    BY ONLY <1>1, <2>2
<1>4. /\ Len(presented) \in Nat /\ DOMAIN presented = 1..Len(presented)
      /\ DOMAIN presented' = 1..(Len(presented) + 1)
      /\ \A j \in DOMAIN presented : presented'[j] = presented[j]
      /\ presented'[Len(presented) + 1] = frame
  BY <1>1, <1>2, Appended DEF DataTypes, frame
<1>5. \A j \in DOMAIN presented : presented[j].index <= frame.index
  BY <1>2 DEF Ordered, BeforeBuffered, frame
<1>6. PresentedInOrder'
  BY <1>2, <1>4, <1>5 DEF Ordered, PresentedInOrder
<1>7. \A g : BeforeBuffered(g) =>
          \A l \in DOMAIN jitter_buf' : g.index <= jitter_buf'[l].frame.index
  BY <1>3 DEF BeforeBuffered
<1>8. \A j \in DOMAIN presented' :
          /\ BeforeWire(presented'[j]) /\ BeforeEvents(presented'[j])
          /\ \A l \in DOMAIN jitter_buf' : presented'[j].index <= jitter_buf'[l].frame.index
  BY <1>2, <1>4, <1>7 DEF Ordered
<1>9. \A j \in DOMAIN jitter_buf' :
          BeforeWire(jitter_buf'[j].frame) /\ BeforeEvents(jitter_buf'[j].frame)
  BY <1>3 DEF Ordered
<1>10. QED
  BY <1>1, <1>6, <1>8, <1>9 DEF Ordered, WireInOrder, EventsInOrder, BeforeWire, BeforeEvents,
                                BeforeBuffered

LEMMA OrderedKept ==
    ASSUME DataTypes, Recorded, GenuineEverywhere, Expanded, Ordered, [Next]_vars
    PROVE  Ordered'
<1>1. CASE UNCHANGED data \/ Tick
  BY <1>1 DEF data, Tick, talkerVars, mainVars, Ordered, WireInOrder, EventsInOrder,
              PresentedInOrder, BeforeWire, BeforeEvents, BeforeBuffered
<1>2. CASE SendPacket
  <2>1. /\ wire' = Append(wire, Packet) /\ UNCHANGED <<events, jitter_buf, presented>>
        /\ Packet.index = Sent + 1
    BY <1>2 DEF SendPacket, Packet, mainVars
  <2>2. QED
    BY <2>1, PacketFacts, WireAppendKept
<1>3. CASE SendForeign
  <2>1. PICK kind \in Kinds \ {"ours"} : wire' = Append(wire, [NoFrame EXCEPT !.kind = kind])
    BY <1>3 DEF SendForeign
  <2>2. UNCHANGED <<events, jitter_buf, presented>>
    BY <1>3 DEF SendForeign, mainVars
  <2>3. [NoFrame EXCEPT !.kind = kind] \in Frames /\ [NoFrame EXCEPT !.kind = kind].kind # "ours"
    BY Constants DEF NoFrame, Frames, Kinds, Timestamps
  <2>4. QED
    BY <2>1, <2>2, <2>3, WireAppendKept
<1>4. CASE Lose \/ Copy
  <2>1. UNCHANGED <<events, jitter_buf, presented>>
    BY <1>4 DEF Lose, Copy, mainVars
  <2>2. PICK k \in DOMAIN wire : wire' = RemoveAt(wire, k) \/ wire' = InsertAt(wire, k, wire[k])
    BY <1>4 DEF Lose, Copy
  <2>3. Follows(wire', wire)
    BY <2>2, RemovingFollows, CopyingFollows DEF DataTypes
  <2>4. QED
    BY <2>1, <2>3, WireFollowsKept
<1>5. QED
  BY <1>1, <1>2, <1>3, <1>4, DataSteps, ReceiveKept, CollectKept, PresentKept

-----------------------------------------------------------------------------
(* The verdict *)

\* The talker reports its records when all are sent; a pass compared all of them.
Results ==
    /\ talker_channel = "records" => Sent = Packets /\ talker = "ended"
    /\ talker_result = "records" => talker_channel = "records"
    /\ main = "wait" => talker = "absent"
    /\ main # "done" => verdict = "none"
    /\ verdict = "pass" => main = "done" /\ Sent = Packets /\ Matches

\* What a step that is not the talker's own leaves of its results.
LEMMA ChannelKept ==
    ASSUME Results, [Next]_vars
    PROVE  /\ talker_channel' = "records" => Sent' = Packets /\ talker' = "ended"
           /\ talker_result' = "records" => talker_channel' = "records"
           /\ main' = "wait" => talker' = "absent"
<1>1. CASE UNCHANGED vars
  BY <1>1 DEF vars, talkerVars, mainVars, Results, Sent
<1>2. CASE Main
  BY <1>2 DEF Main, AwaitReady, Collect, Collected, PollTalker, ReadClock, Present,
              PresentFails, NoneReady,
              Check, Analyze, Report, Finish, talkerVars, Results, Sent
<1>3. CASE Receiver
  BY <1>3 DEF Receiver, ReceiverOpens, Receive, ReceiverFails, talkerVars, mainVars, Results, Sent
<1>4. CASE Talker
  BY <1>4 DEF Talker, TalkerOpens, SendPacket, TalkerFinishes, TalkerFails, Ends, mainVars,
              Results, Sent
<1>5. CASE SendForeign \/ Lose \/ Copy \/ Tick
  BY <1>5 DEF SendForeign, Lose, Copy, Tick, talkerVars, mainVars, Results, Sent
<1>6. QED
  BY <1>1, <1>2, <1>3, <1>4, <1>5 DEF Next, Others

\* Only the analysis passes a test.
LEMMA OnlyAnalyzePasses ==
    ASSUME Results, Next, main # "done"
    PROVE  /\ main' # "done" => verdict' = "none"
           /\ verdict' = "pass" =>
                  /\ main' = "done" /\ talker_result = "records" /\ Matches
                  /\ UNCHANGED <<presented, talker_records>>
<1>1. verdict = "none"
  BY DEF Results
<1>2. CASE Main
  BY <1>1, <1>2 DEF Main, AwaitReady, Collect, Collected, PollTalker, ReadClock, Present, PresentFails,
                    NoneReady, Check, Analyze, Report, Finish, talkerVars
<1>3. CASE Others
  BY <1>1, <1>3 DEF Others, Receiver, ReceiverOpens, Receive, ReceiverFails, Talker, TalkerOpens,
                    SendPacket, TalkerFinishes, TalkerFails, SendForeign, Lose, Copy, Tick,
                    mainVars
<1>4. QED
  BY <1>2, <1>3 DEF Next

LEMMA ResultsKept ==
    ASSUME Results, [Next]_vars
    PROVE  Results'
<1>1. CASE UNCHANGED vars
  BY <1>1 DEF vars, talkerVars, mainVars, Results, Sent, Matches, Common, SameWire
<1>2. CASE Next /\ main = "done"
  BY <1>2 DEF Next, Main, AwaitReady, Collect, Collected, PollTalker, ReadClock, Present, PresentFails,
              NoneReady, Check, Analyze
<1>3. CASE Next /\ main # "done"
  <2>1. /\ main' # "done" => verdict' = "none"
        /\ verdict' = "pass" =>
               /\ main' = "done" /\ talker_result = "records" /\ Matches
               /\ UNCHANGED <<presented, talker_records>>
    BY <1>3, OnlyAnalyzePasses
  <2>2. verdict' = "pass" => Sent' = Packets /\ Matches'
    BY <2>1 DEF Results, Sent, Matches, Common, SameWire
  <2>3. QED
    BY <2>1, <2>2, ChannelKept DEF Results
<1>4. QED
  BY <1>1, <1>2, <1>3

-----------------------------------------------------------------------------
(* The theorems *)

\* What is true of every file, of every network and of every scheduling.
Sound == TypeOK /\ Recorded /\ GenuineEverywhere /\ Results

\* What the window adds.
Timed == InTime /\ Ordered

LEMMA InitSound == Init => Sound
<1> SUFFICES ASSUME Init PROVE Sound
  OBVIOUS
<1>1. Sent = 0 /\ 1..Sent = {}
  BY DEF Init, Sent
<1>2. Recorded /\ GenuineEverywhere
  BY <1>1 DEF Init, Recorded, GenuineEverywhere
<1>3. Results
  BY DEF Init, Results
<1>4. QED
  BY <1>2, <1>3, InitTypes DEF Sound

LEMMA SoundKept == Sound /\ [Next]_vars => Sound'
BY TypeParts, TypesKept, RecordedKept, GenuineEverywhereKept, ResultsKept DEF Sound

LEMMA InitTimed == Init => Timed
<1> SUFFICES ASSUME Init PROVE Timed
  OBVIOUS
<1>1. DOMAIN wire = {} /\ DOMAIN events = {} /\ DOMAIN jitter_buf = {} /\ DOMAIN presented = {}
  BY DEF Init
<1>2. QED
  BY <1>1 DEF Timed, InTime, Expanded, Ordered, WireInOrder, EventsInOrder, PresentedInOrder

LEMMA TimedKept ==
    ASSUME Window
    PROVE  Sound /\ Timed /\ [Next]_vars => Timed'
BY TypeParts, InTimeKept, OrderedKept DEF Sound, Timed, InTime

LEMMA SoundAlways == Spec => []Sound
BY InitSound, SoundKept, PTL DEF Spec

LEMMA TimedAlways ==
    ASSUME Window
    PROVE  Spec => []Timed
BY InitTimed, TimedKept, SoundAlways, PTL DEF Spec

\* Main presents the packets in the order of the stream, whatever is lost, copied and late,
\* when the delays are within half a window of timestamps.
THEOREM PresentedInOrderOfStream ==
    ASSUME Window
    PROVE  Spec => []InOrder
<1>1. Sound /\ Timed => InOrder
  <2> SUFFICES ASSUME Sound, Timed, NEW k \in 1..(Len(presented) - 1)
               PROVE  presented[k].index <= presented[k + 1].index
    BY DEF InOrder
  <2>1. Len(presented) \in Nat /\ DOMAIN presented = 1..Len(presented)
    BY TypeParts DEF Sound, DataTypes
  <2>2. k \in DOMAIN presented /\ k + 1 \in DOMAIN presented /\ k <= k + 1
    BY <2>1
  <2>3. QED
    BY <2>2 DEF Timed, Ordered, PresentedInOrder
<1>2. QED
  BY <1>1, SoundAlways, TimedAlways, PTL

\* Presenting takes the expanded time of a packet for its presentation time, and the clock
\* that was read for the present; both are safe.
LEMMA PresentNotEarly ==
    ASSUME Sound, Timed, Present
    PROVE  Last(presented').due <= PtpNow
<1>1. PICK k \in Tops : IsReady(jitter_buf[k])
                        /\ presented' = Append(presented, jitter_buf[k].frame)
  BY DEF Present
<1>2. DataTypes /\ OtherTypes
  BY TypeParts DEF Sound
<1>3. k \in DOMAIN jitter_buf /\ jitter_buf[k].frame \in Frames
  <2>1. k \in DOMAIN jitter_buf
    BY DEF Tops
  <2>2. jitter_buf[k] \in BufferedFrames
    BY <1>2, <2>1 DEF DataTypes
  <2>3. QED
    BY <2>1, <2>2 DEF BufferedFrames
<1>4. Last(presented') = jitter_buf[k].frame
  <2> DEFINE frame == jitter_buf[k].frame
  <2>1. frame \in Frames
    BY <1>3
  <2> HIDE DEF frame
  <2>2. presented \in Seq(Frames) /\ presented' = Append(presented, frame)
    BY <1>1, <1>2 DEF DataTypes, frame
  <2>3. Len(presented') = Len(presented) + 1 /\ presented'[Len(presented) + 1] = frame
    BY <2>1, <2>2, Appended
  <2>4. QED
    BY <2>3 DEF Last, frame
<1>5. jitter_buf[k].frame.due <= current
  BY <1>1, <1>3 DEF IsReady, Timed, InTime, Expanded
<1>6. current \in 0..PtpNow /\ PtpNow \in Nat
  BY <1>2, Constants DEF OtherTypes, DataTypes, PtpNow
<1>7. jitter_buf[k].frame.due \in Nat
  BY <1>3 DEF Frames
<1>8. QED
  BY <1>4, <1>5, <1>6, <1>7

\* No packet is presented before the time its talker meant, when the delays are within half
\* a window of timestamps.
THEOREM PresentedNotEarly ==
    ASSUME Window
    PROVE  Spec => NeverEarly
<1>1. Sound /\ Timed /\ [Next]_vars => [presented' # presented => Last(presented').due <= PtpNow]_vars
  <2> SUFFICES ASSUME Sound, Timed, [Next]_vars, presented' # presented
               PROVE  Last(presented').due <= PtpNow
    OBVIOUS
  <2>1. Present
    BY DataSteps DEF data, SendPacket, Receive, Collect, SendForeign, Lose, Copy, Tick, mainVars
  <2>2. QED
    BY <2>1, PresentNotEarly
<1>2. QED
  BY <1>1, SoundAlways, TimedAlways, PTL DEF Spec, NeverEarly

-----------------------------------------------------------------------------
(* What a pass means *)

LEMMA IntervalSize ==
    ASSUME NEW a \in Int, NEW b \in Int, a <= b
    PROVE  Cardinality(a..b) = b - a + 1
BY FS_Interval

\* A strictly increasing map of an interval to itself is the identity: what is above its
\* place leaves too few places for those behind it, what is below too few for those before.
LEMMA IncreasingIsIdentity ==
    ASSUME NEW n \in Nat, NEW f \in [1..n -> 1..n],
           \A k, l \in 1..n : k < l => f[k] < f[l]
    PROVE  \A k \in 1..n : f[k] = k
<1> SUFFICES ASSUME NEW k \in 1..n PROVE f[k] = k
  OBVIOUS
<1>1. f[k] \in 1..n
  OBVIOUS
<1>2. f[k] <= k
  <2> DEFINE later == [l \in k..n |-> f[l]]
  <2>1. ASSUME NEW l \in k..n
        PROVE  f[l] \in f[k]..n
    <3>1. l \in 1..n /\ (k < l \/ l = k)
      OBVIOUS
    <3>2. f[l] \in 1..n /\ f[k] <= f[l]
      BY <1>1, <3>1
    <3>3. QED
      BY ONLY <1>1, <3>2, n \in Nat
  <2>2. later \in Injection(k..n, f[k]..n)
    <3>1. later \in [k..n -> f[k]..n]
      BY <2>1
    <3>2. \A a, b \in k..n : a # b => f[a] # f[b]
      OBVIOUS
    <3>3. QED
      BY <3>1, <3>2 DEF Injection, IsInjective
  <2>3. Cardinality(k..n) <= Cardinality(f[k]..n)
    <3>1. IsFiniteSet(f[k]..n)
      BY <1>1, FS_Interval
    <3>2. QED
      BY <2>2, <3>1, FS_Injection
  <2>4. Cardinality(k..n) = n - k + 1 /\ Cardinality(f[k]..n) = n - f[k] + 1
    BY <1>1, IntervalSize
  <2>5. QED
    BY <1>1, <2>3, <2>4
<1>3. k <= f[k]
  <2> DEFINE earlier == [l \in 1..k |-> f[l]]
  <2>1. ASSUME NEW l \in 1..k
        PROVE  f[l] \in 1..f[k]
    <3>1. l \in 1..n /\ (l < k \/ l = k)
      OBVIOUS
    <3>2. f[l] \in 1..n /\ f[l] <= f[k]
      BY <1>1, <3>1
    <3>3. QED
      BY ONLY <1>1, <3>2, n \in Nat
  <2>2. earlier \in Injection(1..k, 1..f[k])
    <3>1. earlier \in [1..k -> 1..f[k]]
      BY <2>1
    <3>2. \A a, b \in 1..k : a # b => f[a] # f[b]
      OBVIOUS
    <3>3. QED
      BY <3>1, <3>2 DEF Injection, IsInjective
  <2>3. Cardinality(1..k) <= Cardinality(1..f[k])
    <3>1. IsFiniteSet(1..f[k])
      BY <1>1, FS_Interval
    <3>2. QED
      BY <2>2, <3>1, FS_Injection
  <2>4. Cardinality(1..k) = k /\ Cardinality(1..f[k]) = f[k]
    <3>1. Cardinality(1..k) = k - 1 + 1 /\ Cardinality(1..f[k]) = f[k] - 1 + 1
      BY <1>1, IntervalSize
    <3>2. QED
      BY <1>1, <3>1
  <2>5. QED
    BY <1>1, <2>3, <2>4
<1>4. QED
  BY <1>1, <1>2, <1>3

\* The packets presented by a test that passes: as many as the file has, each one of its
\* packets, with the sequence number of its place.
LEMMA PassFacts ==
    ASSUME Sound, verdict = "pass"
    PROVE  /\ Len(presented) = Packets /\ Packets \in Nat
           /\ \A k \in 1..Packets :
                  /\ presented[k].index \in 1..Packets
                  /\ (presented[k].index - 1) % SeqRange = (k - 1) % SeqRange
<1>1. Sent = Packets /\ Matches /\ Recorded /\ GenuineEverywhere /\ DataTypes
  BY TypeParts DEF Sound, Results
<1>2. Len(presented) = Packets /\ Packets \in Nat /\ DOMAIN presented = 1..Packets
  BY <1>1, Constants DEF Matches, DataTypes
<1>3. \A k \in 1..Packets : talker_records[k].seq_num = presented[k].seq_num
  BY <1>1, <1>2 DEF Matches, Common, SameWire
<1>4. ASSUME NEW k \in 1..Packets
      PROVE  /\ presented[k].index \in 1..Packets
             /\ (presented[k].index - 1) % SeqRange = (k - 1) % SeqRange
  <2> DEFINE index == presented[k].index
  <2>1. index \in 1..Packets /\ presented[k] = talker_records[index]
    BY <1>1, <1>2 DEF GenuineEverywhere, Genuine
  <2> HIDE DEF index
  <2>2. talker_records[index].seq_num = (index - 1) % SeqRange
    BY <1>1, <2>1 DEF Recorded
  <2>3. talker_records[k].seq_num = (k - 1) % SeqRange
    BY <1>1 DEF Recorded
  <2>4. index \in 1..Packets /\ (index - 1) % SeqRange = (k - 1) % SeqRange
    BY <1>3, <2>1, <2>2, <2>3
  <2>5. QED
    BY <2>4 DEF index
<1>5. QED
  BY <1>2, <1>4

\* A file that is shorter than the range of sequence numbers.
LEMMA ShortFile ==
    ASSUME Packets <= SeqRange, NEW a \in 1..Packets, NEW b \in 1..Packets,
           (a - 1) % SeqRange = (b - 1) % SeqRange
    PROVE  a = b
<1>1. \A c \in 0..(SeqRange - 1) : c % SeqRange = c
  BY Constants
<1>2. a - 1 \in 0..(SeqRange - 1) /\ b - 1 \in 0..(SeqRange - 1)
  BY Constants
<1>3. QED
  BY <1>1, <1>2, Constants

\* Neighbours have different numbers.
LEMMA Neighbours ==
    ASSUME SeqRange > 1, NEW k \in Int
    PROVE  (k - 1) % SeqRange # ((k + 1) - 1) % SeqRange
<1> DEFINE r == (k - 1) % SeqRange
<1>1. r \in 0..(SeqRange - 1)
  BY Constants, Division
<1>2. ((k - 1) + 1) % SeqRange = (r + 1) % SeqRange
  <2>1. k - 1 \in Int
    OBVIOUS
  <2>2. \A a, b \in Int : ((a % SeqRange) + b) % SeqRange = (a + b) % SeqRange
    BY Constants, Remainders
  <2>3. QED
    BY <2>1, <2>2
<1>3. (r + 1) % SeqRange # r
  <2> HIDE DEF r
  <2>1. CASE r = SeqRange - 1
    <3>1. SeqRange % SeqRange = 0
      BY Constants
    <3>2. QED
      BY <2>1, <3>1, Constants
  <2>2. CASE r + 1 < SeqRange
    BY <1>1, <2>2, Constants
  <2>3. QED
    BY <1>1, <2>1, <2>2, Constants
<1>4. ((k + 1) - 1) = (k - 1) + 1
  OBVIOUS
<1>5. QED
  BY <1>2, <1>3, <1>4 DEF r

\* A file of any length, presented in order: no two neighbours are the same packet.
LEMMA InOrderIsIdentity ==
    ASSUME SeqRange > 1, NEW f \in [1..Packets -> 1..Packets], Packets \in Nat,
           \A k, l \in 1..Packets : k <= l => f[k] <= f[l],
           \A k \in 1..Packets : (f[k] - 1) % SeqRange = (k - 1) % SeqRange
    PROVE  \A k \in 1..Packets : f[k] = k
<1>1. \A k \in 1..Packets : k + 1 \in 1..Packets => f[k] # f[k + 1]
  BY Neighbours
<1>2. ASSUME NEW k \in 1..Packets, NEW l \in 1..Packets, k < l
      PROVE  f[k] < f[l]
  <2>1. k + 1 \in 1..Packets /\ k <= k + 1 /\ k + 1 <= l
    BY <1>2
  <2>2. f[k] <= f[k + 1] /\ f[k + 1] <= f[l] /\ f[k] # f[k + 1]
    BY <1>1, <2>1
  <2>3. f[k] \in 1..Packets /\ f[k + 1] \in 1..Packets /\ f[l] \in 1..Packets
    BY <2>1
  <2>4. \A a, b, c \in 1..Packets : a <= b /\ b <= c /\ a # b => a < c
    OBVIOUS
  <2>5. QED
    BY <2>2, <2>3, <2>4, Zenon
<1>3. QED
  BY <1>2, IncreasingIsIdentity

\* A test that passes has presented every packet of the file, once and in order.  Up to one
\* round of sequence numbers this needs nothing of the times; in a longer file a packet
\* is told from another of its number by the order alone.
THEOREM PassMeansComplete ==
    ASSUME Packets <= SeqRange \/ (SeqRange > 1 /\ Window)
    PROVE  Spec => []PassIsSound
<1>1. CASE Packets <= SeqRange
  <2>1. Sound => PassIsSound
    BY <1>1, PassFacts, ShortFile DEF PassIsSound
  <2>2. QED
    BY <2>1, SoundAlways, PTL
<1>2. CASE SeqRange > 1 /\ Window
  <2>1. ASSUME Sound, Timed, verdict = "pass"
        PROVE  Len(presented) = Packets /\ \A k \in 1..Packets : presented[k].index = k
    <3> DEFINE f == [k \in 1..Packets |-> presented[k].index]
    <3>1. Len(presented) = Packets /\ Packets \in Nat /\ DOMAIN presented = 1..Packets
      BY <2>1, PassFacts, TypeParts DEF Sound, DataTypes
    <3>2. f \in [1..Packets -> 1..Packets]
      BY <2>1, PassFacts
    <3>3. \A k, l \in 1..Packets : k <= l => f[k] <= f[l]
      BY <2>1, <3>1 DEF Timed, Ordered, PresentedInOrder
    <3>4. \A k \in 1..Packets : (f[k] - 1) % SeqRange = (k - 1) % SeqRange
      BY <2>1, PassFacts
    <3> HIDE DEF f
    <3>5. \A k \in 1..Packets : f[k] = k
      BY <1>2, <3>1, <3>2, <3>3, <3>4, InOrderIsIdentity
    <3>6. QED
      BY <3>1, <3>5 DEF f
  <2>2. Sound /\ Timed => PassIsSound
    BY <2>1 DEF PassIsSound
  <2>3. Spec => []Timed
    BY <1>2, TimedAlways
  <2>4. QED
    BY <2>2, <2>3, SoundAlways, PTL
<1>3. QED
  BY <1>1, <1>2

-----------------------------------------------------------------------------
(* Complete reception *)

\* The assumptions of a timely test: main is prompt, the delay covers the pace and twice
\* the lag, and so does the time between the first and the last packet.
Timely ==
    /\ Prompt
    /\ Delay > Pace + 2 * Lag
    /\ Packets > 0 => (Packets - 1) * Pace > 2 * Lag

\* No frame has been lost or copied.
Undisturbed == disturbances.lost = 0 /\ disturbances.copies = 0

Held == Len(presented) + Len(jitter_buf)
Taken == Held + Len(events)

\* Undisturbed, the stages hold the packets in one row: those presented, those in the
\* buffer, those in the event channel ...
InRow ==
    /\ \A k \in DOMAIN presented : presented[k].index = k
    /\ \A k \in DOMAIN jitter_buf : jitter_buf[k].frame.index = Len(presented) + k
    /\ \A k \in DOMAIN events : events[k].frame.index = Held + k
    /\ Taken <= Sent

\* ... and all the others that were sent on the wire.
RestOnWire ==
    /\ \A k \in DOMAIN wire : wire[k].kind = "ours" => wire[k].index > Taken
    /\ \A k, l \in DOMAIN wire :
           k < l /\ wire[k].kind = "ours" /\ wire[l].kind = "ours" => wire[k].index < wire[l].index
    /\ \A i \in (Taken + 1)..Sent :
           \E k \in DOMAIN wire : wire[k].kind = "ours" /\ wire[k].index = i

\* The lengths of the stages.
LEMMA Lengths ==
    ASSUME DataTypes
    PROVE  /\ Len(presented) \in Nat /\ Len(jitter_buf) \in Nat /\ Len(events) \in Nat
           /\ Len(wire) \in Nat /\ Sent \in Nat /\ Held \in Nat /\ Taken \in Nat
           /\ DOMAIN presented = 1..Len(presented) /\ DOMAIN jitter_buf = 1..Len(jitter_buf)
           /\ DOMAIN events = 1..Len(events) /\ DOMAIN wire = 1..Len(wire)
BY DEF DataTypes, Sent, Held, Taken

\* Another frame at the end of the wire.
LEMMA RowOnAppend ==
    ASSUME DataTypes, InRow, RestOnWire, GenuineEverywhere, NEW frame \in Frames,
           wire' = Append(wire, frame), UNCHANGED <<events, jitter_buf, presented>>,
           \/ frame.kind = "ours" /\ frame.index = Sent + 1 /\ Sent' = Sent + 1
           \/ frame.kind # "ours" /\ Sent' = Sent
    PROVE  InRow' /\ RestOnWire'
<1>1. /\ Len(wire) \in Nat /\ Sent \in Nat /\ Taken \in Nat /\ DOMAIN wire = 1..Len(wire)
      /\ Held' = Held /\ Taken' = Taken
  BY Lengths DEF Held, Taken
<1>2. /\ DOMAIN wire' = 1..(Len(wire) + 1)
      /\ \A k \in DOMAIN wire : wire'[k] = wire[k]
      /\ wire'[Len(wire) + 1] = frame
  BY <1>1, Appended DEF DataTypes
<1>3. InRow'
  BY <1>1 DEF InRow
<1>4. \A k \in DOMAIN wire : wire[k].kind = "ours" => wire[k].index \in 1..Sent
  BY DEF GenuineEverywhere, Genuine
<1>5. \A k \in DOMAIN wire' : wire'[k].kind = "ours" => wire'[k].index > Taken
  BY <1>1, <1>2 DEF InRow, RestOnWire
<1>6. ASSUME NEW k \in DOMAIN wire', NEW l \in DOMAIN wire', k < l,
             wire'[k].kind = "ours", wire'[l].kind = "ours"
      PROVE  wire'[k].index < wire'[l].index
  <2>1. k \in DOMAIN wire /\ wire'[k] = wire[k]
    BY <1>1, <1>2, <1>6
  <2>2. CASE l \in DOMAIN wire
    BY <1>2, <1>6, <2>1, <2>2 DEF RestOnWire
  <2>3. CASE l = Len(wire) + 1
    BY <1>1, <1>2, <1>4, <1>6, <2>1, <2>3
  <2>4. QED
    BY <1>1, <1>2, <2>2, <2>3
<1>7. ASSUME NEW i \in (Taken + 1)..Sent'
      PROVE  \E k \in DOMAIN wire' : wire'[k].kind = "ours" /\ wire'[k].index = i
  <2>1. CASE i \in (Taken + 1)..Sent
    <3>1. PICK k \in DOMAIN wire : wire[k].kind = "ours" /\ wire[k].index = i
      BY <2>1 DEF RestOnWire
    <3>2. k \in DOMAIN wire' /\ wire'[k] = wire[k]
      BY <1>1, <1>2
    <3>3. QED
      BY <3>1, <3>2
  <2>2. CASE i = Sent + 1 /\ frame.kind = "ours" /\ frame.index = Sent + 1
    <3>1. Len(wire) + 1 \in DOMAIN wire'
      BY <1>1, <1>2
    <3>2. QED
      BY <1>2, <2>2, <3>1
  <2>3. QED
    BY <1>1, <2>1, <2>2
<1>8. QED
  BY <1>1, <1>3, <1>5, <1>6, <1>7 DEF RestOnWire

\* The receiver takes the next packet of the row, or another device's frame.
LEMMA RowOnReceive ==
    ASSUME DataTypes, InRow, RestOnWire, GenuineEverywhere, Receive
    PROVE  InRow' /\ RestOnWire'
<1>1. /\ wire # <<>> /\ wire' = Tail(wire) /\ wire \in Seq(Frames) /\ Sent' = Sent
      /\ UNCHANGED <<jitter_buf, presented>>
  BY DEF Receive, mainVars, talkerVars, DataTypes, Sent
<1>2. /\ Len(wire) \in Nat /\ Sent \in Nat /\ Taken \in Nat /\ Held \in Nat
      /\ Len(events) \in Nat /\ DOMAIN events = 1..Len(events)
      /\ DOMAIN wire = 1..Len(wire) /\ Taken = Held + Len(events)
  BY Lengths DEF Taken
<1>3. /\ Head(wire) = wire[1] /\ 1 \in DOMAIN wire
      /\ DOMAIN wire' = 1..(Len(wire) - 1)
      /\ \A j \in 1..(Len(wire) - 1) : wire'[j] = wire[j + 1]
  BY <1>1, <1>2
<1>4. Held' = Held
  BY <1>1 DEF Held
<1>5. \A k, l \in DOMAIN wire' :
          k < l /\ wire'[k].kind = "ours" /\ wire'[l].kind = "ours" =>
              wire'[k].index < wire'[l].index
  <2> SUFFICES ASSUME NEW k \in DOMAIN wire', NEW l \in DOMAIN wire', k < l,
                      wire'[k].kind = "ours", wire'[l].kind = "ours"
               PROVE  wire'[k].index < wire'[l].index
    OBVIOUS
  <2>1. /\ k + 1 \in DOMAIN wire /\ l + 1 \in DOMAIN wire /\ k + 1 < l + 1
        /\ wire'[k] = wire[k + 1] /\ wire'[l] = wire[l + 1]
    BY <1>2, <1>3
  <2>2. QED
    BY <2>1 DEF RestOnWire
<1>6. \A i \in (Taken + 1)..Sent : ~(wire[1].kind = "ours" /\ wire[1].index = i) =>
          \E j \in DOMAIN wire' : wire'[j].kind = "ours" /\ wire'[j].index = i
  <2> SUFFICES ASSUME NEW i \in (Taken + 1)..Sent,
                      ~(wire[1].kind = "ours" /\ wire[1].index = i)
               PROVE  \E j \in DOMAIN wire' : wire'[j].kind = "ours" /\ wire'[j].index = i
    OBVIOUS
  <2>1. PICK k \in DOMAIN wire : wire[k].kind = "ours" /\ wire[k].index = i
    BY DEF RestOnWire
  <2>2. k # 1
    BY <2>1
  <2>3. k - 1 \in DOMAIN wire' /\ wire'[k - 1] = wire[k]
    BY <1>2, <1>3, <2>2
  <2>4. QED
    BY <2>1, <2>3
<1>7. CASE wire[1].kind # "ours"
  <2>1. UNCHANGED events
    BY <1>3, <1>7 DEF Receive
  <2>2. Taken' = Taken
    BY <1>4, <2>1 DEF Taken
  <2>3. \A k \in DOMAIN wire' : wire'[k].kind = "ours" => wire'[k].index > Taken
    BY <1>2, <1>3 DEF RestOnWire
  <2>4. InRow'
    BY <1>1, <1>4, <2>1, <2>2 DEF InRow
  <2>5. QED
    BY <1>1, <1>5, <1>6, <1>7, <2>2, <2>3, <2>4 DEF RestOnWire
<1>8. CASE wire[1].kind = "ours"
  <2> DEFINE event == [frame |-> wire[1], received |-> PtpNow]
  <2>1. events' = Append(events, event)
    BY <1>3, <1>8 DEF Receive
  <2>2. wire[1].index \in 1..Sent /\ wire[1].index > Taken
    BY <1>3, <1>8 DEF GenuineEverywhere, Genuine, RestOnWire
  <2>3. wire[1].index = Taken + 1
    <3>1. PICK k \in DOMAIN wire : wire[k].kind = "ours" /\ wire[k].index = Taken + 1
      BY <1>2, <2>2 DEF RestOnWire
    <3>2. k # 1 => wire[1].index < wire[k].index
      BY <1>2, <1>3, <1>8, <3>1 DEF RestOnWire
    <3>3. QED
      BY <1>2, <2>2, <3>1, <3>2
  <2>4. event.frame = wire[1] /\ event \in ReceivedFrames
    <3>1. wire[1] \in Frames /\ PtpNow \in Nat
      BY <1>1, <1>3, Constants DEF DataTypes, PtpNow
    <3>2. QED
      BY <3>1 DEF ReceivedFrames
  <2> HIDE DEF event
  <2>5. /\ Len(events') = Len(events) + 1 /\ DOMAIN events' = 1..(Len(events) + 1)
        /\ \A k \in DOMAIN events : events'[k] = events[k]
        /\ events'[Len(events) + 1].frame = wire[1]
    BY <1>2, <2>1, <2>4, Appended DEF DataTypes
  <2>6. Taken' = Taken + 1
    BY <1>2, <1>4, <2>5 DEF Taken
  <2>7. \A k \in DOMAIN events' : events'[k].frame.index = Held' + k
    <3>1. \A k \in DOMAIN events : events'[k].frame.index = Held + k
      BY <2>5 DEF InRow
    <3>2. QED
      BY <1>2, <1>4, <2>3, <2>5, <3>1
  <2>8. InRow'
    BY <1>1, <1>2, <2>2, <2>3, <2>6, <2>7 DEF InRow
  <2>9. \A k \in DOMAIN wire' : wire'[k].kind = "ours" => wire'[k].index > Taken + 1
    <3> SUFFICES ASSUME NEW k \in DOMAIN wire', wire'[k].kind = "ours"
                 PROVE  wire'[k].index > Taken + 1
      OBVIOUS
    <3>1. k + 1 \in DOMAIN wire /\ wire'[k] = wire[k + 1] /\ 1 < k + 1
      BY <1>2, <1>3
    <3>2. wire[1].index < wire[k + 1].index
      BY <1>3, <1>8, <3>1 DEF RestOnWire
    <3>3. QED
      BY <2>3, <3>1, <3>2
  <2>10. \A i \in (Taken + 2)..Sent :
             \E j \in DOMAIN wire' : wire'[j].kind = "ours" /\ wire'[j].index = i
    BY <1>2, <1>6, <2>3
  <2>11. QED
    BY <1>1, <1>2, <1>5, <2>6, <2>8, <2>9, <2>10 DEF RestOnWire
<1>9. QED
  BY <1>7, <1>8

\* Main takes the next packet out of the channel.
LEMMA RowOnCollect ==
    ASSUME DataTypes, InRow, RestOnWire, Collect
    PROVE  InRow' /\ RestOnWire'
<1>1. /\ events # <<>> /\ events' = Tail(events) /\ UNCHANGED <<wire, presented, talker_records>>
      /\ events \in Seq(ReceivedFrames)
  BY DEF Collect, talkerVars, DataTypes
<1>2. /\ Len(jitter_buf) \in Nat /\ Len(events) \in Nat /\ Len(presented) \in Nat
      /\ DOMAIN jitter_buf = 1..Len(jitter_buf) /\ DOMAIN events = 1..Len(events)
      /\ Held = Len(presented) + Len(jitter_buf) /\ Taken = Held + Len(events)
  BY Lengths DEF Held, Taken
<1>3. /\ Head(events) = events[1] /\ 1 \in DOMAIN events /\ Len(events') = Len(events) - 1
      /\ DOMAIN events' = 1..(Len(events) - 1)
      /\ \A j \in 1..(Len(events) - 1) : events'[j] = events[j + 1]
  BY <1>1, <1>2
<1> DEFINE entry == [presentation_time |-> ExpandNs(events[1].frame.stamp, events[1].received),
                     frame |-> events[1].frame]
<1>4. jitter_buf' = Append(jitter_buf, entry)
  BY <1>3 DEF Collect
<1>5. entry \in BufferedFrames /\ entry.frame = events[1].frame
  <2>1. events[1] \in ReceivedFrames
    BY <1>1, <1>3
  <2>2. events[1].frame \in Frames /\ events[1].received \in Int
    BY <2>1 DEF ReceivedFrames
  <2>3. events[1].frame.stamp \in Timestamps
    BY <2>2 DEF Frames
  <2>4. ExpandNs(events[1].frame.stamp, events[1].received) \in Int
    BY <2>2, <2>3, ExpandType
  <2>5. QED
    BY <2>2, <2>4 DEF BufferedFrames
<1> HIDE DEF entry
<1>6. /\ Len(jitter_buf') = Len(jitter_buf) + 1
      /\ DOMAIN jitter_buf' = 1..(Len(jitter_buf) + 1)
      /\ \A k \in DOMAIN jitter_buf : jitter_buf'[k] = jitter_buf[k]
      /\ jitter_buf'[Len(jitter_buf) + 1].frame = events[1].frame
  BY <1>2, <1>4, <1>5, Appended DEF DataTypes
<1>7. Held' = Held + 1 /\ Taken' = Taken
  BY <1>1, <1>2, <1>3, <1>6 DEF Held, Taken
<1>8. events[1].frame.index = Held + 1
  BY <1>3 DEF InRow
<1>9. \A k \in DOMAIN jitter_buf' : jitter_buf'[k].frame.index = Len(presented) + k
  <2>1. \A k \in DOMAIN jitter_buf : jitter_buf'[k].frame.index = Len(presented) + k
    BY <1>6 DEF InRow
  <2>2. QED
    BY <1>2, <1>6, <1>8, <2>1
<1>10. \A k \in DOMAIN events' : events'[k].frame.index = Held' + k
  <2> SUFFICES ASSUME NEW k \in DOMAIN events'
               PROVE  events'[k].frame.index = Held' + k
    OBVIOUS
  <2>1. k + 1 \in DOMAIN events /\ events'[k] = events[k + 1]
    BY <1>2, <1>3
  <2>2. events[k + 1].frame.index = Held + (k + 1)
    BY <2>1 DEF InRow
  <2>3. QED
    BY <1>2, <1>3, <1>7, <2>1, <2>2
<1>11. Sent' = Sent
  BY <1>1 DEF Sent
<1>12. QED
  BY <1>1, <1>7, <1>9, <1>10, <1>11 DEF InRow, RestOnWire

\* Removing the first element leaves the others, one place further on.
LEMMA RemovingFirst ==
    ASSUME NEW S, NEW s \in Seq(S), 1 \in DOMAIN s
    PROVE  /\ RemoveAt(s, 1) \in Seq(S) /\ Len(RemoveAt(s, 1)) = Len(s) - 1
           /\ \A k \in 1..(Len(s) - 1) : RemoveAt(s, 1)[k] = s[k + 1]
<1>1. Len(s) \in Nat /\ Len(s) >= 1 /\ 0 \in 0..Len(s) /\ 2 \in 1..(Len(s) + 1) /\ 2 <= 0 + 2
  OBVIOUS
<1>2. RemoveAt(s, 1) = Splice(s, 0, 2)
  BY DEF RemoveAt, Splice
<1>3. /\ Splice(s, 0, 2) \in Seq(S) /\ Len(Splice(s, 0, 2)) = 0 + Len(s) + 1 - 2
      /\ \A k \in 1..Len(Splice(s, 0, 2)) :
             Splice(s, 0, 2)[k] = s[IF k <= 0 THEN k ELSE k - 0 + 2 - 1]
  BY ONLY <1>1, Joined, s \in Seq(S)
<1>4. Len(Splice(s, 0, 2)) = Len(s) - 1
  BY ONLY <1>1, <1>3
<1>5. \A k \in 1..(Len(s) - 1) : Splice(s, 0, 2)[k] = s[k + 1]
  <2>1. ASSUME NEW k \in 1..(Len(s) - 1)
        PROVE  Splice(s, 0, 2)[k] = s[k + 1]
    <3>1. ~(k <= 0) /\ k - 0 + 2 - 1 = k + 1
      OBVIOUS
    <3>2. QED
      BY <1>3, <1>4, <3>1
  <2>2. QED
    BY <2>1
<1>6. QED
  BY <1>2, <1>3, <1>4, <1>5

\* Main presents the next packet: the first of the buffer is the one on top of the heap.
LEMMA RowOnPresent ==
    ASSUME DataTypes, Recorded, GenuineEverywhere, Expanded, InRow, RestOnWire, Present
    PROVE  InRow' /\ RestOnWire'
<1>1. PICK k \in Tops :
          /\ presented' = Append(presented, jitter_buf[k].frame)
          /\ jitter_buf' = RemoveAt(jitter_buf, k)
          /\ UNCHANGED <<wire, events, talker_records>>
  BY DEF Present, talkerVars
<1>2. /\ Len(jitter_buf) \in Nat /\ Len(events) \in Nat /\ Len(presented) \in Nat
      /\ DOMAIN jitter_buf = 1..Len(jitter_buf) /\ DOMAIN presented = 1..Len(presented)
      /\ Held = Len(presented) + Len(jitter_buf) /\ Taken = Held + Len(events)
  BY Lengths DEF Held, Taken
<1>3. k \in DOMAIN jitter_buf
  BY DEF Tops
<1>4. k = 1
  <2>1. 1 \in DOMAIN jitter_buf
    BY <1>2, <1>3
  <2>2. jitter_buf[k].frame.index <= jitter_buf[1].frame.index
    BY <2>1, TopIsFirst DEF BeforeBuffered
  <2>3. jitter_buf[k].frame.index = Len(presented) + k
        /\ jitter_buf[1].frame.index = Len(presented) + 1
    BY <1>3, <2>1 DEF InRow
  <2>4. QED
    BY <1>2, <1>3, <2>2, <2>3
<1> DEFINE frame == jitter_buf[1].frame
<1>5. frame \in Frames /\ frame.index = Len(presented) + 1
  <2>1. jitter_buf[1] \in BufferedFrames
    BY <1>3, <1>4 DEF DataTypes
  <2>2. QED
    BY <1>3, <1>4, <2>1 DEF BufferedFrames, InRow
<1>6. presented' = Append(presented, frame) /\ jitter_buf' = RemoveAt(jitter_buf, 1)
  BY <1>1, <1>4
<1> HIDE DEF frame
<1>7. /\ Len(presented') = Len(presented) + 1 /\ DOMAIN presented' = 1..(Len(presented) + 1)
      /\ \A j \in DOMAIN presented : presented'[j] = presented[j]
      /\ presented'[Len(presented) + 1] = frame
  BY <1>2, <1>5, <1>6, Appended DEF DataTypes
<1>8. /\ Len(jitter_buf') = Len(jitter_buf) - 1
      /\ DOMAIN jitter_buf' = 1..(Len(jitter_buf) - 1)
      /\ \A j \in 1..(Len(jitter_buf) - 1) : jitter_buf'[j] = jitter_buf[j + 1]
  <2>1. jitter_buf \in Seq(BufferedFrames) /\ 1 \in DOMAIN jitter_buf
    BY <1>3, <1>4 DEF DataTypes
  <2>2. /\ jitter_buf' \in Seq(BufferedFrames) /\ Len(jitter_buf') = Len(jitter_buf) - 1
        /\ \A j \in 1..(Len(jitter_buf) - 1) : jitter_buf'[j] = jitter_buf[j + 1]
    BY ONLY <1>6, <2>1, RemovingFirst
  <2>3. DOMAIN jitter_buf' = 1..Len(jitter_buf')
    BY <2>2
  <2>4. QED
    BY ONLY <2>2, <2>3
<1>9. Held' = Held /\ Taken' = Taken /\ Sent' = Sent
  BY <1>1, <1>2, <1>7, <1>8 DEF Held, Taken, Sent
<1>10. \A j \in DOMAIN presented' : presented'[j].index = j
  BY <1>2, <1>5, <1>7 DEF InRow
<1>11. \A j \in DOMAIN jitter_buf' : jitter_buf'[j].frame.index = Len(presented') + j
  <2> SUFFICES ASSUME NEW j \in DOMAIN jitter_buf'
               PROVE  jitter_buf'[j].frame.index = Len(presented') + j
    OBVIOUS
  <2>1. j + 1 \in DOMAIN jitter_buf /\ jitter_buf'[j] = jitter_buf[j + 1] /\ j \in Nat
    BY <1>2, <1>8
  <2>2. jitter_buf[j + 1].frame.index = Len(presented) + (j + 1)
    BY <2>1 DEF InRow
  <2>3. QED
    BY <1>2, <1>7, <2>1, <2>2
<1>12. QED
  BY <1>1, <1>9, <1>10, <1>11 DEF InRow, RestOnWire

\* Losses and copies are for ever.
LEMMA DisturbedBefore ==
    ASSUME [Next]_vars, OtherTypes, Undisturbed'
    PROVE  Undisturbed /\ ~Lose /\ ~Copy
<1>1. /\ disturbances.lost \in Nat /\ disturbances.copies \in Nat
      /\ disturbances \in [foreign : 0..MaxForeign, lost : 0..MaxLost, copies : 0..MaxCopies]
  BY TestAssumption DEF OtherTypes
<1>2. ~Lose
  <2>1. Lose => disturbances' = [disturbances EXCEPT !.lost = @ + 1]
    BY DEF Lose
  <2>2. QED
    BY <1>1, <2>1 DEF Undisturbed
<1>3. ~Copy
  <2>1. Copy => disturbances' = [disturbances EXCEPT !.copies = @ + 1]
    BY DEF Copy
  <2>2. QED
    BY <1>1, <2>1 DEF Undisturbed
<1>4. CASE SendForeign
  <2>1. disturbances' = [disturbances EXCEPT !.foreign = @ + 1]
    BY <1>4 DEF SendForeign
  <2>2. Undisturbed
    BY <1>1, <2>1 DEF Undisturbed
  <2>3. QED
    BY <1>2, <1>3, <2>2
<1>5. CASE UNCHANGED disturbances
  BY <1>2, <1>3, <1>5 DEF Undisturbed
<1>6. SendForeign \/ Lose \/ Copy \/ UNCHANGED disturbances
  BY DEF Next, Main, Others, Receiver, Talker, AwaitReady, Collect, Collected, PollTalker,
         ReadClock, Present,
         PresentFails, NoneReady, Check, Analyze, ReceiverOpens, Receive, ReceiverFails,
         TalkerOpens, SendPacket, TalkerFinishes, TalkerFails, Tick, vars
<1>7. QED
  BY <1>2, <1>3, <1>4, <1>5, <1>6

LEMMA RowKept ==
    ASSUME DataTypes, OtherTypes, Recorded, GenuineEverywhere, Expanded, [Next]_vars,
           Undisturbed => InRow /\ RestOnWire
    PROVE  Undisturbed' => InRow' /\ RestOnWire'
<1> SUFFICES ASSUME Undisturbed'
             PROVE  InRow' /\ RestOnWire'
  OBVIOUS
<1>1. InRow /\ RestOnWire /\ ~Lose /\ ~Copy
  BY DisturbedBefore
<1>2. CASE UNCHANGED data \/ Tick
  BY <1>1, <1>2 DEF data, Tick, talkerVars, mainVars, InRow, RestOnWire, Held, Taken, Sent
<1>3. CASE SendPacket
  <2>1. /\ wire' = Append(wire, Packet) /\ talker_records' = Append(talker_records, Packet)
        /\ UNCHANGED <<events, jitter_buf, presented>>
        /\ Packet.index = Sent + 1 /\ Packet.kind = "ours"
    BY <1>3 DEF SendPacket, Packet, mainVars
  <2>2. Sent' = Sent + 1
    BY <2>1, PacketFacts, Appended DEF DataTypes, Sent
  <2>3. QED
    BY <1>1, <2>1, <2>2, PacketFacts, RowOnAppend
<1>4. CASE SendForeign
  <2>1. PICK kind \in Kinds \ {"ours"} : wire' = Append(wire, [NoFrame EXCEPT !.kind = kind])
    BY <1>4 DEF SendForeign
  <2>2. UNCHANGED <<events, jitter_buf, presented>> /\ Sent' = Sent
    BY <1>4 DEF SendForeign, mainVars, talkerVars, Sent
  <2>3. [NoFrame EXCEPT !.kind = kind] \in Frames /\ [NoFrame EXCEPT !.kind = kind].kind # "ours"
    BY Constants DEF NoFrame, Frames, Kinds, Timestamps
  <2>4. QED
    BY <1>1, <2>1, <2>2, <2>3, RowOnAppend
<1>5. QED
  BY <1>1, <1>2, <1>3, <1>4, DataSteps, RowOnReceive, RowOnCollect, RowOnPresent

\* The times of sending: packet k is sent within Lag of its time, (k - 1) paces after the
\* start, and is stamped within Lag of it.
Paced ==
    /\ talker = "absent" => now = 0 /\ main \in {"wait", "done"}
    /\ talker # "ended" /\ Sent < Packets => now <= Target + Lag
    /\ Sent > 0 => now >= (Sent - 1) * Pace

Stamped ==
    /\ talker_time < Epoch + Target + Lag
    /\ \A k \in 1..Sent :
           talker_records[k].due - Delay
               \in (Epoch + (k - 1) * Pace)..(Epoch + (k - 1) * Pace + Lag)

LEMMA Paces ==
    /\ \A n \in Nat : n * Pace \in Nat /\ (n + 1) * Pace = n * Pace + Pace
    /\ 0 * Pace = 0
BY Constants

LEMMA PaceNotZero ==
    ASSUME Timely, Packets > 0
    PROVE  Pace > 0
<1>1. (Packets - 1) * Pace > 2 * Lag /\ Packets - 1 \in Nat
  BY Constants DEF Timely
<1>2. Pace # 0
  BY <1>1, Constants
<1>3. QED
  BY <1>2, Constants

LEMMA PacedKept ==
    ASSUME DataTypes, ThreadTypes, Results, Paced, [Next]_vars
    PROVE  Paced'
<1>1. Sent \in Nat /\ now \in Nat /\ Target \in Nat /\ Lag \in Nat /\ Pace \in Nat
  BY Lengths, Paces, Constants DEF DataTypes, Target
<1>2. CASE Tick /\ main # "done"
  <2>1. /\ main # "wait" /\ now' = now + 1 /\ UNCHANGED <<talker, talker_records, main>>
        /\ talker \in {"open", "send"} /\ Sent < Packets => now < Target + Lag
    BY <1>2 DEF Tick, talkerVars, mainVars
  <2>2. talker # "absent" /\ talker \in {"absent", "open", "send", "ended"}
    BY <1>2, <2>1 DEF Paced, ThreadTypes
  <2>3. Sent' = Sent /\ Target' = Target
    BY <2>1 DEF Target, Sent
  <2>4. Sent > 0 => now + 1 >= (Sent - 1) * Pace
    <3>1. Sent > 0 => Sent - 1 \in Nat /\ (Sent - 1) * Pace \in Nat
      BY <1>1, Paces
    <3>2. QED
      BY <1>1, <3>1 DEF Paced
  <2>5. QED
    BY <1>1, <2>1, <2>2, <2>3, <2>4 DEF Paced
<1>3. CASE SendPacket
  <2>1. /\ talker = "send" /\ Sent < Packets /\ now >= Target
        /\ talker_records' = Append(talker_records, Packet)
        /\ UNCHANGED <<now, talker>>
    BY <1>3 DEF SendPacket, Packet
  <2>2. Sent' = Sent + 1
    BY <2>1, PacketFacts, Appended DEF DataTypes, Sent
  <2>3. Target' = Target + Pace
    BY <1>1, <2>2, Paces DEF Target
  <2>4. now <= Target + Lag
    BY <2>1 DEF Paced
  <2>5. (Sent' - 1) * Pace = Target
    BY <1>1, <2>2 DEF Target
  <2>6. QED
    BY <1>1, <2>1, <2>3, <2>4, <2>5 DEF Paced
<1>4. CASE UNCHANGED <<now, talker_records>> /\ (talker' = "absent" => talker = "absent")
           /\ (talker' # "ended" => talker # "ended")
           /\ (main \in {"wait", "done"} /\ talker' = "absent" => main' \in {"wait", "done"})
  BY <1>4 DEF Paced, Target, Sent
<1>5. CASE Main
  <2>1. UNCHANGED <<now, talker_records>>
    BY <1>5 DEF Main, AwaitReady, Collect, Collected, PollTalker, ReadClock, Present,
                PresentFails, NoneReady,
                Check, Analyze, talkerVars
  <2>2. CASE AwaitReady
    BY <1>4, <2>1, <2>2 DEF AwaitReady, Finish, Results
  <2>3. CASE ~AwaitReady
    BY <1>4, <1>5, <2>1, <2>3 DEF Main, Collect, Collected, PollTalker, ReadClock, Present, PresentFails,
        NoneReady, Check, Analyze, talkerVars, Finish
  <2>4. QED
    BY <2>2, <2>3
<1>6. CASE Receiver \/ SendForeign \/ Lose \/ Copy \/ UNCHANGED vars
  BY <1>4, <1>6 DEF Receiver, ReceiverOpens, Receive, ReceiverFails, SendForeign, Lose, Copy,
                    talkerVars, mainVars, vars
<1>7. CASE TalkerOpens \/ TalkerFinishes \/ TalkerFails
  BY <1>4, <1>7 DEF TalkerOpens, TalkerFinishes, TalkerFails, Ends, mainVars
<1>8. QED
  BY <1>2, <1>3, <1>5, <1>6, <1>7 DEF Next, Others, Talker

LEMMA StampedKept ==
    ASSUME DataTypes, Timely, Recorded, Paced, Stamped, [Next]_vars
    PROVE  Stamped'
<1>1. /\ Sent \in Nat /\ now \in Nat /\ Target \in Nat /\ talker_time \in Int
      /\ PtpNow = Epoch + now /\ Epoch \in Nat /\ Lag \in Nat /\ Pace \in Nat /\ Delay \in Nat
  BY Lengths, Paces, Constants DEF DataTypes, Target, PtpNow
<1>2. CASE UNCHANGED <<talker_records, talker_time>>
  BY <1>2 DEF Stamped, Target, Sent
<1>3. CASE SendPacket
  <2>1. /\ talker = "send" /\ Sent < Packets /\ now >= Target
        /\ talker_records' = Append(talker_records, Packet) /\ talker_time' = ClockTime
    BY <1>3 DEF SendPacket, Packet
  <2>2. /\ Sent' = Sent + 1
        /\ \A k \in 1..Sent : talker_records'[k] = talker_records[k]
        /\ talker_records'[Sent + 1] = Packet
    BY <2>1, PacketFacts, Appended DEF DataTypes, Sent
  <2>3. Target' = Target + Pace /\ Pace > 0
    <3>1. Packets > 0
      BY <1>1, <2>1, Constants
    <3>2. QED
      BY <1>1, <2>2, <3>1, Paces, PaceNotZero DEF Target
  <2>4. now <= Target + Lag /\ talker_time < Epoch + Target + Lag
    BY <2>1 DEF Paced, Stamped
  <2>5. ClockTime \in (Epoch + Target)..(Epoch + Target + Lag)
    BY <1>1, <2>1, <2>4 DEF ClockTime
  <2>6. Packet.due - Delay \in (Epoch + Target)..(Epoch + Target + Lag)
    BY <1>1, <2>5 DEF Packet
  <2>7. talker_time' < Epoch + Target' + Lag
    BY <1>1, <2>1, <2>3, <2>5
  <2>8. ASSUME NEW k \in 1..Sent'
        PROVE  talker_records'[k].due - Delay
                   \in (Epoch + (k - 1) * Pace)..(Epoch + (k - 1) * Pace + Lag)
    <3>1. CASE k \in 1..Sent
      BY <2>2, <3>1 DEF Stamped
    <3>2. CASE k = Sent + 1
      <4>1. k - 1 = Sent /\ talker_records'[k] = Packet
        BY <1>1, <2>2, <3>2
      <4>2. QED
        BY <2>6, <4>1 DEF Target
    <3>3. QED
      BY <1>1, <2>2, <3>1, <3>2
  <2>9. QED
    BY <2>7, <2>8 DEF Stamped
<1>4. ~SendPacket => UNCHANGED <<talker_records, talker_time>>
  BY DataSteps DEF data, Receive, Collect, Present, SendForeign, Lose, Copy, Tick, talkerVars
<1>5. QED
  BY <1>2, <1>3, <1>4

\* From the moment main has emptied the event channel to the end of the iteration no time
\* passes: what is in the channel came in since, and is not yet late.
Fresh ==
    main \in {"poll", "clock", "present", "check"} =>
        \A k \in DOMAIN events : PtpNow <= events[k].frame.due - Delay + Lag

PresentedDue == \A k \in DOMAIN presented : presented[k].due <= PtpNow

LEMMA FreshKept ==
    ASSUME Timely, DataTypes, InTime, Fresh, [Next]_vars
    PROVE  Fresh'
<1>1. CASE UNCHANGED <<now, events>> /\ main' = main
  BY <1>1 DEF Fresh, PtpNow
<1>2. CASE main' \notin {"poll", "clock", "present", "check"}
  BY <1>2 DEF Fresh
<1>3. CASE Main
  <2>1. CASE Collected
    <3>1. events = <<>> /\ events' = events
      BY <2>1 DEF Collected
    <3>2. DOMAIN events' = {}
      BY <3>1
    <3>3. QED
      BY <3>2 DEF Fresh
  <2>2. CASE AwaitReady \/ Check \/ Analyze
    BY <1>2, <2>2 DEF AwaitReady, Check, Analyze, Report, Finish
  <2>3. CASE Collect
    BY <1>2, <2>3 DEF Collect
  <2>4. CASE PollTalker \/ ReadClock \/ Present \/ PresentFails \/ NoneReady
    <3>1. UNCHANGED <<now, events>> /\ main \in {"poll", "clock", "present"}
      BY <2>4 DEF PollTalker, ReadClock, Present, PresentFails, NoneReady
    <3>2. QED
      BY <3>1 DEF Fresh, PtpNow
  <2>5. QED
    BY <1>3, <2>1, <2>2, <2>3, <2>4 DEF Main
<1>4. CASE Receive
  <2>1. UNCHANGED <<now, main>> /\ PtpNow' = PtpNow
    BY <1>4 DEF Receive, mainVars, PtpNow
  <2>2. \A j \in DOMAIN events' :
            \/ \E k \in DOMAIN events : events'[j] = events[k]
            \/ \E k \in DOMAIN wire : wire[k].kind = "ours" /\ events'[j].frame = wire[k]
    BY Sources
  <2>3. \A k \in DOMAIN wire : wire[k].kind = "ours" => PtpNow <= wire[k].due - Delay + Lag
    BY DEF InTime
  <2>4. QED
    BY <2>1, <2>2, <2>3 DEF Fresh
<1>5. CASE Tick
  BY <1>2, <1>5 DEF Tick, Timely, mainVars
<1>6. CASE \/ Talker \/ ReceiverOpens \/ ReceiverFails \/ SendForeign \/ Lose \/ Copy
           \/ UNCHANGED vars
  BY <1>1, <1>6 DEF Talker, TalkerOpens, SendPacket, TalkerFinishes, TalkerFails, ReceiverOpens,
                    ReceiverFails, SendForeign, Lose, Copy, mainVars, vars
<1>7. QED
  BY <1>3, <1>4, <1>5, <1>6 DEF Next, Others, Receiver

LEMMA PresentedDueKept ==
    ASSUME Sound, Timed, PresentedDue, [Next]_vars
    PROVE  PresentedDue'
<1>1. DataTypes /\ OtherTypes
  BY TypeParts DEF Sound
<1>2. PtpNow \in Nat /\ PtpNow' \in Nat /\ PtpNow <= PtpNow'
  <2>1. now \in Nat /\ (now' = now \/ now' = now + 1)
    BY <1>1, DataSteps DEF DataTypes, data, SendPacket, Receive, Collect, Present, SendForeign,
                           Lose, Copy, Tick
  <2>2. QED
    BY <2>1, Constants DEF PtpNow
<1>3. \A k \in DOMAIN presented : presented[k].due \in Nat
  <2>1. \A k \in DOMAIN presented : presented[k] \in Frames
    BY <1>1 DEF DataTypes
  <2>2. QED
    BY <2>1 DEF Frames
<1>4. CASE UNCHANGED presented
  BY <1>2, <1>3, <1>4 DEF PresentedDue
<1>5. CASE Present
  <2>1. PICK k \in Tops : IsReady(jitter_buf[k])
                          /\ presented' = Append(presented, jitter_buf[k].frame)
    BY <1>5 DEF Present
  <2>2. k \in DOMAIN jitter_buf
    BY DEF Tops
  <2> DEFINE frame == jitter_buf[k].frame
  <2>3. frame \in Frames
    <3>1. jitter_buf[k] \in BufferedFrames
      BY <1>1, <2>2 DEF DataTypes
    <3>2. QED
      BY <3>1 DEF BufferedFrames
  <2>4. frame.due <= PtpNow
    <3>1. frame.due <= current
      BY <2>1, <2>2 DEF IsReady, Timed, InTime, Expanded
    <3>2. current \in 0..PtpNow /\ frame.due \in Nat
      BY <1>1, <2>3 DEF OtherTypes, Frames
    <3>3. QED
      BY <1>2, <3>1, <3>2
  <2>5. frame.due \in Nat /\ presented' = Append(presented, frame)
    BY <2>1, <2>3 DEF Frames
  <2> HIDE DEF frame
  <2>6. \A j \in DOMAIN presented' :
            presented'[j] = frame \/ \E l \in DOMAIN presented : presented'[j] = presented[l]
    BY <1>1, <2>3, <2>5, Appended DEF DataTypes
  <2>7. QED
    BY <1>2, <1>3, <2>4, <2>5, <2>6 DEF PresentedDue
<1>6. Present \/ UNCHANGED presented
  BY DataSteps DEF data, SendPacket, Receive, Collect, SendForeign, Lose, Copy, Tick, mainVars
<1>7. QED
  BY <1>4, <1>5, <1>6

\* When the buffer is empty and the records are there, nothing is on its way: the packet that
\* follows those presented would have been received before the last of them was due, or
\* before the last packet was sent.
LEMMA NothingOnItsWay ==
    ASSUME Sound, InTime, Timely, InRow, RestOnWire, Paced, Stamped, Fresh, PresentedDue,
           main = "check", talker_result = "records", jitter_buf = <<>>
    PROVE  Len(presented) = Packets
<1> DEFINE p == Len(presented)
<1>1. DataTypes /\ Recorded /\ GenuineEverywhere /\ Sent = Packets
  BY TypeParts DEF Sound, Results
<1>2. /\ p \in Nat /\ Packets \in Nat /\ now \in Nat /\ PtpNow = Epoch + now /\ Epoch \in Nat
      /\ Delay \in Nat /\ Pace \in Nat /\ Lag \in Nat
      /\ Len(events) \in Nat /\ DOMAIN events = 1..Len(events)
      /\ DOMAIN presented = 1..p /\ Held = p /\ Taken = p + Len(events) /\ p <= Packets
  <2>1. /\ Len(jitter_buf) = 0 /\ Held = p + Len(jitter_buf) /\ Taken = Held + Len(events)
        /\ Taken <= Sent
    BY DEF Held, Taken, InRow
  <2>2. QED
    BY <1>1, <2>1, Lengths, Constants DEF DataTypes, PtpNow
<1>9. p \in Nat /\ Packets \in Nat /\ p <= Packets
  BY <1>2
<1> HIDE DEF p
<1> SUFFICES ASSUME p < Packets
             PROVE  FALSE
  <2>1. p < Packets \/ p = Packets
    BY ONLY <1>9
  <2>2. QED
    BY <2>1 DEF p
<1> DEFINE next == talker_records[p + 1]
<1>3. PtpNow <= next.due - Delay + Lag
  <2>1. CASE Len(events) > 0
    <3>1. 1 \in DOMAIN events /\ events[1].frame.index = p + 1
      BY <1>2, <2>1 DEF InRow
    <3>2. events[1].frame = next
      BY <1>1, <3>1 DEF GenuineEverywhere, Genuine
    <3>3. QED
      BY <3>1, <3>2 DEF Fresh
  <2>2. CASE Len(events) = 0
    <3>1. PICK k \in DOMAIN wire : wire[k].kind = "ours" /\ wire[k].index = p + 1
      BY <1>1, <1>2, <1>9, <2>2 DEF RestOnWire
    <3>2. wire[k] = next
      BY <1>1, <3>1 DEF GenuineEverywhere, Genuine
    <3>3. QED
      BY <3>1, <3>2 DEF InTime
  <2>3. QED
    BY <1>2, <2>1, <2>2
<1>4. next.due \in Nat /\ next.due - Delay <= Epoch + p * Pace + Lag /\ p * Pace \in Nat
  <2>1. p + 1 \in 1..Sent /\ (p + 1) - 1 = p
    BY <1>1, <1>2, <1>9
  <2>2. next \in Frames
    BY <1>1, <2>1 DEF DataTypes, Sent
  <2>3. next.due \in Nat
    BY <2>2 DEF Frames
  <2>4. next.due - Delay
            \in (Epoch + ((p + 1) - 1) * Pace)..(Epoch + ((p + 1) - 1) * Pace + Lag)
    BY <2>1 DEF Stamped
  <2>5. p * Pace \in Nat
    BY <1>2, Paces
  <2>6. next.due - Delay \in (Epoch + p * Pace)..(Epoch + p * Pace + Lag)
    BY ONLY <2>1, <2>4
  <2>7. QED
    BY <1>2, <2>3, <2>5, <2>6
<1> HIDE DEF next
<1>5. now <= p * Pace + 2 * Lag
  BY ONLY <1>2, <1>3, <1>4
<1>6. CASE p = 0
  <2>1. now >= (Packets - 1) * Pace /\ (Packets - 1) * Pace > 2 * Lag
    BY <1>1, <1>2, <1>9 DEF Paced, Timely
  <2>2. (Packets - 1) * Pace \in Nat /\ 0 * Pace = 0
    BY <1>2, Paces
  <2>3. QED
    BY ONLY <1>2, <1>5, <1>6, <2>1, <2>2
<1>7. CASE p > 0
  <2> DEFINE last == talker_records[p]
  <2>1. p \in DOMAIN presented /\ presented[p].index = p
    BY <1>2, <1>7 DEF InRow
  <2>2. presented[p] = last
    BY <1>1, <2>1 DEF GenuineEverywhere, Genuine
  <2>3. last.due <= PtpNow
    BY <2>1, <2>2 DEF PresentedDue
  <2>4. last.due \in Nat /\ last.due - Delay >= Epoch + (p - 1) * Pace
    <3>1. p \in 1..Sent
      BY <1>1, <1>2, <1>7
    <3>2. last \in Frames
      BY <1>1, <3>1 DEF DataTypes, Sent
    <3>3. last.due \in Nat
      BY <3>2 DEF Frames
    <3>4. p - 1 \in Nat /\ (p - 1) * Pace \in Nat
      BY <1>2, <1>7, Paces
    <3>5. QED
      BY <1>2, <3>1, <3>3, <3>4 DEF Stamped
  <2> HIDE DEF last
  <2>5. p * Pace = (p - 1) * Pace + Pace /\ (p - 1) * Pace \in Nat
    <3>1. p - 1 \in Nat /\ (p - 1) + 1 = p
      BY <1>2, <1>7
    <3>2. QED
      BY ONLY <3>1, Paces
  <2>6. Delay > Pace + 2 * Lag
    BY DEF Timely
  <2>7. QED
    BY ONLY <1>2, <1>5, <2>3, <2>4, <2>5, <2>6
<1>8. QED
  BY <1>2, <1>6, <1>7

\* A test that has drained its buffer has presented everything; only another one fails.
Complete ==
    /\ main = "analyze" /\ talker_result = "records" /\ Undisturbed /\ ~timed_out =>
           Len(presented) = Packets
    /\ verdict = "fail" => ~Undisturbed \/ timed_out

\* All packets in their order match what was sent.
LEMMA AllMatch ==
    ASSUME Sound, InRow, Len(presented) = Packets, talker_result = "records"
    PROVE  Matches
<1>1. DataTypes /\ GenuineEverywhere /\ Sent = Packets /\ Packets \in Nat
  BY TypeParts, Constants DEF Sound, Results
<1>2. DOMAIN presented = 1..Packets /\ Common = 1..Packets
  BY <1>1, Lengths DEF Common
<1>3. \A k \in 1..Packets : presented[k] = talker_records[k]
  BY <1>1, <1>2 DEF InRow, GenuineEverywhere, Genuine
<1>4. QED
  BY <1>1, <1>2, <1>3 DEF Matches, SameWire

\* What a timely test adds to the invariants of every test.
OnTime ==
    /\ Undisturbed => InRow /\ RestOnWire
    /\ Paced /\ Stamped /\ Fresh /\ PresentedDue /\ Complete

LEMMA CompleteKept ==
    ASSUME Sound, Timed, Timely, OnTime, [Next]_vars
    PROVE  Complete'
<1>1. DataTypes /\ OtherTypes /\ Results
  BY TypeParts DEF Sound
<1>2. Undisturbed' => Undisturbed /\ InRow /\ RestOnWire
  BY <1>1, DisturbedBefore DEF OnTime
<1>3. CASE main = "done" \/ UNCHANGED vars
  <2>1. UNCHANGED vars
    BY <1>3 DEF Next, Main, AwaitReady, Collect, Collected, PollTalker, ReadClock, Present, PresentFails,
                NoneReady, Check, Analyze
  <2>2. QED
    BY <2>1 DEF OnTime, Complete, Undisturbed, vars, mainVars
<1>4. CASE Check
  <2>1. /\ main = "check" /\ timed_out' = (~Drained /\ Late)
        /\ main' = IF Drained \/ Late THEN "analyze" ELSE "collect"
        /\ UNCHANGED <<talker_result, presented, verdict>>
    BY <1>4 DEF Check
  <2>2. verdict' = "none"
    BY <1>1, <2>1 DEF Results
  <2>3. ASSUME main' = "analyze", talker_result' = "records", Undisturbed', ~timed_out'
        PROVE  Len(presented') = Packets
    <3>1. Drained /\ talker_result = "records"
      BY <2>1, <2>3
    <3>2. jitter_buf = <<>>
      BY <3>1 DEF Drained
    <3>3. Len(presented) = Packets
      BY <1>2, <2>1, <2>3, <3>1, <3>2, NothingOnItsWay DEF OnTime, Timed
    <3>4. QED
      BY <2>1, <3>3
  <2>4. QED
    BY <2>2, <2>3 DEF Complete
<1>5. CASE Analyze
  <2>1. /\ main = "analyze" /\ main' = "done"
        /\ verdict' = IF talker_result # "records" THEN "error" ELSE IF Matches THEN "pass" ELSE "fail"
        /\ UNCHANGED <<timed_out, disturbances>>
    BY <1>5 DEF Analyze, Report, Finish
  <2>2. ASSUME verdict' = "fail", Undisturbed', ~timed_out'
        PROVE  FALSE
    <3>1. talker_result = "records" /\ ~Matches /\ ~timed_out
      BY <2>1, <2>2
    <3>2. Len(presented) = Packets /\ InRow
      BY <1>2, <2>1, <2>2, <3>1 DEF OnTime, Complete
    <3>3. QED
      BY <3>1, <3>2, AllMatch
  <2>3. QED
    BY <2>1, <2>2 DEF Complete
<1>6. CASE Next /\ main # "done" /\ ~Check /\ ~Analyze
  <2>1. /\ verdict' # "fail" /\ (main' = "analyze" => main = "analyze")
        /\ main = "analyze" => UNCHANGED <<talker_result, presented, timed_out>>
    <3>1. verdict = "none"
      BY <1>1, <1>6 DEF Results
    <3>2. CASE Main
      BY <1>6, <3>1, <3>2 DEF Main, AwaitReady, Collect, Collected, PollTalker, ReadClock,
                              Present, PresentFails, NoneReady, Finish
    <3>3. CASE Others
      BY <3>1, <3>3 DEF Others, Receiver, ReceiverOpens, Receive, ReceiverFails, Talker,
                    TalkerOpens, SendPacket, TalkerFinishes, TalkerFails, SendForeign, Lose, Copy,
                    Tick, mainVars
    <3>4. QED
      BY <1>6, <3>2, <3>3 DEF Next
  <2>2. QED
    BY <1>2, <2>1 DEF OnTime, Complete
<1>7. QED
  BY <1>3, <1>4, <1>5, <1>6

LEMMA InitOnTime == Init => OnTime
<1> SUFFICES ASSUME Init PROVE OnTime
  OBVIOUS
<1>1. Sent = 0 /\ 1..Sent = {} /\ Taken = 0 /\ (Taken + 1)..Sent = {}
  BY DEF Init, Sent, Taken, Held
<1>2. DOMAIN wire = {} /\ DOMAIN events = {} /\ DOMAIN jitter_buf = {} /\ DOMAIN presented = {}
  BY DEF Init
<1>3. InRow /\ RestOnWire
  BY <1>1, <1>2 DEF InRow, RestOnWire
<1>4. Target = 0
  BY <1>1, Paces DEF Target
<1>5. Paced /\ Stamped
  BY <1>1, <1>4, Constants DEF Init, Paced, Stamped
<1>6. Fresh /\ PresentedDue /\ Complete
  BY <1>2 DEF Init, Fresh, PresentedDue, Complete
<1>7. QED
  BY <1>3, <1>5, <1>6 DEF OnTime

LEMMA OnTimeKept ==
    ASSUME Timely
    PROVE  Sound /\ Timed /\ OnTime /\ [Next]_vars => OnTime'
<1> SUFFICES ASSUME Sound, Timed, OnTime, [Next]_vars
             PROVE  OnTime'
  OBVIOUS
<1>1. /\ DataTypes /\ ThreadTypes /\ OtherTypes /\ Recorded /\ GenuineEverywhere /\ Results
      /\ InTime /\ Expanded
  BY TypeParts DEF Sound, Timed, InTime
<1>2. Undisturbed' => InRow' /\ RestOnWire'
  BY <1>1, RowKept DEF OnTime
<1>3. Paced' /\ Stamped'
  BY <1>1, PacedKept, StampedKept DEF OnTime
<1>4. Fresh' /\ PresentedDue' /\ Complete'
  BY <1>1, FreshKept, PresentedDueKept, CompleteKept DEF OnTime
<1>5. QED
  BY <1>2, <1>3, <1>4 DEF OnTime

\* A timely test in which nothing is lost or copied and which does not reach its deadline
\* does not fail, whatever other frames there are, and whatever thread fails: it passes, or
\* ends with an error.
THEOREM CompleteReceptionDoesNotFail ==
    ASSUME Window, Timely
    PROVE  Spec => []CompleteReceptionPasses
<1>1. Sound /\ OnTime => CompleteReceptionPasses
  <2> SUFFICES ASSUME Sound, OnTime, verdict = "fail", ~timed_out
               PROVE  disturbances.lost > 0 \/ disturbances.copies > 0
    BY DEF CompleteReceptionPasses
  <2>1. disturbances.lost \in Nat /\ disturbances.copies \in Nat
    BY TypeParts, TestAssumption DEF Sound, OtherTypes
  <2>2. ~Undisturbed
    BY DEF OnTime, Complete
  <2>3. QED
    BY <2>1, <2>2 DEF Undisturbed
<1>2. Spec => []OnTime
  BY InitOnTime, OnTimeKept, SoundAlways, TimedAlways, PTL DEF Spec
<1>3. QED
  BY <1>1, <1>2, SoundAlways, PTL
=============================================================================
