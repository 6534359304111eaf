---------------------------- MODULE PtpToolProofs ----------------------------
(***************************************************************************)
(* Proofs about PtpTool: for any number of runs of the tool and any size   *)
(* of a second, a periodic output is asked for ahead of its start and no   *)
(* timestamps are left enabled unaccounted for; the conversions of         *)
(* AvtpTime agree at every time of the hardware clock, because they do for *)
(* every size of the wrap window and every range of seconds.               *)
(***************************************************************************)
EXTENDS PtpTool, TLAPS

-----------------------------------------------------------------------------
(* Euclidean division and remainders, for divisors that are not known: what the wrapping
   arithmetic of timestamps needs. *)

\* Euclidean division, as div_euclid and rem_euclid compute it.
LEMMA Division ==
    ASSUME NEW n \in Int, NEW d \in Nat \ {0}
    PROVE  /\ n \div d \in Int /\ n % d \in 0..(d - 1)
           /\ n = d * (n \div d) + (n % d)
OBVIOUS

\* Quotient and remainder are unique.
LEMMA Quotient ==
    ASSUME NEW q \in Int, NEW r \in Int, NEW d \in Nat \ {0}, 0 <= r, r < d
    PROVE  (d * q + r) \div d = q /\ (d * q + r) % d = r
OBVIOUS

\* Distinct multiples of d are at least d apart.
LEMMA Multiples ==
    ASSUME NEW q \in Int, NEW p \in Int, NEW d \in Nat \ {0}, q > p
    PROVE  d * q >= d * p + d
<1>1. q - p >= 1
  OBVIOUS
<1>2. d * (q - p) >= d
  BY <1>1
<1>3. d * (q - p) = d * q - d * p
  OBVIOUS
<1>4. d * q \in Int /\ d * p \in Int
  OBVIOUS
<1>5. QED
  BY <1>2, <1>3, <1>4

\* Numbers that differ by whole windows have the same remainder.
LEMMA Congruent ==
    ASSUME NEW a \in Int, NEW b \in Int, NEW k \in Int, NEW d \in Nat \ {0},
           a = d * k + b
    PROVE  a % d = b % d
<1> DEFINE q == b \div d
           r == b % d
<1>1. q \in Int /\ r \in 0..(d - 1) /\ b = d * q + r
  BY Division
<1> HIDE DEF q, r
<1>2. d * (k + q) = d * k + d * q
  BY <1>1
<1>3. d * k \in Int /\ d * q \in Int /\ k + q \in Int
  BY <1>1
<1>4. a = d * (k + q) + r
  BY <1>1, <1>2, <1>3
<1>5. a % d = r
  BY <1>1, <1>3, <1>4, Quotient
<1>6. QED
  BY <1>5 DEF r

\* Remainders may be subtracted, and numbers added, before or after reducing.
LEMMA Remainders ==
    ASSUME NEW a \in Int, NEW b \in Int, NEW d \in Nat \ {0}
    PROVE  /\ (a % d) % d = a % d
           /\ ((a % d) - (b % d)) % d = (a - b) % d
           /\ ((a % d) + b) % d = (a + b) % d
<1> DEFINE q == a \div d
           r == a % d
           p == b \div d
           s == b % d
           k == p - q
           l == -q
<1>1. q \in Int /\ r \in 0..(d - 1) /\ a = d * q + r
  BY Division
<1>2. p \in Int /\ s \in 0..(d - 1) /\ b = d * p + s
  BY Division
<1> HIDE DEF q, r, p, s
<1>3. k \in Int /\ l \in Int /\ d * q \in Int /\ d * p \in Int
      /\ d * k = d * p - d * q /\ d * l = -(d * q)
  BY <1>1, <1>2
<1> HIDE DEF k, l
<1> DEFINE difference == r - s
           expected == a - b
           sum == r + b
           total == a + b
<1>4. difference \in Int /\ expected \in Int /\ difference = d * k + expected
  BY ONLY <1>1, <1>2, <1>3, d \in Nat \ {0}, a \in Int, b \in Int
<1>5. /\ sum \in Int /\ total \in Int /\ sum = d * l + total
      /\ r \in Int /\ r = d * l + a
  BY ONLY <1>1, <1>3, d \in Nat \ {0}, a \in Int, b \in Int
<1> HIDE DEF difference, expected, sum, total
<1>6. difference % d = expected % d
  BY <1>3, <1>4, Congruent
<1>7. sum % d = total % d /\ r % d = a % d
  BY <1>3, <1>5, Congruent
<1>8. QED
  BY <1>6, <1>7 DEF r, s, difference, expected, sum, total

-----------------------------------------------------------------------------
(* Timestamps *)

\* The nearest of three candidates d apart is the one within half of d.
LEMMA NearestWithinHalf ==
    ASSUME NEW base \in Int, NEW d \in Nat \ {0}, NEW ref \in Int, NEW t \in Int,
           t \in {base - d, base, base + d}, 2 * (ref - t) < d, 2 * (t - ref) < d
    PROVE  Nearest(base - d, base, base + d, ref) = t
BY DEF Nearest, Distance

\* expand_near recovers the absolute time a timestamp was cut from whenever it
\* lies less than half a wrap window from the reference.
THEOREM ExpandRecovers ==
    ASSUME NEW t \in Int, NEW ref \in Int, 2 * Distance(t, ref) < Wrap
    PROVE  ExpandNs(t % Wrap, ref) = t
<1> DEFINE q == t \div Wrap
           r == t % Wrap
           p == ref \div Wrap
           s == ref % Wrap
           base == p * Wrap + r
<1>1. Wrap \in Nat \ {0}
  BY TimeAssumption
<1>2. q \in Int /\ r \in 0..(Wrap - 1) /\ t = Wrap * q + r
  BY <1>1, Division
<1>3. p \in Int /\ s \in 0..(Wrap - 1) /\ ref = Wrap * p + s
  BY <1>1, Division
<1> HIDE DEF q, r, p, s
<1>4. Wrap * p \in Int /\ Wrap * q \in Int /\ p * Wrap = Wrap * p
  BY <1>1, <1>2, <1>3
<1>5. 2 * (ref - t) < Wrap /\ 2 * (t - ref) < Wrap
  BY <1>1 DEF Distance
<1>6. q \in {p - 1, p, p + 1}
  <2>1. ~ (q > p + 1)
    <3> SUFFICES ASSUME q > p + 1 PROVE FALSE
      OBVIOUS
    <3>1. Wrap * q >= Wrap * (p + 1) + Wrap
      BY <1>1, <1>2, <1>3, Multiples
    <3>2. Wrap * (p + 1) = Wrap * p + Wrap
      BY <1>1, <1>3
    <3>3. QED
      BY <1>1, <1>2, <1>3, <1>4, <1>5, <3>1, <3>2
  <2>2. ~ (p > q + 1)
    <3> SUFFICES ASSUME p > q + 1 PROVE FALSE
      OBVIOUS
    <3>1. Wrap * p >= Wrap * (q + 1) + Wrap
      BY <1>1, <1>2, <1>3, Multiples
    <3>2. Wrap * (q + 1) = Wrap * q + Wrap
      BY <1>1, <1>2
    <3>3. QED
      BY <1>1, <1>2, <1>3, <1>4, <1>5, <3>1, <3>2
  <2>3. QED
    BY <1>2, <1>3, <2>1, <2>2
<1>7. base \in Int /\ t \in {base - Wrap, base, base + Wrap}
  <2>1. CASE q = p - 1
    <3>1. Wrap * q = Wrap * p - Wrap
      BY <1>1, <1>3, <2>1
    <3>2. QED
      BY <1>1, <1>2, <1>4, <3>1
  <2>2. CASE q = p
    BY <1>1, <1>2, <1>4, <2>2
  <2>3. CASE q = p + 1
    <3>1. Wrap * q = Wrap * p + Wrap
      BY <1>1, <1>3, <2>3
    <3>2. QED
      BY <1>1, <1>2, <1>4, <3>1
  <2>4. QED
    BY <1>6, <2>1, <2>2, <2>3
<1> HIDE DEF base
<1>8. Nearest(base - Wrap, base, base + Wrap, ref) = t
  BY ONLY <1>1, <1>2, <1>5, <1>7, ref \in Int, NearestWithinHalf
<1>9. ExpandNs(r, ref) = Nearest(base - Wrap, base, base + Wrap, ref)
  BY DEF ExpandNs, base, p
<1>10. QED
  BY <1>8, <1>9 DEF r

\* Reducing modulo 2^64 on the way does not change the low 32 bits.
LEMMA LowBits ==
    ASSUME NEW n \in Int, NEW d \in Nat \ {0}
    PROVE  \E k \in Int : n % (d * d) = d * k + n
<1> DEFINE square == d * d
           q == n \div square
           r == n % square
<1>1. square \in Nat \ {0}
  OBVIOUS
<1> HIDE DEF square
<1>2. q \in Int /\ r \in Int /\ n = square * q + r
  BY <1>1, Division
<1> HIDE DEF q, r
<1>3. square * q = d * (d * q) /\ d * q \in Int
  BY <1>2 DEF square
<1>4. d * (-(d * q)) = -(d * (d * q)) /\ d * (d * q) \in Int
  BY <1>3
<1>5. r = d * (-(d * q)) + n
  BY <1>2, <1>3, <1>4
<1>6. -(d * q) \in Int
  BY <1>3
<1>7. QED
  BY <1>5, <1>6 DEF r, square

\* From<PtpTime> is the formula of AvtpTimestamp's comment: the nanoseconds of
\* the time modulo the wrap window, negative times included.
THEOREM ToAvtpIsModulo ==
    ASSUME NEW time \in PtpTimes
    PROVE  ToAvtp(time) = AsNanos(time) % Wrap
<1> DEFINE s == time.seconds
           n == time.nanoseconds
           low == s % U64
           product == (low * Giga) % U64
<1>1. Wrap \in Nat \ {0} /\ Giga \in Nat \ {0} /\ s \in Int /\ n \in Int /\ s * Giga \in Int
  BY TimeAssumption DEF PtpTimes
<1>2. PICK i \in Int : low = Wrap * i + s
  BY <1>1, LowBits DEF U64
<1>3. low * Giga = (Wrap * i) * Giga + s * Giga
  BY <1>1, <1>2
<1>4. (Wrap * i) * Giga = Wrap * (i * Giga) /\ i * Giga \in Int /\ Wrap * (i * Giga) \in Int
  BY <1>1
<1> HIDE DEF low
<1>5. low * Giga = Wrap * (i * Giga) + s * Giga
  BY <1>3, <1>4
<1>6. low * Giga \in Int
  BY <1>1, <1>4, <1>5
<1>7. PICK j \in Int : product = Wrap * j + low * Giga
  BY <1>1, <1>6, LowBits DEF U64
<1> HIDE DEF product
<1>8. Wrap * j \in Int /\ Wrap * (j + i * Giga) = Wrap * j + Wrap * (i * Giga)
  BY <1>1, <1>4
<1>9. product + n \in Int
  BY <1>1, <1>6, <1>7, <1>8
<1>10. PICK k \in Int : (product + n) % U64 = Wrap * k + (product + n)
  BY <1>1, <1>9, LowBits DEF U64
<1>11. /\ Wrap * k \in Int /\ k + (j + i * Giga) \in Int
       /\ Wrap * (k + (j + i * Giga)) = Wrap * k + Wrap * (j + i * Giga)
  BY <1>1, <1>4
<1>12. (product + n) % U64 = Wrap * (k + (j + i * Giga)) + (s * Giga + n)
  BY <1>1, <1>4, <1>5, <1>6, <1>7, <1>8, <1>10, <1>11
<1>13. /\ (product + n) % U64 \in Int /\ s * Giga + n \in Int
       /\ Wrap * (k + (j + i * Giga)) \in Int
  BY <1>1, <1>8, <1>11, <1>12, <1>4
<1>14. ((product + n) % U64) % Wrap = (s * Giga + n) % Wrap
  <2> DEFINE a == (product + n) % U64
             b == s * Giga + n
             c == k + (j + i * Giga)
  <2>1. a \in Int /\ b \in Int /\ c \in Int /\ a = Wrap * c + b
    BY <1>11, <1>12, <1>13
  <2> HIDE DEF a, b, c
  <2>2. a % Wrap = b % Wrap
    BY ONLY <1>1, <2>1, Congruent
  <2>3. QED
    BY <2>2 DEF a, b
<1>15. ToAvtp(time) = ((product + n) % U64) % Wrap
  BY DEF ToAvtp, product, low
<1>16. QED
  BY <1>14, <1>15 DEF AsNanos

\* A packet's timestamp, made from the sender's time and the presentation delay
\* in wrapping arithmetic, expands to the presentation time that was meant.
THEOREM StampRecovery ==
    ASSUME NEW time \in PtpTimes, NEW delay \in Nat, NEW reference \in PtpTimes
    PROVE  StampRecoveredAt(time, delay, reference)
<1> DEFINE ns == AsNanos(time)
           due == ns + delay
           ref == AsNanos(reference)
<1>1. Wrap \in Nat \ {0}
  BY TimeAssumption
<1>2. ns \in Int /\ ref \in Int
  <2>1. time.seconds * Giga \in Int /\ reference.seconds * Giga \in Int
    BY TimeAssumption DEF PtpTimes
  <2>2. QED
    BY <2>1, TimeAssumption DEF PtpTimes, AsNanos
<1>3. ToAvtp(time) = ns % Wrap
  BY ToAvtpIsModulo
<1> HIDE DEF ns, ref
<1>4. ns % Wrap \in Int /\ ns \div Wrap \in Int /\ ns = Wrap * (ns \div Wrap) + (ns % Wrap)
  BY <1>1, <1>2, Division
<1>5. Wrap * (ns \div Wrap) \in Int
  BY <1>1, <1>4
<1>6. due = Wrap * (ns \div Wrap) + ((ns % Wrap) + delay)
  BY <1>4, <1>5
<1>7. due % Wrap = ((ns % Wrap) + delay) % Wrap
  <2> DEFINE b == (ns % Wrap) + delay
             q == ns \div Wrap
  <2>1. due \in Int /\ b \in Int /\ q \in Int /\ due = Wrap * q + b
    BY <1>2, <1>4, <1>6
  <2> HIDE DEF due, b, q
  <2>2. QED
    BY ONLY <1>1, <2>1, Congruent DEF b
<1>8. WrappingAdd(ToAvtp(time), delay) = due % Wrap
  BY <1>3, <1>7 DEF WrappingAdd
<1>9. due \in Int
  BY <1>2
<1> HIDE DEF due
<1>10. 2 * Distance(due, ref) < Wrap => ExpandNs(due % Wrap, ref) = due
  BY <1>2, <1>9, ExpandRecovers
<1>11. QED
  BY <1>8, <1>10 DEF StampRecoveredAt, due, ns, ref

\* from_ns_i128 and as_nanos are inverse on every representable time.
THEOREM NanosRoundTrip ==
    ASSUME NEW time \in PtpTimes
    PROVE  FromNs(AsNanos(time)) = time
<1> DEFINE s == time.seconds
           n == time.nanoseconds
<1>1. s \in MinSeconds..MaxSeconds /\ n \in 0..(Giga - 1) /\ Giga \in Nat \ {0}
  BY TimeAssumption DEF PtpTimes
<1>2. time = [seconds |-> s, nanoseconds |-> n]
  BY DEF PtpTimes
<1> HIDE DEF s, n
<1>3. s \in Int /\ n \in Int /\ 0 <= n /\ n < Giga
  BY <1>1, TimeAssumption
<1>4. (Giga * s + n) \div Giga = s /\ (Giga * s + n) % Giga = n
  BY <1>1, <1>3, Quotient
<1>5. AsNanos(time) = Giga * s + n
  <2>1. s * Giga = Giga * s
    BY <1>1, <1>3
  <2>2. QED
    BY <2>1 DEF AsNanos, s, n
<1>6. QED
  BY <1>1, <1>2, <1>4, <1>5 DEF FromNs

\* The derived order of PtpTime is the order of time.
THEOREM TimesAreOrdered ==
    ASSUME NEW a \in PtpTimes, NEW b \in PtpTimes
    PROVE  Before(a, b) <=> AsNanos(a) < AsNanos(b)
<1>1. /\ a.seconds \in Int /\ b.seconds \in Int
      /\ a.nanoseconds \in 0..(Giga - 1) /\ b.nanoseconds \in 0..(Giga - 1)
      /\ Giga \in Nat \ {0}
  BY TimeAssumption DEF PtpTimes
<1>2. /\ a.seconds * Giga = Giga * a.seconds /\ b.seconds * Giga = Giga * b.seconds
      /\ Giga * a.seconds \in Int /\ Giga * b.seconds \in Int
  BY <1>1
<1>3. CASE a.seconds < b.seconds
  <2>1. Giga * b.seconds >= Giga * a.seconds + Giga
    BY <1>1, <1>3, Multiples
  <2>2. QED
    BY <1>1, <1>2, <1>3, <2>1 DEF Before, AsNanos
<1>4. CASE a.seconds = b.seconds
  BY <1>1, <1>2, <1>4 DEF Before, AsNanos
<1>5. CASE a.seconds > b.seconds
  <2>1. Giga * a.seconds >= Giga * b.seconds + Giga
    BY <1>1, <1>5, Multiples
  <2>2. QED
    BY <1>1, <1>2, <1>5, <2>1 DEF Before, AsNanos
<1>6. QED
  BY <1>1, <1>3, <1>4, <1>5

-----------------------------------------------------------------------------
(* The tool *)

LEMMA Nanos ==
    ASSUME NEW time \in PtpTimes
    PROVE  AsNanos(time) \in Int /\ time # NoTime
<1>1. time.seconds \in Int /\ time.nanoseconds \in Int /\ Giga \in Nat
  BY TimeAssumption DEF PtpTimes
<1>2. time.seconds * Giga \in Int
  BY <1>1
<1>3. time.seconds # MaxSeconds + 1
  BY TimeAssumption DEF PtpTimes
<1>4. QED
  BY <1>1, <1>2, <1>3 DEF AsNanos, NoTime

\* A conversion that succeeds returns a time with exactly the nanoseconds given.
LEMMA FromNsExact ==
    ASSUME NEW ns \in Int, FromNs(ns) # NoTime
    PROVE  FromNs(ns) \in PtpTimes /\ AsNanos(FromNs(ns)) = ns
<1>1. Giga \in Nat \ {0}
  BY TimeAssumption
<1>2. /\ ns \div Giga \in Int /\ ns % Giga \in 0..(Giga - 1)
      /\ ns = Giga * (ns \div Giga) + (ns % Giga)
  BY <1>1, Division
<1>3. /\ ns \div Giga \in MinSeconds..MaxSeconds
      /\ FromNs(ns) = [seconds |-> ns \div Giga, nanoseconds |-> ns % Giga]
  BY DEF FromNs
<1>4. FromNs(ns) \in PtpTimes
  BY <1>2, <1>3 DEF PtpTimes
<1>5. (ns \div Giga) * Giga = Giga * (ns \div Giga)
  BY <1>1, <1>2
<1>6. QED
  BY <1>2, <1>3, <1>4, <1>5 DEF AsNanos

\* The start of a periodic output is more than a second after the time it was
\* computed from, at whatever nanosecond of its second that was.
LEMMA StartIsLater ==
    ASSUME NEW now \in PtpTimes
    PROVE  AsNanos(now) + Giga < AsNanos(DefaultStart(now))
<1> DEFINE s == now.seconds
           n == now.nanoseconds
<1>1. s \in Int /\ n \in 0..(Giga - 1) /\ Giga \in Nat \ {0}
  BY TimeAssumption DEF PtpTimes
<1>2. AsNanos(DefaultStart(now)) = (s + 2) * Giga /\ AsNanos(now) = s * Giga + n
  BY <1>1 DEF AsNanos, DefaultStart
<1> HIDE DEF s, n
<1>3. (s + 2) * Giga = s * Giga + 2 * Giga /\ s * Giga \in Int
  BY <1>1
<1>4. QED
  BY <1>1, <1>2, <1>3

-----------------------------------------------------------------------------
(* Types *)

LEMMA RunKept ==
    ASSUME TypeOK, NEW t \in Tools, NEW run \in Runs, WellFormed(run), Calls(t, run)
    PROVE  tool' \in [Tools -> Runs] /\ \A u \in Tools : WellFormed(tool'[u])
<1>1. tool' = [tool EXCEPT ![t] = run] /\ tool \in [Tools -> Runs]
  BY DEF Calls, TypeOK
<1>2. tool' \in [Tools -> Runs]
  BY <1>1
<1>3. ASSUME NEW u \in Tools PROVE WellFormed(tool'[u])
  <2>1. CASE u = t
    BY <1>1, <2>1
  <2>2. CASE u # t
    <3>1. tool'[u] = tool[u]
      BY <1>1, <2>2
    <3>2. QED
      BY <3>1 DEF TypeOK
  <2>3. QED
    BY <2>1, <2>2
<1>4. QED
  BY <1>2, <1>3

LEMMA NoRunType == NoRun \in Runs /\ WellFormed(NoRun)
<1>1. NoTime \in [seconds : Int, nanoseconds : 0..(Giga - 1)] /\ 0 \in 0..MaxCount
  BY TimeAssumption, ToolAssumption DEF NoTime
<1>2. QED
  BY <1>1 DEF NoRun, Runs, WellFormed

\* The next system call of a run that has enabled timestamps or read one.
LEMMA ReadingType ==
    ASSUME NEW run \in Runs, run.command = "extts"
    PROVE  Reading(run) \in Runs /\ WellFormed(Reading(run))
<1>1. run.left \in 0..MaxCount /\ MaxCount \in Nat
  BY ToolAssumption DEF Runs
<1>2. CASE run.left = 0
  BY <1>2 DEF Reading, Disabling, Runs, WellFormed
<1>3. CASE run.left # 0
  <2>1. run.left > 0
    BY <1>1, <1>3
  <2>2. QED
    BY <1>3, <2>1 DEF Reading, Runs, WellFormed
<1>4. QED
  BY <1>2, <1>3

\* One disjunct after the other; what a run becomes is a run.
LEMMA StepType == TypeOK /\ [Next]_vars => TypeOK'
<1> SUFFICES ASSUME TypeOK, [Next]_vars PROVE TypeOK'
  OBVIOUS
<1> USE NoRunType
<1> DEFINE Device == /\ clock' = clock /\ kernel' = kernel /\ output' = output
                     /\ capture' = capture /\ events' = events /\ pin' = pin
                     /\ leftOn' = leftOn
<1>1. ASSUME NEW t \in Tools, NEW run \in Runs, WellFormed(run), Calls(t, run),
             UNCHANGED <<clock, kernel, pin>>,
             output' \in {"off", "start", "phase"}, capture' \in BOOLEAN,
             leftOn' \in BOOLEAN, events' \in 0..MaxEvents
      PROVE  TypeOK'
  BY <1>1, RunKept DEF TypeOK
<1>2. ASSUME NEW t \in Tools PROVE tool[t] \in Runs /\ WellFormed(tool[t])
  BY <1>2 DEF TypeOK
<1>3. ASSUME NEW t \in Tools, Perout(t) \/ PeroutPhase(t) \/ StopPerout(t) \/ StopExtts(t)
      PROVE  TypeOK'
  <2>1. UNCHANGED <<clock, deviceVars>>
    BY <1>3 DEF Perout, PeroutPhase, StopPerout, StopExtts, Asked
  <2>2. \E run \in Runs : WellFormed(run) /\ Calls(t, run)
    BY <1>3 DEF Perout, PeroutPhase, StopPerout, StopExtts, NoRun, Runs, WellFormed
  <2>3. QED
    BY <1>1, <2>1, <2>2 DEF deviceVars, TypeOK
<1>4. ASSUME NEW t \in Tools, GetTime(t) PROVE TypeOK'
  <2>1. UNCHANGED <<clock, deviceVars>>
    BY <1>4 DEF GetTime
  <2>2. DefaultStart(clock) \in [seconds : Int, nanoseconds : 0..(Giga - 1)]
    BY TimeAssumption DEF DefaultStart, TypeOK, PtpTimes
  <2>3. \E run \in Runs : WellFormed(run) /\ Calls(t, run)
    <3>1. CASE Ended(t)
      BY <3>1 DEF Ended
    <3>2. CASE Calls(t, [tool[t] EXCEPT !.at = "perout2", !.read = clock,
                                        !.start = DefaultStart(clock)])
      <4> DEFINE run == [tool[t] EXCEPT !.at = "perout2", !.read = clock,
                                        !.start = DefaultStart(clock)]
      <4>1. tool[t] \in Runs /\ WellFormed(tool[t]) /\ tool[t].at = "gettime" /\ clock \in PtpTimes
        BY <1>2, <1>4 DEF GetTime, TypeOK
      <4>2. run \in Runs
        BY <2>2, <4>1 DEF Runs
      <4>3. WellFormed(run)
        BY <4>1 DEF Runs, WellFormed
      <4>4. QED
        BY <3>2, <4>2, <4>3
    <3>3. QED
      BY <1>4, <3>1, <3>2 DEF GetTime
  <2>4. QED
    BY <1>1, <2>1, <2>3 DEF deviceVars, TypeOK
<1>5. ASSUME NEW t \in Tools, PeroutRequest2(t) \/ PeroutRequest1(t) PROVE TypeOK'
  <2>1. UNCHANGED <<clock, kernel, capture, events, pin, leftOn>>
    BY <1>5 DEF PeroutRequest2, PeroutRequest1
  <2>2. output' \in {"off", "start", "phase"}
    BY <1>5 DEF PeroutRequest2, PeroutRequest1, StartsOutput, PeroutAsked, TypeOK
  <2>3. \E run \in Runs : WellFormed(run) /\ Calls(t, run)
    <3>1. CASE Ended(t)
      BY <3>1 DEF Ended
    <3>2. CASE PeroutRequest2(t) /\ Calls(t, [tool[t] EXCEPT !.at = "perout1"])
      BY <1>2, <3>2 DEF PeroutRequest2, Runs, WellFormed
    <3>3. QED
      BY <1>5, <3>1, <3>2 DEF PeroutRequest2, PeroutRequest1, StartsOutput, PeroutAsked
  <2>4. QED
    BY <1>1, <2>1, <2>2, <2>3 DEF TypeOK
<1>6. ASSUME NEW t \in Tools, Extts(t) PROVE TypeOK'
  <2>1. PICK count \in 0..MaxCount :
            Calls(t, [NoRun EXCEPT !.at = "extts2", !.command = "extts",
                                   !.left = count, !.on = TRUE])
    BY <1>6 DEF Extts
  <2>2. UNCHANGED <<clock, deviceVars>>
    BY <1>6 DEF Extts, Asked
  <2>3. \E run \in Runs : WellFormed(run) /\ Calls(t, run)
    BY <2>1 DEF NoRun, Runs, WellFormed
  <2>4. QED
    BY <1>1, <2>2, <2>3 DEF deviceVars, TypeOK
<1>7. ASSUME NEW t \in Tools, ExttsRequest2(t) \/ ExttsRequest1(t) PROVE TypeOK'
  <2>1. UNCHANGED <<clock, kernel, output, events, pin>>
    BY <1>7 DEF ExttsRequest2, ExttsRequest1
  <2>2. tool[t] \in Runs /\ WellFormed(tool[t]) /\ tool[t].at \in {"extts2", "extts1"}
    BY <1>2, <1>7 DEF ExttsRequest2, ExttsRequest1
  <2>3. capture' \in BOOLEAN /\ leftOn' \in BOOLEAN
    <3>1. tool[t].on \in BOOLEAN
      BY <2>2 DEF Runs
    <3>2. capture \in BOOLEAN /\ leftOn \in BOOLEAN
      BY DEF TypeOK
    <3>3. QED
      BY <1>7, <3>1, <3>2 DEF ExttsRequest2, ExttsRequest1, SetsCapture, Granted, LeavesOn
  <2>4. \E run \in Runs : WellFormed(run) /\ Calls(t, run)
    <3>1. CASE Ended(t)
      BY <3>1 DEF Ended
    <3>2. CASE Calls(t, Reading(tool[t])) /\ tool[t].on
      <4>1. tool[t].command = "extts"
        BY <2>2, <3>2 DEF WellFormed
      <4>2. QED
        BY <2>2, <3>2, <4>1, ReadingType
    <3>3. CASE Calls(t, [tool[t] EXCEPT !.at = "extts1"])
      BY <2>2, <3>3 DEF Runs, WellFormed
    <3>4. QED
      BY <1>7, <3>1, <3>2, <3>3 DEF ExttsRequest2, ExttsRequest1, SetsCapture, Granted
  <2>5. QED
    BY <1>1, <2>1, <2>3, <2>4 DEF TypeOK
<1>8. ASSUME NEW t \in Tools, ReadEvent(t) PROVE TypeOK'
  <2>1. UNCHANGED <<clock, kernel, output, capture, pin, leftOn>>
    BY <1>8 DEF ReadEvent
  <2>2. events' \in 0..MaxEvents
    BY <1>8, ToolAssumption DEF ReadEvent, TypeOK
  <2>3. tool[t] \in Runs /\ tool[t].command = "extts" /\ tool[t].left > 0
    BY <1>2, <1>8 DEF ReadEvent, WellFormed
  <2>4. tool[t].left - 1 \in 0..MaxCount
    BY <2>3, ToolAssumption DEF Runs
  <2> DEFINE run == [tool[t] EXCEPT !.left = @ - 1]
  <2>5. run \in Runs /\ run.command = "extts"
    BY <2>3, <2>4 DEF Runs
  <2>6. Calls(t, Reading(run))
    BY <1>8 DEF ReadEvent
  <2> HIDE DEF run
  <2>7. Reading(run) \in Runs /\ WellFormed(Reading(run))
    BY <2>5, ReadingType
  <2>8. QED
    BY <1>1, <2>1, <2>2, <2>6, <2>7 DEF TypeOK
<1>9. ASSUME NEW t \in Tools, ReadFails(t) PROVE TypeOK'
  <2>1. UNCHANGED <<clock, kernel, output, capture, events, pin>> /\ Calls(t, NoRun)
    BY <1>9 DEF ReadFails, Ended
  <2>2. leftOn' \in BOOLEAN
    BY <1>9 DEF ReadFails, LeavesOn, TypeOK
  <2>3. QED
    BY <1>1, <2>1, <2>2 DEF TypeOK
<1>10. ASSUME NEW t \in Tools, SetPin(t) PROVE TypeOK'
  <2>1. capture' \in BOOLEAN /\ leftOn' \in BOOLEAN
    BY <1>10 DEF SetPin, TypeOK
  <2>2. QED
    BY <1>10, <2>1 DEF SetPin, TypeOK
<1>11. CASE Edge
  <2>1. events' \in 0..MaxEvents
    BY <1>11, ToolAssumption DEF Edge, TypeOK
  <2>2. QED
    BY <1>11, <2>1 DEF Edge, TypeOK
<1>12. CASE Tick
  <2>1. AsNanos(clock) + 1 \in Int
    BY Nanos DEF TypeOK
  <2>2. clock' \in PtpTimes
    BY <1>12, <2>1, FromNsExact DEF Tick
  <2>3. QED
    BY <1>12, <2>2 DEF Tick, deviceVars, TypeOK
<1>13. CASE UNCHANGED vars
  BY <1>13 DEF vars, deviceVars, TypeOK
<1>14. QED
  BY <1>3, <1>4, <1>5, <1>6, <1>7, <1>8, <1>9, <1>10, <1>11, <1>12, <1>13 DEF Next

LEMMA InitType == Init => TypeOK
<1> SUFFICES ASSUME Init PROVE TypeOK
  OBVIOUS
<1>1. clock \in PtpTimes
  BY TimeAssumption DEF Init, PtpTimes
<1>2. 0 \in 0..MaxEvents
  BY ToolAssumption
<1>3. tool \in [Tools -> Runs] /\ \A t \in Tools : WellFormed(tool[t])
  BY NoRunType DEF Init
<1>4. QED
  BY <1>1, <1>2, <1>3 DEF Init, TypeOK

\* TypeOK is inductive.
THEOREM TypeCorrect == Spec => []TypeOK
<1>1. QED
  BY InitType, StepType, PTL DEF Spec

-----------------------------------------------------------------------------
(* Periodic output *)

\* A run keeps the start it has computed, and the clock keeps within the longest
\* suspension of the time that was read for it.
Timed ==
    \A t \in Tools : tool[t].read # NoTime =>
        /\ tool[t].read \in PtpTimes
        /\ tool[t].start = DefaultStart(tool[t].read)
        /\ AsNanos(clock) <= AsNanos(tool[t].read) + MaxSuspension

\* Steps other than reading the clock leave a run its times or drop them.
LEMMA TimesKept ==
    ASSUME TypeOK, Timed, NEW t \in Tools, NEW run \in Runs, Calls(t, run), clock' = clock,
           run.read # NoTime => run.read = tool[t].read /\ run.start = tool[t].start
    PROVE  Timed'
<1>1. tool' = [tool EXCEPT ![t] = run] /\ tool \in [Tools -> Runs]
  BY DEF Calls, TypeOK
<1>2. SUFFICES ASSUME NEW u \in Tools, tool'[u].read # NoTime
               PROVE  /\ tool'[u].read \in PtpTimes
                      /\ tool'[u].start = DefaultStart(tool'[u].read)
                      /\ AsNanos(clock) <= AsNanos(tool'[u].read) + MaxSuspension
  BY DEF Timed
<1>3. CASE u = t
  <2>1. tool'[u] = run
    BY <1>1, <1>3
  <2>2. QED
    BY <1>2, <1>3, <2>1 DEF Timed
<1>4. CASE u # t
  <2>1. tool'[u] = tool[u]
    BY <1>1, <1>4
  <2>2. QED
    BY <1>2, <2>1 DEF Timed
<1>5. QED
  BY <1>3, <1>4

LEMMA StepTimed == TypeOK /\ Timed /\ [Next]_vars => Timed'
<1> SUFFICES ASSUME TypeOK, Timed, [Next]_vars PROVE Timed'
  OBVIOUS
<1> USE NoRunType
<1>1. NoRun.read = NoTime
  BY DEF NoRun
<1>2. ASSUME NEW t \in Tools PROVE tool[t] \in Runs /\ WellFormed(tool[t])
  BY <1>2 DEF TypeOK
<1>3. ASSUME NEW t \in Tools, Ended(t), clock' = clock PROVE Timed'
  BY <1>1, <1>3, TimesKept DEF Ended
<1>4. ASSUME NEW t \in Tools, Perout(t) \/ PeroutPhase(t) \/ StopPerout(t) \/ StopExtts(t)
      PROVE  Timed'
  <2>1. \E run \in Runs : run.read = NoTime /\ Calls(t, run)
    BY <1>4 DEF Perout, PeroutPhase, StopPerout, StopExtts, NoRun, Runs
  <2>2. clock' = clock
    BY <1>4 DEF Perout, PeroutPhase, StopPerout, StopExtts, Asked
  <2>3. QED
    BY <2>1, <2>2, TimesKept
<1>5. ASSUME NEW t \in Tools, GetTime(t) PROVE Timed'
  <2>1. CASE Ended(t)
    BY <1>3, <1>5, <2>1 DEF GetTime
  <2>2. CASE Calls(t, [tool[t] EXCEPT !.at = "perout2", !.read = clock,
                                      !.start = DefaultStart(clock)])
    <3>1. tool' = [tool EXCEPT ![t] = [tool[t] EXCEPT !.at = "perout2", !.read = clock,
                                                      !.start = DefaultStart(clock)]]
      BY <2>2 DEF Calls
    <3>2. tool \in [Tools -> Runs] /\ clock \in PtpTimes /\ clock' = clock
      BY <1>5 DEF TypeOK, GetTime
    <3>3. AsNanos(clock) <= AsNanos(clock) + MaxSuspension
      BY <3>2, Nanos, ToolAssumption, TimeAssumption
    <3>4. SUFFICES ASSUME NEW u \in Tools, tool'[u].read # NoTime
                   PROVE  /\ tool'[u].read \in PtpTimes
                          /\ tool'[u].start = DefaultStart(tool'[u].read)
                          /\ AsNanos(clock) <= AsNanos(tool'[u].read) + MaxSuspension
      BY <3>2 DEF Timed
    <3>5. CASE u = t
      <4>1. tool'[u].read = clock /\ tool'[u].start = DefaultStart(clock)
        BY <1>2, <3>1, <3>2, <3>5 DEF Runs
      <4>2. QED
        BY <3>2, <3>3, <4>1
    <3>6. CASE u # t
      <4>1. tool'[u] = tool[u]
        BY <3>1, <3>2, <3>6
      <4>2. QED
        BY <3>4, <4>1 DEF Timed
    <3>7. QED
      BY <3>5, <3>6
  <2>3. QED
    BY <1>5, <2>1, <2>2 DEF GetTime
<1>6. ASSUME NEW t \in Tools, PeroutRequest2(t) \/ PeroutRequest1(t) PROVE Timed'
  <2>1. clock' = clock
    BY <1>6 DEF PeroutRequest2, PeroutRequest1
  <2>2. CASE Calls(t, [tool[t] EXCEPT !.at = "perout1"])
    <3>1. [tool[t] EXCEPT !.at = "perout1"] \in Runs
      BY <1>2 DEF Runs
    <3>2. /\ [tool[t] EXCEPT !.at = "perout1"].read = tool[t].read
          /\ [tool[t] EXCEPT !.at = "perout1"].start = tool[t].start
      BY <1>2 DEF Runs
    <3>3. QED
      BY <2>1, <2>2, <3>1, <3>2, TimesKept
  <2>3. QED
    BY <1>3, <1>6, <2>1, <2>2 DEF PeroutRequest2, PeroutRequest1, StartsOutput, PeroutAsked
<1>7. ASSUME NEW t \in Tools, Extts(t) PROVE Timed'
  <2>1. \E run \in Runs : run.read = NoTime /\ Calls(t, run)
    BY <1>7 DEF Extts, NoRun, Runs
  <2>2. clock' = clock
    BY <1>7 DEF Extts, Asked
  <2>3. QED
    BY <2>1, <2>2, TimesKept
<1>8. ASSUME NEW t \in Tools, NEW run \in Runs, run.read = tool[t].read,
             run.start = tool[t].start, run.command = "extts",
             Calls(t, Reading(run)), clock' = clock
      PROVE  Timed'
  <2>1. Reading(run).read = run.read /\ Reading(run).start = run.start
    BY <1>8 DEF Reading, Disabling, Runs
  <2>2. QED
    BY <1>8, <2>1, ReadingType, TimesKept
<1>9. ASSUME NEW t \in Tools, ExttsRequest2(t) \/ ExttsRequest1(t) PROVE Timed'
  <2>1. clock' = clock
    BY <1>9 DEF ExttsRequest2, ExttsRequest1
  <2>2. CASE Calls(t, [tool[t] EXCEPT !.at = "extts1"])
    <3>1. [tool[t] EXCEPT !.at = "extts1"] \in Runs
      BY <1>2 DEF Runs
    <3>2. /\ [tool[t] EXCEPT !.at = "extts1"].read = tool[t].read
          /\ [tool[t] EXCEPT !.at = "extts1"].start = tool[t].start
      BY <1>2 DEF Runs
    <3>3. QED
      BY <2>1, <2>2, <3>1, <3>2, TimesKept
  <2>3. CASE tool[t].on /\ Calls(t, Reading(tool[t]))
    <3>1. tool[t].command = "extts"
      BY <1>2, <1>9, <2>3 DEF WellFormed, ExttsRequest2, ExttsRequest1
    <3>2. QED
      BY <1>2, <1>8, <2>1, <2>3, <3>1
  <2>4. QED
    BY <1>3, <1>9, <2>1, <2>2, <2>3 DEF ExttsRequest2, ExttsRequest1, SetsCapture, Granted
<1>10. ASSUME NEW t \in Tools, ReadEvent(t) PROVE Timed'
  <2> DEFINE run == [tool[t] EXCEPT !.left = @ - 1]
  <2>1. clock' = clock /\ Calls(t, Reading(run))
    BY <1>10 DEF ReadEvent
  <2>2. tool[t] \in Runs /\ tool[t].command = "extts" /\ tool[t].left > 0
    BY <1>2, <1>10 DEF ReadEvent, WellFormed
  <2>3. tool[t].left - 1 \in 0..MaxCount
    BY <2>2, ToolAssumption DEF Runs
  <2>4. /\ run \in Runs /\ run.command = "extts"
        /\ run.read = tool[t].read /\ run.start = tool[t].start
    BY <2>2, <2>3 DEF Runs
  <2> HIDE DEF run
  <2>5. QED
    BY <1>8, <2>1, <2>4
<1>11. ASSUME NEW t \in Tools, ReadFails(t) PROVE Timed'
  BY <1>3, <1>11 DEF ReadFails
<1>12. CASE Tick
  <2>1. AsNanos(clock) + 1 \in Int
    BY Nanos DEF TypeOK
  <2>2. AsNanos(clock') = AsNanos(clock) + 1
    BY <1>12, <2>1, FromNsExact DEF Tick
  <2>3. tool' = tool
    BY <1>12 DEF Tick
  <2>4. QED
    BY <1>12, <2>2, <2>3 DEF Tick, Timed
<1>13. CASE Edge \/ (\E t \in Tools : SetPin(t)) \/ UNCHANGED vars
  <2>1. UNCHANGED <<clock, tool>>
    BY <1>13 DEF Edge, SetPin, vars
  <2>2. QED
    BY <2>1 DEF Timed
<1>14. QED
  BY <1>4, <1>5, <1>6, <1>7, <1>9, <1>10, <1>11, <1>12, <1>13 DEF Next

\* The periodic output is asked for ahead of its start: a second of slack and the
\* suspension that is assumed leave the clock behind it, whatever it read.
THEOREM AskedInTime == Spec => []StartIsAhead
<1>1. Init => Timed
  BY NoRunType DEF Init, Timed, NoRun
<1>2. ASSUME TypeOK, Timed PROVE StartIsAhead
  <2>1. SUFFICES ASSUME NEW t \in Tools, tool[t].read # NoTime
                 PROVE  AsNanos(clock) < AsNanos(tool[t].start)
    BY DEF StartIsAhead
  <2>2. /\ tool[t].read \in PtpTimes /\ tool[t].start = DefaultStart(tool[t].read)
        /\ AsNanos(clock) <= AsNanos(tool[t].read) + MaxSuspension
    BY <1>2, <2>1 DEF Timed
  <2>3. AsNanos(tool[t].read) + Giga < AsNanos(DefaultStart(tool[t].read))
    BY <2>2, StartIsLater
  <2>4. AsNanos(clock) \in Int /\ AsNanos(tool[t].read) \in Int /\ MaxSuspension \in 0..Giga
        /\ Giga \in Nat
    BY <1>2, <2>2, Nanos, ToolAssumption, TimeAssumption DEF TypeOK
  <2>5. AsNanos(DefaultStart(tool[t].read)) \in Int
    <3>1. tool[t].read.seconds \in Int
      BY <2>2, TimeAssumption DEF PtpTimes
    <3>2. (tool[t].read.seconds + 2) * Giga \in Int
      BY <2>4, <3>1
    <3>3. QED
      BY <3>2 DEF AsNanos, DefaultStart
  <2>6. QED
    BY <2>2, <2>3, <2>4, <2>5
<1>3. QED
  BY InitType, StepType, StepTimed, <1>1, <1>2, PTL DEF Spec

-----------------------------------------------------------------------------
(* External timestamps *)

\* A step of one run keeps the others, and what it keeps of its own duty.
LEMMA DutyKept ==
    ASSUME TypeOK, CaptureIsAccountedFor, NEW t \in Tools, NEW run, Calls(t, run),
           capture' = capture, leftOn => leftOn',
           capture /\ WillDisable(tool[t]) => leftOn' \/ WillDisable(run)
    PROVE  CaptureIsAccountedFor'
<1>1. tool' = [tool EXCEPT ![t] = run] /\ tool \in [Tools -> Runs]
  BY DEF Calls, TypeOK
<1>2. SUFFICES ASSUME capture, ~leftOn' PROVE \E u \in Tools : WillDisable(tool'[u])
  BY DEF CaptureIsAccountedFor
<1>3. PICK u \in Tools : WillDisable(tool[u])
  BY <1>2 DEF CaptureIsAccountedFor
<1>4. CASE u = t
  <2>1. WillDisable(run) /\ tool'[t] = run
    BY <1>1, <1>2, <1>3, <1>4
  <2>2. QED
    BY <2>1
<1>5. CASE u # t
  <2>1. tool'[u] = tool[u]
    BY <1>1, <1>5
  <2>2. QED
    BY <1>3, <2>1
<1>6. QED
  BY <1>4, <1>5

LEMMA ReadingWillDisable ==
    ASSUME NEW run \in Runs, run.command = "extts"
    PROVE  WillDisable(Reading(run))
BY DEF Reading, Disabling, WillDisable, Runs

LEMMA StepDuty == TypeOK /\ CaptureIsAccountedFor /\ [Next]_vars => CaptureIsAccountedFor'
<1> SUFFICES ASSUME TypeOK, CaptureIsAccountedFor, [Next]_vars PROVE CaptureIsAccountedFor'
  OBVIOUS
<1>1. ~WillDisable(NoRun)
  BY DEF NoRun, WillDisable
<1>2. ASSUME NEW t \in Tools PROVE tool[t] \in Runs /\ WellFormed(tool[t])
  BY <1>2 DEF TypeOK
<1>3. ASSUME NEW t \in Tools, Perout(t) \/ PeroutPhase(t) \/ StopPerout(t)
                               \/ Extts(t) \/ StopExtts(t)
      PROVE  CaptureIsAccountedFor'
  <2>1. ~WillDisable(tool[t]) /\ capture' = capture /\ leftOn' = leftOn
    BY <1>1, <1>3 DEF Perout, PeroutPhase, StopPerout, Extts, StopExtts, Asked, deviceVars
  <2>2. \E run : Calls(t, run)
    BY <1>3 DEF Perout, PeroutPhase, StopPerout, Extts, StopExtts
  <2>3. QED
    BY <2>1, <2>2, DutyKept
<1>4. ASSUME NEW t \in Tools, GetTime(t) \/ PeroutRequest2(t) \/ PeroutRequest1(t)
      PROVE  CaptureIsAccountedFor'
  <2>1. ~WillDisable(tool[t])
    <3>1. tool[t].at \in {"gettime", "perout2", "perout1"}
      BY <1>4 DEF GetTime, PeroutRequest2, PeroutRequest1
    <3>2. QED
      BY <1>2, <3>1 DEF WellFormed, WillDisable
  <2>2. capture' = capture /\ leftOn' = leftOn
    BY <1>4 DEF GetTime, PeroutRequest2, PeroutRequest1, deviceVars
  <2>3. \E run : Calls(t, run)
    BY <1>4 DEF GetTime, PeroutRequest2, PeroutRequest1, StartsOutput, PeroutAsked, Ended
  <2>4. QED
    BY <2>1, <2>2, <2>3, DutyKept
<1>5. ASSUME NEW t \in Tools, NEW run, Calls(t, run), WillDisable(run)
      PROVE  CaptureIsAccountedFor'
  <2>1. tool'[t] = run
    BY <1>5 DEF Calls, TypeOK
  <2>2. QED
    BY <1>5, <2>1 DEF CaptureIsAccountedFor
<1>6. ASSUME NEW t \in Tools, Ended(t), capture' = capture, LeavesOn(t)
      PROVE  CaptureIsAccountedFor'
  <2>1. WillDisable(tool[t]) => tool[t].command = "extts"
    BY DEF WillDisable
  <2>2. leftOn => leftOn'
    BY <1>6 DEF LeavesOn
  <2>3. capture /\ WillDisable(tool[t]) => leftOn'
    BY <1>6, <2>1 DEF LeavesOn
  <2>4. QED
    BY <1>6, <2>2, <2>3, DutyKept DEF Ended
<1>7. ASSUME NEW t \in Tools, ExttsRequest2(t) \/ ExttsRequest1(t)
      PROVE  CaptureIsAccountedFor'
  <2>1. tool[t].at \in {"extts2", "extts1"} /\ tool[t] \in Runs /\ WellFormed(tool[t])
    BY <1>2, <1>7 DEF ExttsRequest2, ExttsRequest1
  <2>2. CASE SetsCapture(tool[t].on) /\ Granted(t)
    <3>1. CASE tool[t].on
      <4>1. WillDisable(Reading(tool[t]))
        BY <2>1, <3>1, ReadingWillDisable DEF WellFormed
      <4>2. QED
        BY <1>5, <2>2, <3>1, <4>1 DEF Granted
    <3>2. CASE ~tool[t].on
      <4>1. ~capture'
        BY <2>2, <3>2 DEF SetsCapture
      <4>2. QED
        BY <4>1 DEF CaptureIsAccountedFor
    <3>3. QED
      BY <3>1, <3>2
  <2>3. CASE /\ Calls(t, [tool[t] EXCEPT !.at = "extts1"])
             /\ UNCHANGED <<capture, leftOn>>
    <3>1. WillDisable(tool[t]) => WillDisable([tool[t] EXCEPT !.at = "extts1"])
      BY <2>1 DEF WillDisable, Runs
    <3>2. QED
      BY <2>3, <3>1, DutyKept
  <2>4. CASE Ended(t) /\ UNCHANGED capture /\ tool[t].on /\ UNCHANGED leftOn
    <3>1. ~WillDisable(tool[t])
      BY <2>1, <2>4 DEF WillDisable
    <3>2. QED
      BY <2>4, <3>1, DutyKept DEF Ended
  <2>5. CASE Ended(t) /\ UNCHANGED capture /\ LeavesOn(t)
    BY <1>6, <2>5
  <2>6. QED
    BY <1>7, <2>2, <2>3, <2>4, <2>5 DEF ExttsRequest2, ExttsRequest1
<1>8. ASSUME NEW t \in Tools, ReadEvent(t) PROVE CaptureIsAccountedFor'
  <2> DEFINE run == [tool[t] EXCEPT !.left = @ - 1]
  <2>1. tool[t] \in Runs /\ tool[t].command = "extts" /\ tool[t].left > 0
    BY <1>2, <1>8 DEF ReadEvent, WellFormed
  <2>2. tool[t].left - 1 \in 0..MaxCount
    BY <2>1, ToolAssumption DEF Runs
  <2>3. run \in Runs /\ run.command = "extts"
    BY <2>1, <2>2 DEF Runs
  <2>4. Calls(t, Reading(run))
    BY <1>8 DEF ReadEvent
  <2> HIDE DEF run
  <2>5. QED
    BY <1>5, <2>3, <2>4, ReadingWillDisable
<1>9. ASSUME NEW t \in Tools, ReadFails(t) PROVE CaptureIsAccountedFor'
  BY <1>6, <1>9 DEF ReadFails
<1>10. ASSUME NEW t \in Tools, SetPin(t) PROVE CaptureIsAccountedFor'
  BY <1>10 DEF SetPin, CaptureIsAccountedFor
<1>11. CASE Tick \/ Edge \/ UNCHANGED vars
  <2>1. UNCHANGED <<capture, leftOn, tool>>
    BY <1>11 DEF Tick, Edge, vars, deviceVars
  <2>2. QED
    BY <2>1 DEF CaptureIsAccountedFor
<1>12. QED
  BY <1>3, <1>4, <1>7, <1>8, <1>9, <1>10, <1>11 DEF Next

\* However many runs of the tool interleave, and whichever version of the ioctl their
\* requests are handled by, timestamps that stay enabled have a run that will disable
\* them, or one that failed.
THEOREM NothingLeftEnabled == Spec => []CaptureIsAccountedFor
<1>1. Init => CaptureIsAccountedFor
  BY DEF Init, CaptureIsAccountedFor
<1>2. QED
  BY InitType, StepType, StepDuty, <1>1, PTL DEF Spec

-----------------------------------------------------------------------------
(* The conversions, at every time of the clock *)

\* new() carries whole seconds as from_ns_i128 divides them out.
LEMMA NewIsFromNs ==
    ASSUME NEW seconds \in MinSeconds..MaxSeconds, NEW nanos \in Nat
    PROVE  New(seconds, nanos) = FromNs(seconds * Giga + nanos)
<1> DEFINE q == nanos \div Giga
           r == nanos % Giga
<1>1. Giga \in Nat \ {0} /\ seconds \in Int /\ nanos \in Int
  BY TimeAssumption
<1>2. q \in Int /\ r \in 0..(Giga - 1) /\ nanos = Giga * q + r
  BY <1>1, Division
<1>3. q >= 0
  BY <1>1
<1> HIDE DEF q, r
<1>4. Giga * (seconds + q) = seconds * Giga + Giga * q /\ seconds * Giga \in Int
      /\ Giga * q \in Int
  BY <1>1, <1>2
<1>5. seconds * Giga + nanos = Giga * (seconds + q) + r
  BY <1>1, <1>2, <1>4
<1>6. /\ (seconds * Giga + nanos) \div Giga = seconds + q
      /\ (seconds * Giga + nanos) % Giga = r
  <2>1. seconds + q \in Int /\ r \in Int /\ 0 <= r /\ r < Giga
    BY <1>1, <1>2
  <2>2. /\ (Giga * (seconds + q) + r) \div Giga = seconds + q
        /\ (Giga * (seconds + q) + r) % Giga = r
    BY <1>1, <2>1, Quotient
  <2>3. QED
    BY <1>5, <2>2
<1>7. seconds + q \in MinSeconds..MaxSeconds <=> ~(seconds + q > MaxSeconds)
  BY <1>1, <1>2, <1>3, TimeAssumption
<1>8. New(seconds, nanos) = IF seconds + q > MaxSeconds THEN NoTime
                            ELSE [seconds |-> seconds + q, nanoseconds |-> r]
  BY DEF New, q, r
<1>9. QED
  BY <1>6, <1>7, <1>8 DEF FromNs

\* What a receiver expands is what the sender meant, for a sender's time and a delay
\* that put it anywhere within half a window of the receiver's clock.
THEOREM StampsRecovered == Spec => []StampRecovered
<1>1. ASSUME TypeOK PROVE StampRecovered
  <2>1. SUFFICES ASSUME NEW delay \in 0..(Wrap - 1),
                        NEW early \in (-(Wrap \div 2))..(Wrap \div 2),
                        FromNs(AsNanos(clock) + early - delay) # NoTime
                 PROVE  StampRecoveredAt(FromNs(AsNanos(clock) + early - delay), delay, clock)
    BY DEF StampRecovered
  <2>2. AsNanos(clock) \in Int /\ clock \in PtpTimes
    BY <1>1, Nanos DEF TypeOK
  <2>3. Wrap \div 2 \in Int /\ Wrap \in Nat
    BY TimeAssumption
  <2>4. delay \in Nat /\ early \in Int
    BY <2>3
  <2>5. AsNanos(clock) + early - delay \in Int
    BY <2>2, <2>4
  <2>6. FromNs(AsNanos(clock) + early - delay) \in PtpTimes
    BY <2>1, <2>5, FromNsExact
  <2>7. QED
    BY <2>2, <2>4, <2>6, StampRecovery
<1>2. QED
  BY InitType, StepType, <1>1, PTL DEF Spec

\* The conversions agree on one normal form at every time of the clock, and the derived
\* order of PtpTime is the order of time.
THEOREM ConversionsAgree == Spec => []TimesAreInstants
<1>1. ASSUME TypeOK PROVE TimesAreInstants
  <2>1. clock \in PtpTimes /\ clock.seconds \in MinSeconds..MaxSeconds
    BY <1>1 DEF TypeOK, PtpTimes
  <2>2. 0..(3 * Giga) \subseteq Nat
    BY TimeAssumption
  <2>3. QED
    BY <2>1, <2>2, NanosRoundTrip, NewIsFromNs, TimesAreOrdered DEF TimesAreInstants
<1>2. QED
  BY InitType, StepType, <1>1, PTL DEF Spec
=============================================================================
