------------------------------- MODULE AvtpTime -------------------------------
(***************************************************************************)
(* The two representations of time on an AVTP network: PtpTime (seconds    *)
(* and nanoseconds, src/ptp_phc/time.rs) and AvtpTimestamp, the low 32     *)
(* bits of the nanoseconds (src/avtp/timestamp.rs), with the arithmetic    *)
(* that moves between them.                                                *)
(***************************************************************************)
EXTENDS Integers

CONSTANTS
    Wrap,        \* 2^32, the values of an AVTP timestamp
    Giga,        \* nanoseconds in a second
    MinSeconds,  \* i64::MIN
    MaxSeconds   \* i64::MAX

ASSUME TimeAssumption ==
    /\ Wrap \in Nat \ {0} /\ Wrap % 2 = 0
    /\ Giga \in Nat \ {0}
    /\ MinSeconds \in Int /\ MaxSeconds \in Int /\ MinSeconds <= 0 /\ 0 <= MaxSeconds

Timestamps == 0..(Wrap - 1)
PtpTimes == [seconds : MinSeconds..MaxSeconds, nanoseconds : 0..(Giga - 1)]
\* What stands for a failed conversion: a record outside PtpTimes.
NoTime == [seconds |-> MaxSeconds + 1, nanoseconds |-> 0]

-----------------------------------------------------------------------------
(* PtpTime *)

\* PtpTime::as_nanos; i128 holds every value.
AsNanos(time) == time.seconds * Giga + time.nanoseconds

\* PtpTime::from_ns_i128: NoTime when the seconds leave the range of an i64.
TruncatedFromNs(ns) ==
    [seconds |-> IF ns >= 0 THEN ns \div Giga ELSE -((-ns) \div Giga),
     nanoseconds |-> ns % Giga]
FromNs(ns) ==
    IF ns \div Giga \in MinSeconds..MaxSeconds
    THEN [seconds |-> ns \div Giga, nanoseconds |-> ns % Giga]
    ELSE NoTime

\* PtpTime::new: whole seconds carry over; NoTime where the code panics.
New(seconds, nanos) ==
    IF seconds + nanos \div Giga > MaxSeconds THEN NoTime
    ELSE [seconds |-> seconds + nanos \div Giga, nanoseconds |-> nanos % Giga]

\* The derived Ord compares the fields in their order of declaration.
NanosFirst(a, b) ==
    \/ a.nanoseconds < b.nanoseconds
    \/ a.nanoseconds = b.nanoseconds /\ a.seconds < b.seconds
Before(a, b) ==
    \/ a.seconds < b.seconds
    \/ a.seconds = b.seconds /\ a.nanoseconds < b.nanoseconds

-----------------------------------------------------------------------------
(* AvtpTimestamp *)

\* From<PtpTime>: u64 wrapping arithmetic, then the low 32 bits.
U64 == Wrap * Wrap
ToAvtp(time) ==
    LET product == ((time.seconds % U64) * Giga) % U64
    IN  ((product + time.nanoseconds) % U64) % Wrap

\* AvtpTimestamp::wrapping_add
PlainAdd(ts, ns) == ts + ns
WrappingAdd(ts, ns) == (ts + ns) % Wrap

Distance(a, b) == IF a < b THEN b - a ELSE a - b

\* Iterator::min_by_key over three candidates: the first of the nearest.
Nearest(c1, c2, c3, reference) ==
    IF /\ Distance(c1, reference) <= Distance(c2, reference)
       /\ Distance(c1, reference) <= Distance(c3, reference) THEN c1
    ELSE IF Distance(c2, reference) <= Distance(c3, reference) THEN c2
    ELSE c3

\* The nanoseconds that AvtpTimestamp::expand_near computes.
ExpandForward(ts, reference) ==
    LET base == (reference \div Wrap) * Wrap + ts
    IN  IF base < reference THEN base + Wrap ELSE base
ExpandNs(ts, reference) ==
    LET base == (reference \div Wrap) * Wrap + ts
    IN  Nearest(base - Wrap, base, base + Wrap, reference)

\* AvtpTimestamp::expand_near; NoTime where the code panics.
ExpandNear(ts, time) == FromNs(ExpandNs(ts, AsNanos(time)))

-----------------------------------------------------------------------------
(* Properties of the conversions *)

\* The timestamp of a packet sent at `time` with a presentation delay, expanded
\* against a receiver's clock `reference`, is the presentation time that was
\* meant, when that lies less than half a window from the reference.
StampRecoveredAt(time, delay, reference) ==
    LET due == AsNanos(time) + delay
        ns == AsNanos(reference)
    IN  2 * Distance(due, ns) < Wrap =>
            ExpandNs(WrappingAdd(ToAvtp(time), delay), ns) = due
=============================================================================
