--------------------------- MODULE SyncClockProofs ---------------------------
(***************************************************************************)
(* Proofs about SyncClock, for every value of its constants: types and     *)
(* bounds, strict monotonicity, that it implements MonotonicClock, and     *)
(* that it tells steps of the hardware clock from drift and tracks it.     *)
(*                                                                         *)
(* The invariant relates the caller's view to the clock's own state: no    *)
(* caller has received more than last_returned.  It is not an equality,    *)
(* because ptp_time() may fail after elapsed() has already advanced        *)
(* last_returned.  Tracking adds what relates the loop's base to the       *)
(* clocks: the hardware clock has moved since by the local timer's span,   *)
(* the latency of a read and the drift (Follows).                          *)
(***************************************************************************)
EXTENDS SyncClock, TLAPS

\* No caller has received a duration beyond last_returned.
ReceivedBelowLast == highest <= last_returned

IInv == TypeOK /\ ReceivedBelowLast

-----------------------------------------------------------------------------
(* The arithmetic of the loop *)

\* Clamp returns a value within its bounds.
LEMMA ClampRange ==
    ASSUME NEW x \in Int, NEW lo \in Int, NEW hi \in Int, lo <= hi
    PROVE  Clamp(x, lo, hi) \in lo..hi
BY DEF Clamp

\* Both roundings of an integer quotient are integers.
LEMMA RoundingInt ==
    ASSUME NEW a \in Int, NEW b \in Nat \ {0}
    PROVE  RoundDiv(a, b) \in Int /\ TruncDiv(a, b) \in Int
<1>1. 2 * a + b \in Int /\ 2 * b \in Nat \ {0}
  OBVIOUS
<1>2. RoundDiv(a, b) \in Int
  BY <1>1 DEF RoundDiv
<1>3. a \div b \in Int /\ -((-a) \div b) \in Int
  OBVIOUS
<1>4. QED
  BY <1>2, <1>3 DEF TruncDiv

\* The frequency stays within FREQ_MIN and FREQ_MAX.
LEMMA FrequencyRange ==
    ASSUME NEW freq \in (FreqOne - FreqDev)..(FreqOne + FreqDev),
           NEW ptpDiff \in Int, NEW dt \in Nat
    PROVE  FilteredFrequency(freq, ptpDiff, dt)
             \in (FreqOne - FreqDev)..(FreqOne + FreqDev)
<1> USE ClockAssumption
<1>1. CASE dt > MinSample
  <2> DEFINE num == (AlphaDen - 1) * freq * dt + FreqOne * ptpDiff
             den == AlphaDen * dt
  <2>1. num \in Int
    <3>1. (AlphaDen - 1) * freq \in Int
      OBVIOUS
    <3>2. ((AlphaDen - 1) * freq) * dt \in Int /\ FreqOne * ptpDiff \in Int
      BY <3>1
    <3>3. QED
      BY <3>2
  <2>2. den \in Nat \ {0}
    BY <1>1
  <2> HIDE DEF num, den
  <2>3. RoundDiv(num, den) \in Int
    BY <2>1, <2>2, RoundingInt
  <2>4. /\ FreqOne - FreqDev \in Int /\ FreqOne + FreqDev \in Int
        /\ FreqOne - FreqDev <= FreqOne + FreqDev
    OBVIOUS
  <2>5. Clamp(RoundDiv(num, den), FreqOne - FreqDev, FreqOne + FreqDev)
          \in (FreqOne - FreqDev)..(FreqOne + FreqDev)
    BY ONLY <2>3, <2>4, ClampRange
  <2>6. QED
    BY <1>1, <2>5 DEF FilteredFrequency, num, den
<1>2. CASE ~(dt > MinSample)
  BY <1>2 DEF FilteredFrequency
<1>3. QED
  BY <1>1, <1>2

\* The phase offset stays within PHASE_OFFSET_MAX_NS.
LEMMA PhaseRange ==
    ASSUME NEW phase \in Int, NEW phaseError \in Int
    PROVE  FilteredPhase(phase, phaseError) \in (-PhaseMax)..PhaseMax
<1> USE ClockAssumption
<1> DEFINE num == (AlphaDen - 1) * phase * FreqOne + phaseError
           den == AlphaDen * FreqOne
<1>1. num \in Int
  <2>1. (AlphaDen - 1) * phase \in Int
    OBVIOUS
  <2>2. ((AlphaDen - 1) * phase) * FreqOne \in Int
    BY <2>1
  <2>3. QED
    BY <2>2
<1>2. den \in Nat \ {0}
  OBVIOUS
<1> HIDE DEF num, den
<1>3. TruncDiv(num, den) \in Int
  BY <1>1, <1>2, RoundingInt
<1>4. -PhaseMax \in Int /\ PhaseMax \in Int /\ -PhaseMax <= PhaseMax
  OBVIOUS
<1>5. Clamp(TruncDiv(num, den), -PhaseMax, PhaseMax) \in (-PhaseMax)..PhaseMax
  BY ONLY <1>3, <1>4, ClampRange
<1>6. QED
  BY <1>5 DEF FilteredPhase, num, den

\* A resync leaves the loop in a legal state, whatever it has read.
LEMMA ResyncedType ==
    ASSUME NEW p \in PllStates, NEW now \in Nat, NEW reading \in Int,
           p.last_ptp_instant <= now
    PROVE  /\ Resynced(p, now, reading) \in PllStates
           /\ Resynced(p, now, reading).last_ptp_instant = now
           /\ Resets(p, now, reading) \in BOOLEAN
<1> DEFINE dt == now - p.last_ptp_instant
           diff == reading - p.last_ptp_time
           freq == FilteredFrequency(p.frequency_adjustment, diff, dt)
           error == PhaseError(freq, diff, dt)
<1>1. dt \in Nat /\ diff \in Int
  BY DEF PllStates
<1>2. freq \in (FreqOne - FreqDev)..(FreqOne + FreqDev)
  BY <1>1, FrequencyRange DEF PllStates
<1>3. error \in Int
  <2>1. freq \in Int
    BY <1>2, ClockAssumption
  <2>2. FreqOne * diff \in Int /\ dt * freq \in Int
    BY <1>1, <2>1, ClockAssumption
  <2>3. QED
    BY <2>2 DEF PhaseError
<1>4. FilteredPhase(p.phase_offset_ns, error) \in (-PhaseMax)..PhaseMax
  BY <1>3, PhaseRange, ClockAssumption DEF PllStates
<1>5. FreqOne \in (FreqOne - FreqDev)..(FreqOne + FreqDev) /\ 0 \in (-PhaseMax)..PhaseMax
  BY ClockAssumption
<1>6. Resets(p, now, reading) \in BOOLEAN
  BY DEF Resets, IsJump
<1> HIDE DEF freq, error
<1>7. Resynced(p, now, reading) =
        [last_ptp_time |-> reading, last_ptp_instant |-> now,
         frequency_adjustment |-> IF IsJump(error) THEN FreqOne ELSE freq,
         phase_offset_ns |->
           IF IsJump(error) THEN 0 ELSE FilteredPhase(p.phase_offset_ns, error)]
  BY DEF Resynced, freq, error
<1>8. QED
  BY <1>2, <1>4, <1>5, <1>6, <1>7 DEF PllStates

\* A call answers within 1..MaxDuration and after last_returned, or it fails.
LEMMA ElapsedAnswer ==
    ASSUME NEW p \in PllStates, NEW now \in Nat,
           initial_ptp_time \in Int, last_returned \in 0..MaxDuration
    PROVE  LET outcome == ComputeElapsed(p, now)
           IN  /\ outcome \in [tag : {"Ok"} \cup Errors, value : Int]
               /\ outcome.tag = "Ok" =>
                    /\ outcome.value \in 0..MaxDuration
                    /\ outcome.value > last_returned
<1> DEFINE estimate == Estimate(p, now)
           duration == AfterLast(estimate, last_returned)
<1>1. estimate \in Int
  <2>1. (now - p.last_ptp_instant) * p.frequency_adjustment \in Int
    BY ClockAssumption DEF PllStates
  <2>2. FreqOne \in Nat \ {0}
    BY ClockAssumption
  <2>3. RoundDiv((now - p.last_ptp_instant) * p.frequency_adjustment, FreqOne) \in Int
    BY <2>1, <2>2, RoundingInt
  <2>4. p.last_ptp_time \in Int /\ p.phase_offset_ns \in Int
    BY ClockAssumption DEF PllStates
  <2>5. QED
    BY <2>3, <2>4 DEF Estimate
<1> HIDE DEF estimate
<1>2. duration \in Int /\ duration > last_returned /\ (estimate >= 0 => duration >= 0)
  BY <1>1, ClockAssumption DEF AfterLast
<1> HIDE DEF duration
<1>3. ComputeElapsed(p, now) =
        IF estimate < 0 THEN [tag |-> "NegativeElapsed", value |-> estimate]
        ELSE IF estimate > MaxDuration THEN [tag |-> "DurationOverflow", value |-> 0]
        ELSE IF duration > MaxDuration THEN [tag |-> "MonotonicityLimit", value |-> 0]
        ELSE [tag |-> "Ok", value |-> duration]
  BY DEF ComputeElapsed, estimate, duration
<1>4. QED
  BY <1>1, <1>2, <1>3, ClockAssumption DEF Errors

-----------------------------------------------------------------------------
(* The invariant *)

\* What Finish does with the answer of a call: the caller never gets ahead of
\* last_returned, and gets only what exceeds the former last_returned.
LEMMA FinishPreserves ==
    ASSUME IInv, NEW p \in PllStates, NEW absolute \in BOOLEAN, NEW reset \in BOOLEAN,
           Finish(ComputeElapsed(p, local), absolute, reset)
    PROVE  /\ last_returned' \in 0..MaxDuration /\ highest' \in 0..MaxDuration
           /\ highest' <= last_returned'
           /\ result' \in Results
           /\ result'.tag = "Ok" => result'.value > last_returned /\ highest' = result'.value
           /\ result'.tag # "Ok" => result'.tag \in Errors /\ highest' = highest
<1> DEFINE outcome == ComputeElapsed(p, local)
           tooLate == absolute /\ initial_ptp_time + outcome.value > MaxPtpTime
<1>1. /\ outcome \in [tag : {"Ok"} \cup Errors, value : Int]
      /\ outcome.tag = "Ok" => /\ outcome.value \in 0..MaxDuration
                               /\ outcome.value > last_returned
  BY ElapsedAnswer DEF IInv, TypeOK
<1>2. Truth \in Int
  BY DEF IInv, TypeOK, Truth
<1> HIDE DEF outcome
<1>3. /\ last_returned' = IF outcome.tag = "Ok" THEN outcome.value ELSE last_returned
      /\ highest' = IF outcome.tag = "Ok" /\ ~tooLate THEN outcome.value ELSE highest
      /\ result' = [tag |-> IF outcome.tag = "Ok" /\ tooLate THEN "DurationOverflow"
                            ELSE outcome.tag,
                    value |-> outcome.value, truth |-> Truth, reset |-> reset]
  BY DEF Finish, outcome
<1> HIDE DEF tooLate
<1>4. last_returned \in 0..MaxDuration /\ highest \in 0..MaxDuration /\ highest <= last_returned
  BY DEF IInv, TypeOK, ReceivedBelowLast
<1>5. CASE outcome.tag = "Ok" /\ ~tooLate
  BY <1>1, <1>2, <1>3, <1>4, <1>5, ClockAssumption DEF Results, Errors
<1>6. CASE outcome.tag = "Ok" /\ tooLate
  BY <1>1, <1>2, <1>3, <1>4, <1>6, ClockAssumption DEF Results, Errors
<1>7. CASE outcome.tag # "Ok"
  BY <1>1, <1>2, <1>3, <1>4, <1>7, ClockAssumption DEF Results, Errors
<1>8. QED
  BY <1>5, <1>6, <1>7

\* Time that passes in a call keeps the environment well typed.
LEMMA TimePassesType ==
    ASSUME IInv, NEW latency \in Latencies, TimePasses(latency)
    PROVE  /\ local' \in Nat /\ local' >= local /\ ptp' \in Int
           /\ steps' = steps /\ initial_ptp_time' = initial_ptp_time
BY ClockAssumption DEF IInv, TypeOK, TimePasses

\* The initial state satisfies the invariant.
LEMMA InitInvariant == Init => IInv
<1> SUFFICES ASSUME Init PROVE IInv
  OBVIOUS
<1>1. local \in Nat /\ ptp \in Int
  BY ClockAssumption DEF Init
<1>2. pll \in PllStates /\ pll.last_ptp_instant <= local
  BY <1>1, ClockAssumption DEF Init, PllStates
<1>3. QED
  BY <1>1, <1>2, ClockAssumption DEF Init, IInv, TypeOK, ReceivedBelowLast, Results

\* Every step preserves the invariant.
LEMMA StepInvariant == IInv /\ [Next]_vars => IInv'
<1> SUFFICES ASSUME IInv, [Next]_vars PROVE IInv'
  OBVIOUS
<1> USE DEF TypeOK, ReceivedBelowLast
<1>1. ASSUME NEW latency \in Latencies, NEW absolute \in BOOLEAN,
             Interpolate(latency, absolute)
      PROVE  IInv'
  <2>1. pll \in PllStates
    BY DEF IInv
  <2>2. /\ last_returned' \in 0..MaxDuration /\ highest' \in 0..MaxDuration
        /\ highest' <= last_returned' /\ result' \in Results
    BY <1>1, <2>1, FinishPreserves DEF Interpolate
  <2>3. /\ local' \in Nat /\ local' >= local /\ ptp' \in Int
        /\ steps' = steps /\ initial_ptp_time' = initial_ptp_time
    BY <1>1, TimePassesType DEF Interpolate
  <2>4. QED
    BY <1>1, <2>2, <2>3 DEF Interpolate, IInv, PllStates
<1>2. ASSUME NEW latency \in Latencies, NEW absolute \in BOOLEAN,
             ResyncAndAnswer(latency, absolute)
      PROVE  IInv'
  <2> DEFINE p == Resynced(pll, local, ptp + latency)
             reset == Resets(pll, local, ptp + latency)
  <2>1. p \in PllStates /\ p.last_ptp_instant = local /\ reset \in BOOLEAN
    <3>1. pll \in PllStates /\ local \in Nat /\ ptp + latency \in Int
          /\ pll.last_ptp_instant <= local
      BY ClockAssumption DEF IInv
    <3>2. QED
      BY <3>1, ResyncedType
  <2> HIDE DEF p, reset
  <2>2. /\ last_returned' \in 0..MaxDuration /\ highest' \in 0..MaxDuration
        /\ highest' <= last_returned' /\ result' \in Results
    <3>1. Finish(ComputeElapsed(p, local), absolute, reset)
      BY <1>2 DEF ResyncAndAnswer, p, reset
    <3>2. QED
      BY <2>1, <3>1, FinishPreserves
  <2>3. /\ local' \in Nat /\ local' >= local /\ ptp' \in Int
        /\ steps' = steps /\ initial_ptp_time' = initial_ptp_time
    BY <1>2, TimePassesType DEF ResyncAndAnswer
  <2>4. pll' = p /\ unseen' = 0
    BY <1>2 DEF ResyncAndAnswer, p
  <2>5. local \in Nat /\ steps \in Nat /\ initial_ptp_time \in Int
    BY DEF IInv
  <2>6. QED
    BY <2>1, <2>2, <2>3, <2>4, <2>5 DEF IInv
<1>3. ASSUME NEW latency \in Latencies, ResyncFails(latency)
      PROVE  IInv'
  <2>1. /\ local' \in Nat /\ local' >= local /\ ptp' \in Int
        /\ steps' = steps /\ initial_ptp_time' = initial_ptp_time
    BY <1>3, TimePassesType DEF ResyncFails
  <2>2. result' \in Results
    BY <1>3 DEF ResyncFails, Results, Errors, Truth, IInv
  <2>3. QED
    BY <1>3, <2>1, <2>2 DEF ResyncFails, IInv, PllStates
<1>4. ASSUME NEW latency \in Latencies, ElapsedNoResync(latency)
      PROVE  IInv'
  <2>1. pll \in PllStates
    BY DEF IInv
  <2>2. /\ last_returned' \in 0..MaxDuration /\ highest' \in 0..MaxDuration
        /\ highest' <= last_returned' /\ result' \in Results
    BY <1>4, <2>1, FinishPreserves DEF ElapsedNoResync
  <2>3. /\ local' \in Nat /\ local' >= local /\ ptp' \in Int
        /\ steps' = steps /\ initial_ptp_time' = initial_ptp_time
    BY <1>4, TimePassesType DEF ElapsedNoResync
  <2>4. QED
    BY <1>4, <2>2, <2>3 DEF ElapsedNoResync, IInv, PllStates
<1>5. ASSUME NEW tick \in Ticks, Tick(tick)
      PROVE  IInv'
  <2>1. tick[1] \in Nat /\ tick[2] \in Nat
    BY ClockAssumption
  <2>2. QED
    BY <1>5, <2>1 DEF Tick, IInv, PllStates
<1>6. ASSUME NEW delta \in Steps, StepPtp(delta)
      PROVE  IInv'
  <2>1. delta \in Int
    BY ClockAssumption
  <2>2. QED
    BY <1>6, <2>1 DEF StepPtp, IInv, PllStates
<1>7. CASE UNCHANGED vars
  BY <1>7 DEF vars, env, IInv, PllStates, Results
<1>8. QED
  BY <1>1, <1>2, <1>3, <1>4, <1>5, <1>6, <1>7 DEF Next, Call

\* The invariant holds in every reachable state.
LEMMA Invariance == Spec => []IInv
BY InitInvariant, StepInvariant, PTL DEF Spec

\* The frequency, the phase offset and every answer stay within the bounds the
\* code states (FREQ_MIN, FREQ_MAX, PHASE_OFFSET_MAX_NS, Duration::MAX), through
\* every drift, step, failed read and mixture of calls.
THEOREM TypeCorrect == Spec => []TypeOK
<1>1. IInv => TypeOK
  BY DEF IInv
<1>2. QED
  BY <1>1, Invariance, PTL

-----------------------------------------------------------------------------
(* What a caller sees *)

\* What one step of the system is to the caller: an answer later than all
\* before, a failure that takes nothing back, or nothing at all.
LEMMA CallerView ==
    ASSUME IInv, [Next]_vars
    PROVE  \/ /\ result'.tag = "Ok" /\ result'.value > highest
              /\ highest' = result'.value
           \/ result'.tag \in Errors /\ highest' = highest
           \/ result' = result /\ highest' = highest
<1> USE DEF IInv
<1>0. last_returned \in Int /\ highest \in Int /\ highest <= last_returned
  BY ClockAssumption DEF TypeOK, ReceivedBelowLast
<1>1. ASSUME NEW p \in PllStates, NEW absolute \in BOOLEAN, NEW reset \in BOOLEAN,
             Finish(ComputeElapsed(p, local), absolute, reset)
      PROVE  \/ /\ result'.tag = "Ok" /\ result'.value > highest
                /\ highest' = result'.value
             \/ result'.tag \in Errors /\ highest' = highest
  <2>1. /\ result' \in Results
        /\ highest' \in 0..MaxDuration
        /\ result'.tag = "Ok" => result'.value > last_returned /\ highest' = result'.value
        /\ result'.tag # "Ok" => result'.tag \in Errors /\ highest' = highest
    BY <1>1, FinishPreserves
  <2>2. result'.value \in Int
    BY <2>1 DEF Results
  <2>3. QED
    BY <1>0, <2>1, <2>2
<1>2. ASSUME NEW latency \in Latencies, NEW absolute \in BOOLEAN,
             Interpolate(latency, absolute)
      PROVE  \/ /\ result'.tag = "Ok" /\ result'.value > highest
                /\ highest' = result'.value
             \/ result'.tag \in Errors /\ highest' = highest
  <2>1. pll \in PllStates
    BY DEF TypeOK
  <2>2. QED
    BY <1>1, <1>2, <2>1 DEF Interpolate
<1>3. ASSUME NEW latency \in Latencies, NEW absolute \in BOOLEAN,
             ResyncAndAnswer(latency, absolute)
      PROVE  \/ /\ result'.tag = "Ok" /\ result'.value > highest
                /\ highest' = result'.value
             \/ result'.tag \in Errors /\ highest' = highest
  <2> DEFINE p == Resynced(pll, local, ptp + latency)
             reset == Resets(pll, local, ptp + latency)
  <2>1. pll \in PllStates /\ local \in Nat /\ ptp + latency \in Int
        /\ pll.last_ptp_instant <= local
    BY ClockAssumption DEF TypeOK
  <2>2. p \in PllStates /\ reset \in BOOLEAN
    BY <2>1, ResyncedType
  <2>3. Finish(ComputeElapsed(p, local), absolute, reset)
    BY <1>3 DEF ResyncAndAnswer
  <2> HIDE DEF p, reset
  <2>4. QED
    BY <1>1, <2>2, <2>3
<1>4. ASSUME NEW latency \in Latencies, ResyncFails(latency)
      PROVE  result'.tag \in Errors /\ highest' = highest
  BY <1>4 DEF ResyncFails, Errors
<1>5. ASSUME NEW latency \in Latencies, ElapsedNoResync(latency)
      PROVE  \/ /\ result'.tag = "Ok" /\ result'.value > highest
                /\ highest' = result'.value
             \/ result'.tag \in Errors /\ highest' = highest
  <2>1. pll \in PllStates
    BY DEF TypeOK
  <2>2. QED
    BY <1>1, <1>5, <2>1 DEF ElapsedNoResync
<1>6. ASSUME NEW tick \in Ticks, Tick(tick)
      PROVE  result' = result /\ highest' = highest
  BY <1>6 DEF Tick
<1>7. ASSUME NEW delta \in Steps, StepPtp(delta)
      PROVE  result' = result /\ highest' = highest
  BY <1>7 DEF StepPtp
<1>8. CASE UNCHANGED vars
  BY <1>8 DEF vars
<1>9. QED
  BY <1>2, <1>3, <1>4, <1>5, <1>6, <1>7, <1>8 DEF Next, Call

\* No caller of elapsed(), elapsed_no_resync() or ptp_time() ever receives a time
\* at or before one received earlier, whatever the hardware clock does.
THEOREM Monotonicity == Spec => StrictlyMonotonic
<1>1. IInv /\ [Next]_vars => [Answered => result'.value > highest]_vars
  <2> SUFFICES ASSUME IInv, [Next]_vars, Answered
               PROVE  result'.value > highest
    OBVIOUS
  <2>1. result' # result /\ result'.tag = "Ok"
    BY DEF Answered
  <2>2. "Ok" \notin Errors
    BY DEF Errors
  <2>3. QED
    BY <2>1, <2>2, CallerView
<1>2. QED
  BY <1>1, Invariance, PTL DEF Spec, StrictlyMonotonic

\* PtpSynchronizedClock implements the abstract promise of MonotonicClock.
THEOREM Refinement == Spec => RefinesMonotonicClock
<1>1. Init => Promise!Init
  BY DEF Init, Promise!Init, Errors
<1>2. IInv /\ [Next]_vars => [Promise!Next]_(Promise!vars)
  <2> SUFFICES ASSUME IInv, [Next]_vars
               PROVE  Promise!Next \/ UNCHANGED Promise!vars
    OBVIOUS
  <2>1. CASE result'.tag = "Ok" /\ result'.value > highest /\ highest' = result'.value
    <3>1. highest' \in Int
      BY StepInvariant, ClockAssumption DEF IInv, TypeOK
    <3>2. (result'.tag \in Errors) = FALSE
      BY <2>1 DEF Errors
    <3>3. QED
      BY <2>1, <3>1, <3>2 DEF Promise!Next, Promise!Answer
  <2>2. CASE result'.tag \in Errors /\ highest' = highest
    BY <2>2 DEF Promise!Next, Promise!Fail
  <2>3. CASE result' = result /\ highest' = highest
    BY <2>3 DEF Promise!vars
  <2>4. QED
    BY <2>1, <2>2, <2>3, CallerView
<1>3. QED
  BY <1>1, <1>2, Invariance, PTL DEF Spec, RefinesMonotonicClock, Promise!Spec

-----------------------------------------------------------------------------
(* Steps and drift *)

\* The hardware clock runs at most FreqDev fast or slow between steps, which is what
\* FREQ_MIN and FREQ_MAX are for, and a read takes at most some time.
Rates == \A tick \in Ticks : FreqOne * Magnitude(tick[2] - tick[1]) <= FreqDev * tick[1]
Punctual == \E most \in Latencies : \A latency \in Latencies : latency <= most

\* What the hardware clock has moved since the last resync, steps apart, and how long
\* that took on the local timer.
Moved == ptp - pll.last_ptp_time - unseen
Span == local - pll.last_ptp_instant

\* They differ by the latency of the read of that resync, whichever of the two clocks it
\* read first, and by the drift.
Follows ==
    \E offset \in (-MaxLatency)..MaxLatency :
        FreqOne * Magnitude(Moved - Span - offset) <= FreqDev * Span

LEMMA Most ==
    ASSUME Punctual
    PROVE  MaxLatency \in Latencies /\ \A latency \in Latencies : latency <= MaxLatency
BY DEF Punctual, MaxLatency

LEMMA Magnitudes ==
    ASSUME NEW x \in Int, NEW y \in Int
    PROVE  /\ Magnitude(x) \in Nat /\ x <= Magnitude(x) /\ -x <= Magnitude(x)
           /\ Magnitude(x + y) <= Magnitude(x) + Magnitude(y)
           /\ Magnitude(x) = x \/ Magnitude(x) = -x
BY DEF Magnitude

LEMMA Ordering ==
    ASSUME NEW k \in Nat, NEW x \in Int, NEW y \in Int, x <= y
    PROVE  k * x \in Int /\ k * y \in Int /\ k * x <= k * y
<1>1. PICK d \in Nat : y = x + d
  <2>1. y - x \in Nat /\ y = x + (y - x)
    OBVIOUS
  <2>2. QED
    BY <2>1
<1>2. k * d \in Nat /\ k * x \in Int /\ k * y = k * x + k * d
  BY <1>1
<1>3. QED
  BY <1>2

\* The bound on drift is above the drift.
LEMMA DriftBound ==
    ASSUME NEW dt \in Nat
    PROVE  Drift(dt) \in Nat /\ 2 * (FreqDev * dt) < FreqOne * Drift(dt)
<1>1. FreqOne \in Nat \ {0} /\ FreqDev \in Nat
  BY ClockAssumption
<1>2. PICK a \in Nat : a = (2 * FreqDev * dt) /\ a = 2 * (FreqDev * dt)
  BY <1>1
<1>3. /\ a \div FreqOne \in Nat
      /\ a < FreqOne * ((a \div FreqOne) + 1)
  BY <1>1
<1>4. Drift(dt) = (a \div FreqOne) + 1
  BY <1>2 DEF Drift
<1>5. QED
  BY <1>2, <1>3, <1>4

\* Both clocks advance: by the same in a call, by what the rates allow between calls.
LEMMA FollowsOn ==
    ASSUME NEW moved \in Int, NEW span \in Nat, NEW offset \in Int,
           NEW m \in Int, NEW s \in Nat,
           FreqOne * Magnitude(moved - span - offset) <= FreqDev * span,
           FreqOne * Magnitude(m - s) <= FreqDev * s
    PROVE  FreqOne * Magnitude((moved + m) - (span + s) - offset) <= FreqDev * (span + s)
<1>1. FreqOne \in Nat /\ FreqDev \in Nat
  BY ClockAssumption
<1> DEFINE x == moved - span - offset
           y == m - s
<1>2. x \in Int /\ y \in Int /\ (moved + m) - (span + s) - offset = x + y
  OBVIOUS
<1>3. /\ Magnitude(x) \in Nat /\ Magnitude(y) \in Nat /\ Magnitude(x + y) \in Nat
      /\ Magnitude(x + y) <= Magnitude(x) + Magnitude(y)
  BY <1>2, Magnitudes
<1>4. FreqOne * Magnitude(x + y) <= FreqOne * (Magnitude(x) + Magnitude(y))
  BY <1>1, <1>3, Ordering
<1>5. FreqOne * Magnitude(x) <= FreqDev * span /\ FreqOne * Magnitude(y) <= FreqDev * s
  OBVIOUS
<1> HIDE DEF x, y
<1>6. /\ FreqOne * (Magnitude(x) + Magnitude(y)) = FreqOne * Magnitude(x) + FreqOne * Magnitude(y)
      /\ FreqDev * (span + s) = FreqDev * span + FreqDev * s
  BY <1>1, <1>3
<1>7. FreqOne * Magnitude(x) \in Nat /\ FreqOne * Magnitude(y) \in Nat
      /\ FreqOne * Magnitude(x + y) \in Nat /\ FreqDev * span \in Nat /\ FreqDev * s \in Nat
  BY <1>1, <1>3
<1>8. FreqOne * Magnitude(x + y) <= FreqDev * (span + s)
  BY <1>4, <1>5, <1>6, <1>7
<1>9. QED
  BY <1>2, <1>8

LEMMA InitFollows == ASSUME Punctual, Init PROVE Follows
<1>1. PICK latency \in Latencies : local = latency /\ ptp = PtpStart + latency
  BY DEF Init
<1>2. latency \in Nat /\ latency <= MaxLatency /\ MaxLatency \in Nat
  BY Most, ClockAssumption
<1>3. Span = 0 /\ Moved = latency
  BY <1>1, <1>2, ClockAssumption DEF Init, Span, Moved
<1>4. FreqOne * Magnitude(Moved - Span - latency) <= FreqDev * Span
  BY <1>2, <1>3, ClockAssumption DEF Magnitude
<1>5. QED
  BY <1>2, <1>4 DEF Follows

LEMMA StepFollows ==
    ASSUME Rates, Punctual, IInv, Follows, [Next]_vars
    PROVE  Follows'
<1>1. /\ local \in Nat /\ ptp \in Int /\ unseen \in Int
      /\ pll.last_ptp_instant \in Nat /\ pll.last_ptp_time \in Int
      /\ pll.last_ptp_instant <= local
  BY DEF IInv, TypeOK, PllStates
<1>2. Span \in Nat /\ Moved \in Int /\ MaxLatency \in Nat /\ FreqOne \in Nat /\ FreqDev \in Nat
  <2>1. Span \in Nat /\ Moved \in Int
    BY <1>1 DEF Span, Moved
  <2>2. QED
    BY <2>1, Most, ClockAssumption
<1>3. PICK offset \in (-MaxLatency)..MaxLatency :
          FreqOne * Magnitude(Moved - Span - offset) <= FreqDev * Span
  BY DEF Follows
<1>4. ASSUME NEW m \in Int, NEW s \in Nat, FreqOne * Magnitude(m - s) <= FreqDev * s,
             Moved' = Moved + m, Span' = Span + s
      PROVE  Follows'
  <2>1. offset \in Int
    BY <1>2
  <2>2. FreqOne * Magnitude((Moved + m) - (Span + s) - offset) <= FreqDev * (Span + s)
    BY <1>2, <1>3, <1>4, <2>1, FollowsOn
  <2>3. MaxLatency' = MaxLatency
    BY DEF MaxLatency
  <2>4. QED
    BY <1>4, <2>2, <2>3 DEF Follows
<1>5. ASSUME NEW latency \in Latencies, TimePasses(latency), UNCHANGED <<pll, unseen>>
      PROVE  Follows'
  <2>1. latency \in Nat /\ FreqOne * Magnitude(latency - latency) <= FreqDev * latency
    <3>1. latency \in Nat
      BY ClockAssumption
    <3>2. Magnitude(latency - latency) = 0 /\ FreqDev * latency \in Nat
      BY <3>1, <1>2 DEF Magnitude
    <3>3. QED
      BY <1>2, <3>1, <3>2
  <2>2. /\ local' = local + latency /\ ptp' = ptp + latency
        /\ pll' = pll /\ unseen' = unseen
    BY <1>5 DEF TimePasses
  <2>3. Moved' = Moved + latency /\ Span' = Span + latency
    BY <1>1, <2>1, <2>2 DEF Moved, Span
  <2>4. QED
    BY <1>4, <2>1, <2>3
<1>6. ASSUME NEW latency \in Latencies, NEW absolute \in BOOLEAN,
             ResyncAndAnswer(latency, absolute)
      PROVE  Follows'
  <2>1. latency \in Nat /\ latency <= MaxLatency
    BY Most, ClockAssumption
  <2>2. /\ pll'.last_ptp_time = ptp + latency /\ pll'.last_ptp_instant = local
        /\ local' = local + latency /\ ptp' = ptp + latency /\ unseen' = 0
    BY <1>6 DEF ResyncAndAnswer, Resynced, TimePasses
  <2>3. Moved' = 0 /\ Span' = latency
    BY <1>1, <2>1, <2>2 DEF Moved, Span
  <2>4. FreqOne * Magnitude(0 - latency - (-latency)) <= FreqDev * latency
    <3>1. Magnitude(0 - latency - (-latency)) = 0 /\ FreqDev * latency \in Nat
      BY <1>2, <2>1 DEF Magnitude
    <3>2. QED
      BY <1>2, <3>1
  <2>5. -latency \in (-MaxLatency)..MaxLatency /\ MaxLatency' = MaxLatency
    BY <1>2, <2>1 DEF MaxLatency
  <2>6. QED
    BY <2>3, <2>4, <2>5 DEF Follows
<1>7. ASSUME NEW tick \in Ticks, Tick(tick)
      PROVE  Follows'
  <2>1. tick[1] \in Nat /\ tick[2] \in Nat
    BY ClockAssumption
  <2>2. FreqOne * Magnitude(tick[2] - tick[1]) <= FreqDev * tick[1]
    BY DEF Rates
  <2>3. /\ local' = local + tick[1] /\ ptp' = ptp + tick[2]
        /\ pll' = pll /\ unseen' = unseen
    BY <1>7 DEF Tick
  <2>4. Moved' = Moved + tick[2] /\ Span' = Span + tick[1]
    BY <1>1, <2>1, <2>3 DEF Moved, Span
  <2>5. QED
    BY <1>4, <2>1, <2>2, <2>4
<1>8. ASSUME NEW delta \in Steps, StepPtp(delta)
      PROVE  Follows'
  <2>1. delta \in Int
    BY ClockAssumption
  <2>2. FreqOne * Magnitude(0 - 0) <= FreqDev * 0
    BY <1>2 DEF Magnitude
  <2>3. /\ local' = local /\ ptp' = ptp + delta
        /\ pll' = pll /\ unseen' = unseen + delta
    BY <1>8 DEF StepPtp
  <2>4. Moved' = Moved + 0 /\ Span' = Span + 0
    BY <1>1, <2>1, <2>3 DEF Moved, Span
  <2>5. QED
    BY <1>4, <2>2, <2>4
<1>9. CASE UNCHANGED vars
  BY <1>9 DEF vars, env, Follows, Moved, Span, MaxLatency
<1>10. QED
  BY <1>5, <1>6, <1>7, <1>8, <1>9
  DEF Next, Call, Interpolate, ResyncFails, ElapsedNoResync

\* The phase error of a resync is the step it has not seen, give or take the slack.
LEMMA ErrorIsStep ==
    ASSUME Punctual, IInv, Follows, NEW latency \in Latencies,
           NEW freq \in (FreqOne - FreqDev)..(FreqOne + FreqDev),
           NEW error, error = PhaseError(freq, (ptp + latency) - pll.last_ptp_time, Span)
    PROVE  /\ error \in Int
           /\ Magnitude(error - FreqOne * unseen) < FreqOne * (Drift(Span) + 2 * MaxLatency)
<1>1. /\ local \in Nat /\ ptp \in Int /\ unseen \in Int
      /\ pll.last_ptp_instant \in Nat /\ pll.last_ptp_time \in Int
      /\ pll.last_ptp_instant <= local
  BY DEF IInv, TypeOK, PllStates
<1>2. /\ Span \in Nat /\ Moved \in Int /\ MaxLatency \in Nat /\ FreqOne \in Nat /\ FreqDev \in Nat
      /\ latency \in Nat /\ latency <= MaxLatency /\ freq \in Int
  <2>1. Span \in Nat /\ Moved \in Int
    BY <1>1 DEF Span, Moved
  <2>2. latency \in Nat /\ latency <= MaxLatency /\ MaxLatency \in Nat
    BY Most, ClockAssumption
  <2>3. FreqOne \in Nat /\ FreqDev \in Nat /\ freq \in Int
    BY ClockAssumption
  <2>4. QED
    BY <2>1, <2>2, <2>3
<1>3. PICK offset \in (-MaxLatency)..MaxLatency :
          FreqOne * Magnitude(Moved - Span - offset) <= FreqDev * Span
  BY DEF Follows
<1>4. PICK span, drift, late \in Int :
          /\ span = Span /\ drift = Moved - Span - offset /\ late = offset + latency
          /\ drift \in Int /\ Magnitude(late) <= 2 * MaxLatency
  <2>1. offset + latency \in Int /\ Magnitude(offset + latency) <= 2 * MaxLatency
    BY <1>2 DEF Magnitude
  <2>2. QED
    BY <1>2, <2>1
<1>5. span \in Nat /\ drift \in Int /\ late \in Int
  BY <1>2, <1>4
<1>6. (ptp + latency) - pll.last_ptp_time = drift + late + span + unseen
  BY <1>1, <1>2, <1>4 DEF Moved
<1>7. error = FreqOne * (drift + late + span + unseen) - span * freq
  BY <1>4, <1>6 DEF PhaseError
<1>8. PICK rate \in Int : rate = FreqOne - freq /\ rate <= FreqDev /\ -rate <= FreqDev
  BY <1>2
<1>9. error = FreqOne * drift + FreqOne * late + FreqOne * unseen + span * rate
  <2>1. freq = FreqOne - rate /\ FreqOne \in Int
    BY <1>2, <1>8
  <2>2. error = FreqOne * (drift + late + span + unseen) - span * (FreqOne - rate)
    BY <1>7, <2>1
  <2>3. FreqOne * (drift + late + span + unseen)
            = FreqOne * drift + FreqOne * late + FreqOne * span + FreqOne * unseen
    BY <1>1, <1>5, <2>1
  <2>4. span * (FreqOne - rate) = FreqOne * span - span * rate
    BY <1>5, <1>8, <2>1
  <2>5. FreqOne * drift \in Int /\ FreqOne * late \in Int /\ FreqOne * span \in Int
        /\ FreqOne * unseen \in Int /\ span * rate \in Int
    BY <1>1, <1>5, <1>8, <2>1
  <2>6. QED
    BY <2>2, <2>3, <2>4, <2>5
<1>10. /\ FreqOne * drift \in Int /\ FreqOne * late \in Int /\ FreqOne * unseen \in Int
       /\ span * rate \in Int /\ FreqDev * span \in Int /\ FreqOne * (2 * MaxLatency) \in Int
  BY <1>1, <1>2, <1>5
<1>11. FreqOne * drift <= FreqDev * span /\ -(FreqOne * drift) <= FreqDev * span
  <2>1. Magnitude(drift) \in Nat /\ drift <= Magnitude(drift) /\ -drift <= Magnitude(drift)
    BY <1>5, Magnitudes
  <2>2. FreqOne * Magnitude(drift) <= FreqDev * span
    BY <1>3, <1>4
  <2>3. FreqOne * drift <= FreqOne * Magnitude(drift)
        /\ FreqOne * (-drift) <= FreqOne * Magnitude(drift)
        /\ FreqOne * Magnitude(drift) \in Int
    <3>1. -drift \in Int
      BY <1>5
    <3>2. QED
      BY <1>2, <1>5, <2>1, <3>1, Ordering
  <2>4. FreqOne * (-drift) = -(FreqOne * drift)
    BY <1>2, <1>5
  <2>5. QED
    BY <1>10, <2>2, <2>3, <2>4
<1>12. /\ FreqOne * late <= FreqOne * (2 * MaxLatency)
       /\ -(FreqOne * late) <= FreqOne * (2 * MaxLatency)
  <2>1. late <= 2 * MaxLatency /\ -late <= 2 * MaxLatency /\ -late \in Int /\ 2 * MaxLatency \in Int
    <3>1. Magnitude(late) \in Nat /\ late <= Magnitude(late) /\ -late <= Magnitude(late)
      BY <1>5, Magnitudes
    <3>2. QED
      BY <1>2, <1>4, <1>5, <3>1
  <2>2. /\ FreqOne * late <= FreqOne * (2 * MaxLatency)
        /\ FreqOne * (-late) <= FreqOne * (2 * MaxLatency)
    BY <1>2, <1>5, <2>1, Ordering
  <2>3. FreqOne * (-late) = -(FreqOne * late)
    BY <1>2, <1>5
  <2>4. QED
    BY <2>2, <2>3
<1>13. span * rate <= FreqDev * span /\ -(span * rate) <= FreqDev * span
  <2>1. -rate \in Int /\ FreqDev \in Int
    BY <1>2, <1>8
  <2>2. span * rate <= span * FreqDev /\ span * (-rate) <= span * FreqDev
    BY <1>5, <1>8, <2>1, Ordering
  <2>3. span * (-rate) = -(span * rate) /\ span * FreqDev = FreqDev * span
    BY <1>2, <1>5, <1>8
  <2>4. QED
    BY <2>2, <2>3
<1>14. Drift(span) \in Nat /\ 2 * (FreqDev * span) < FreqOne * Drift(span)
  BY <1>5, DriftBound
<1>15. FreqOne * (Drift(span) + 2 * MaxLatency) = FreqOne * Drift(span) + FreqOne * (2 * MaxLatency)
       /\ FreqOne * Drift(span) \in Int
  BY <1>2, <1>14
<1>16. error \in Int
  BY <1>9, <1>10
<1>17. /\ error - FreqOne * unseen < FreqOne * (Drift(span) + 2 * MaxLatency)
       /\ -(error - FreqOne * unseen) < FreqOne * (Drift(span) + 2 * MaxLatency)
  BY <1>9, <1>10, <1>11, <1>12, <1>13, <1>14, <1>15
<1>18. QED
  BY <1>4, <1>10, <1>16, <1>17 DEF Magnitude

LEMMA ResetsOnJump ==
    ASSUME NEW p, NEW now, NEW reading, NEW since, since = now - p.last_ptp_instant,
           NEW move, move = reading - p.last_ptp_time
    PROVE  Resets(p, now, reading) =
               IsJump(PhaseError(FilteredFrequency(p.frequency_adjustment, move, since),
                                 move, since))
BY DEF Resets

\* A step that moves the base of the loop is a resync, which resets it on a jump.
LEMMA ResyncSees ==
    ASSUME Punctual, IInv, Follows, [Next]_vars, ResyncedNow
    PROVE  \E error \in Int :
               /\ result'.reset = IsJump(error)
               /\ Magnitude(error - FreqOne * unseen) < FreqOne * Slack
<1>1. PICK latency \in Latencies, absolute \in BOOLEAN : ResyncAndAnswer(latency, absolute)
  BY DEF ResyncedNow, Next, Call, Interpolate, ResyncFails, ElapsedNoResync, Tick, StepPtp, vars
<1>2. PICK since, move : /\ since = local - pll.last_ptp_instant
                         /\ move = (ptp + latency) - pll.last_ptp_time
  OBVIOUS
<1> DEFINE filtered == FilteredFrequency(pll.frequency_adjustment, move, since)
           seen == PhaseError(filtered, move, since)
<1>3. /\ local \in Nat /\ ptp \in Int /\ latency \in Nat
      /\ pll.last_ptp_instant \in Nat /\ pll.last_ptp_time \in Int
      /\ pll.frequency_adjustment \in (FreqOne - FreqDev)..(FreqOne + FreqDev)
      /\ pll.last_ptp_instant <= local
  BY ClockAssumption DEF IInv, TypeOK, PllStates
<1>4. move \in Int /\ since \in Nat /\ since = Span
  BY <1>2, <1>3 DEF Span
<1>5. filtered \in (FreqOne - FreqDev)..(FreqOne + FreqDev)
  BY <1>3, <1>4, FrequencyRange
<1>6. /\ seen \in Int
      /\ Magnitude(seen - FreqOne * unseen) < FreqOne * (Drift(Span) + 2 * MaxLatency)
  <2>1. seen = PhaseError(filtered, (ptp + latency) - pll.last_ptp_time, Span)
    BY <1>2, <1>4
  <2> HIDE DEF filtered, seen
  <2>2. QED
    BY <1>5, <2>1, ErrorIsStep
<1>7. result'.reset = IsJump(seen)
  <2>1. result'.reset = Resets(pll, local, ptp + latency)
    BY <1>1 DEF ResyncAndAnswer, Finish
  <2>2. Resets(pll, local, ptp + latency) = IsJump(seen)
    BY <1>2, ResetsOnJump
  <2>3. QED
    BY <2>1, <2>2
<1>8. Slack = Drift(Span) + 2 * MaxLatency
  <2>1. pll'.last_ptp_instant = local
    BY <1>1 DEF ResyncAndAnswer, Resynced
  <2>2. QED
    BY <2>1 DEF Slack, SinceResync, Span
<1> HIDE DEF seen
<1>9. QED
  BY <1>6, <1>7, <1>8

LEMMA SlackType ==
    ASSUME Punctual, IInv, [Next]_vars
    PROVE  Slack \in Nat
<1>1. pll'.last_ptp_instant \in Nat /\ pll.last_ptp_instant \in Nat
      /\ pll'.last_ptp_instant >= pll.last_ptp_instant
  <2>1. IInv'
    BY StepInvariant
  <2>2. pll.last_ptp_instant \in Nat /\ pll.last_ptp_instant <= local /\ local \in Nat
    BY DEF IInv, TypeOK, PllStates
  <2>3. pll'.last_ptp_instant \in Nat
    BY <2>1 DEF IInv, TypeOK, PllStates
  <2>4. pll'.last_ptp_instant \in {pll.last_ptp_instant, local}
    <3>1. ASSUME NEW latency \in Latencies, NEW absolute \in BOOLEAN,
                 ResyncAndAnswer(latency, absolute)
          PROVE  pll'.last_ptp_instant = local
      BY <3>1 DEF ResyncAndAnswer, Resynced
    <3>2. CASE pll' = pll
      BY <3>2
    <3>3. QED
      BY <3>1, <3>2
      DEF Next, Call, Interpolate, ResyncFails, ElapsedNoResync, Tick, StepPtp, vars
  <2>5. QED
    BY <2>2, <2>3, <2>4
<1>2. SinceResync \in Nat
  BY <1>1 DEF SinceResync
<1>3. Drift(SinceResync) \in Nat /\ MaxLatency \in Nat
  BY <1>2, DriftBound, Most, ClockAssumption
<1>4. QED
  BY <1>3 DEF Slack

LEMMA FollowsAlways == ASSUME Rates, Punctual PROVE Spec => []Follows
<1>1. Init => Follows
  BY InitFollows
<1>2. IInv /\ Follows /\ [Next]_vars => Follows'
  BY StepFollows
<1>3. QED
  BY <1>1, <1>2, Invariance, PTL DEF Spec

\* No step of the hardware clock that exceeds the threshold by more than what drift and
\* latencies can hide is mistaken for drift, whatever frequency the loop has reached.
THEOREM JumpsAreCaught ==
    ASSUME Rates, Punctual
    PROVE  Spec => JumpsCaught
<1>1. IInv /\ Follows /\ [Next]_vars =>
          [ResyncedNow /\ Magnitude(unseen) > JumpThreshold + Slack => result'.reset]_vars
  <2> SUFFICES ASSUME IInv, Follows, [Next]_vars, ResyncedNow,
                      Magnitude(unseen) > JumpThreshold + Slack
               PROVE  result'.reset
    OBVIOUS
  <2>1. PICK error \in Int : /\ result'.reset = IsJump(error)
                             /\ Magnitude(error - FreqOne * unseen) < FreqOne * Slack
    BY ResyncSees
  <2>2. /\ unseen \in Int /\ Slack \in Nat /\ FreqOne \in Nat /\ JumpThreshold \in Nat
    BY SlackType, ClockAssumption DEF IInv, TypeOK
  <2>3. PICK size \in Nat, step \in Int :
            /\ size = Magnitude(unseen) /\ step = FreqOne * unseen
            /\ FreqOne * size = step \/ FreqOne * size = -step
    <3>1. Magnitude(unseen) \in Nat /\ Magnitude(unseen) \in {unseen, -unseen}
      BY <2>2, Magnitudes
    <3>2. FreqOne * unseen \in Int /\ FreqOne * (-unseen) = -(FreqOne * unseen)
      BY <2>2
    <3>3. QED
      BY <3>1, <3>2
  <2>4. FreqOne * (JumpThreshold + Slack) <= FreqOne * size
    BY <2>2, <2>3, Ordering
  <2>5. PICK threshold, slack, large \in Nat :
            /\ threshold = JumpThreshold * FreqOne /\ slack = FreqOne * Slack
            /\ large = FreqOne * size /\ threshold + slack <= large
    <3>1. FreqOne * (JumpThreshold + Slack) = JumpThreshold * FreqOne + FreqOne * Slack
      BY <2>2
    <3>2. JumpThreshold * FreqOne \in Nat /\ FreqOne * Slack \in Nat /\ FreqOne * size \in Nat
      BY <2>2
    <3>3. QED
      BY <2>4, <3>1, <3>2
  <2>6. Magnitude(error - step) < slack /\ (large = step \/ large = -step)
    BY <2>1, <2>3, <2>5
  <2>7. Magnitude(error) > threshold
    BY <2>5, <2>6 DEF Magnitude
  <2>8. QED
    BY <2>1, <2>5, <2>7 DEF IsJump
<1>2. QED
  BY <1>1, Invariance, FollowsAlways, PTL DEF Spec, JumpsCaught

\* Drift and latencies alone never look like a step to a resync that comes in time.
THEOREM ResetsHaveACause ==
    ASSUME Rates, Punctual
    PROVE  Spec => NoSpuriousReset
<1>1. IInv /\ Follows /\ [Next]_vars =>
          [ResyncedNow /\ unseen = 0 /\ Slack <= JumpThreshold => ~result'.reset]_vars
  <2> SUFFICES ASSUME IInv, Follows, [Next]_vars, ResyncedNow, unseen = 0,
                      Slack <= JumpThreshold
               PROVE  ~result'.reset
    OBVIOUS
  <2>1. PICK error \in Int : /\ result'.reset = IsJump(error)
                             /\ Magnitude(error - FreqOne * unseen) < FreqOne * Slack
    BY ResyncSees
  <2>2. Slack \in Nat /\ FreqOne \in Nat /\ JumpThreshold \in Nat
    BY SlackType, ClockAssumption
  <2>3. FreqOne * Slack <= FreqOne * JumpThreshold /\ FreqOne * JumpThreshold \in Nat
        /\ FreqOne * Slack \in Nat
    BY <2>2, Ordering
  <2>4. error - FreqOne * unseen = error
    BY <2>2
  <2>5. Magnitude(error) \in Nat /\ Magnitude(error) < FreqOne * Slack
    BY <2>1, <2>4, Magnitudes
  <2>6. ~(Magnitude(error) > JumpThreshold * FreqOne)
    BY <2>2, <2>3, <2>5
  <2>7. QED
    BY <2>1, <2>6 DEF IsJump
<1>2. QED
  BY <1>1, Invariance, FollowsAlways, PTL DEF Spec, NoSpuriousReset

-----------------------------------------------------------------------------
(* Tracking *)

\* The interpolation since a base is off by at most the drift of the clocks.
LEMMA InterpolationIsNear ==
    ASSUME NEW freq \in (FreqOne - FreqDev)..(FreqOne + FreqDev),
           NEW span \in Nat, NEW limit \in Nat, span <= limit,
           NEW drift \in Int, FreqOne * Magnitude(drift) <= FreqDev * span
    PROVE  /\ RoundDiv(span * freq, FreqOne) \in Int
           /\ Magnitude(RoundDiv(span * freq, FreqOne) - span - drift) <= Drift(limit)
<1>1. FreqOne \in Nat \ {0} /\ FreqDev \in Nat /\ freq \in Int
  BY ClockAssumption
<1>2. PICK one \in Nat \ {0} : one = FreqOne
  BY <1>1
<1>3. PICK rate \in Int : rate = freq - FreqOne /\ rate <= FreqDev /\ -rate <= FreqDev
  BY <1>1
<1>4. PICK q \in Int : /\ q = RoundDiv(span * freq, FreqOne)
                       /\ 2 * (one * q) <= 2 * (span * freq) + one
                       /\ 2 * (span * freq) + one < 2 * (one * q) + 2 * one
  <2>1. PICK n \in Int : n = span * freq
    BY <1>1
  <2>2. PICK a \in Int, b \in Nat \ {0} : a = 2 * n + one /\ b = 2 * one
    OBVIOUS
  <2>3. PICK q \in Int : q = a \div b /\ b * q <= a /\ a < b * q + b
    <3>1. a \div b \in Int /\ b * (a \div b) <= a /\ a < b * (a \div b) + b
      BY <2>2
    <3>2. QED
      BY <3>1
  <2>4. b * q = 2 * (one * q)
    BY <2>2
  <2>5. q = RoundDiv(span * freq, FreqOne)
    BY <1>2, <2>1, <2>2, <2>3 DEF RoundDiv
  <2>6. QED
    BY <2>1, <2>2, <2>3, <2>4, <2>5
<1>5. PICK far, dev, move, off \in Int :
          /\ far = one * span /\ dev = FreqDev * span /\ move = span * rate /\ off = one * drift
          /\ span * freq = far + move
          /\ move <= dev /\ -move <= dev /\ off <= dev /\ -off <= dev
  <2>1. span * freq = one * span + span * rate
    <3>1. freq = one + rate
      BY <1>1, <1>2, <1>3
    <3>2. QED
      BY <3>1
  <2>2. span * rate <= FreqDev * span /\ -(span * rate) <= FreqDev * span
    <3>1. -rate \in Int /\ FreqDev \in Int
      BY <1>1, <1>3
    <3>2. span * rate <= span * FreqDev /\ span * (-rate) <= span * FreqDev
      BY <1>3, <3>1, Ordering
    <3>3. span * (-rate) = -(span * rate) /\ span * FreqDev = FreqDev * span
      BY <1>1, <1>3
    <3>4. QED
      BY <3>2, <3>3
  <2>3. one * drift <= FreqDev * span /\ -(one * drift) <= FreqDev * span
    <3>1. /\ Magnitude(drift) \in Nat /\ -drift \in Int /\ one \in Nat
          /\ drift <= Magnitude(drift) /\ -drift <= Magnitude(drift)
      BY Magnitudes
    <3>2. one * drift <= one * Magnitude(drift) /\ one * (-drift) <= one * Magnitude(drift)
      BY <3>1, Ordering
    <3>3. one * Magnitude(drift) <= FreqDev * span
      BY <1>2
    <3>4. one * (-drift) = -(one * drift) /\ one * drift \in Int /\ FreqDev * span \in Int
          /\ one * Magnitude(drift) \in Int
      BY <1>1, <3>1
    <3>5. QED
      BY <3>2, <3>3, <3>4
  <2>4. one * span \in Int /\ FreqDev * span \in Int /\ span * rate \in Int /\ one * drift \in Int
    BY <1>1, <1>3
  <2>5. QED
    BY <2>1, <2>2, <2>3, <2>4
\* In units of 1/FreqOne, twice: at most four deviations and one for the rounding.
<1>6. PICK x \in Int : x = q - span - drift
  OBVIOUS
<1>7. one * x = one * q - far - off /\ one * x \in Int /\ one * q \in Int
  BY <1>5, <1>6
<1>8. 2 * (one * x) <= 4 * dev + one /\ -(2 * (one * x)) <= 4 * dev + one
  BY <1>4, <1>5, <1>7
<1>9. PICK bound \in Nat : bound = Drift(limit) /\ 2 * dev < one * bound
  <2>1. Drift(limit) \in Nat /\ 2 * (FreqDev * limit) < FreqOne * Drift(limit)
    BY DriftBound
  <2>2. FreqDev * span <= FreqDev * limit /\ FreqDev * span \in Int /\ FreqDev * limit \in Int
    BY <1>1, Ordering
  <2>3. FreqOne * Drift(limit) \in Int
    BY <1>1, <2>1
  <2>4. QED
    BY <1>2, <1>5, <2>1, <2>2, <2>3
<1>10. ASSUME NEW y \in Int, 2 * (one * y) <= 4 * dev + one
       PROVE  y <= bound
  <2>1. SUFFICES ASSUME bound + 1 <= y
                 PROVE  FALSE
    BY <1>9, <1>10
  <2>2. one * (bound + 1) <= one * y /\ one * y \in Int
    BY <2>1, Ordering
  <2>3. one * (bound + 1) = one * bound + one /\ one * bound \in Int
    OBVIOUS
  <2>4. QED
    BY <1>5, <1>9, <1>10, <2>2, <2>3
<1>11. x <= bound /\ -x <= bound
  <2>1. one * (-x) = -(one * x)
    BY <1>6
  <2>2. 2 * (one * (-x)) <= 4 * dev + one /\ -x \in Int
    BY <1>7, <1>8, <2>1
  <2>3. QED
    BY <1>8, <1>10, <2>2
<1>12. QED
  BY <1>4, <1>6, <1>9, <1>11 DEF Magnitude

\* Between two resyncs the estimate is within the loop's error of the truth, ...
LEMMA InterpolatedTracks ==
    ASSUME Punctual, IInv, Follows, unseen = 0,
           local - pll.last_ptp_instant <= ResyncInterval
    PROVE  Estimate(pll, local) \in Int /\ Magnitude(Estimate(pll, local) - Truth) <= TrackError
<1>1. /\ local \in Nat /\ ptp \in Int /\ initial_ptp_time \in Int
      /\ pll.last_ptp_instant \in Nat /\ pll.last_ptp_time \in Int
      /\ pll.last_ptp_instant <= local
      /\ pll.frequency_adjustment \in (FreqOne - FreqDev)..(FreqOne + FreqDev)
      /\ pll.phase_offset_ns \in (-PhaseMax)..PhaseMax
  BY DEF IInv, TypeOK, PllStates
<1>2. PICK base, phase, start \in Int :
          /\ base = pll.last_ptp_time /\ phase = pll.phase_offset_ns /\ start = initial_ptp_time
          /\ phase <= PhaseMax /\ -phase <= PhaseMax
  <2>1. PhaseMax \in Nat
    BY ClockAssumption
  <2>2. QED
    BY <1>1, <2>1
<1>3. PICK span \in Nat : span = Span /\ span = local - pll.last_ptp_instant
                          /\ span <= ResyncInterval
  <2>1. ResyncInterval \in Nat
    BY ClockAssumption
  <2>2. QED
    BY <1>1, <2>1 DEF Span
<1>4. MaxLatency \in Nat /\ PhaseMax \in Nat /\ ResyncInterval \in Nat
  BY Most, ClockAssumption
<1>5. PICK offset \in (-MaxLatency)..MaxLatency :
          FreqOne * Magnitude(Moved - Span - offset) <= FreqDev * Span
  BY DEF Follows
<1>6. offset \in Int /\ offset <= MaxLatency /\ -offset <= MaxLatency
  BY <1>4
<1>7. PICK drift \in Int : drift = ptp - base - span - offset
                           /\ FreqOne * Magnitude(drift) <= FreqDev * span
  <2>1. Moved - Span - offset = ptp - base - span - offset
    BY <1>1, <1>2, <1>3 DEF Moved
  <2>2. ptp - base - span - offset \in Int
    BY <1>1, <1>6
  <2>3. QED
    BY <1>3, <1>5, <2>1, <2>2
<1>8. PICK q \in Int : q = RoundDiv(span * pll.frequency_adjustment, FreqOne)
                       /\ Magnitude(q - span - drift) <= Drift(ResyncInterval)
  BY <1>1, <1>3, <1>4, <1>7, InterpolationIsNear
<1>9. Estimate(pll, local) = (base - start) + q + phase
  BY <1>2, <1>3, <1>8 DEF Estimate
<1>10. Truth = ptp - start
  BY <1>2 DEF Truth
<1>11. Estimate(pll, local) - Truth = (q - span - drift) + phase - offset
  BY <1>1, <1>6, <1>7, <1>9, <1>10
<1>12. Drift(ResyncInterval) \in Nat
  BY <1>4, DriftBound
<1>13. QED
  BY <1>2, <1>4, <1>6, <1>8, <1>9, <1>11, <1>12 DEF Magnitude, TrackError

\* ... and so is it right after a resync.
LEMMA ResyncedTracks ==
    ASSUME Punctual, IInv, NEW latency \in Latencies, NEW p,
           p = Resynced(pll, local, ptp + latency)
    PROVE  Estimate(p, local) \in Int /\ Magnitude(Estimate(p, local) - Truth) <= TrackError
<1>1. local \in Nat /\ ptp \in Int /\ initial_ptp_time \in Int /\ pll \in PllStates
      /\ pll.last_ptp_instant <= local
  BY DEF IInv, TypeOK
<1>2. latency \in Nat /\ latency <= MaxLatency /\ MaxLatency \in Nat /\ PhaseMax \in Nat
      /\ ResyncInterval \in Nat
  BY Most, ClockAssumption
<1>3. p \in PllStates
  BY <1>1, <1>2, ResyncedType
<1>4. /\ p.last_ptp_time = ptp + latency /\ p.last_ptp_instant = local
      /\ p.phase_offset_ns \in (-PhaseMax)..PhaseMax
      /\ p.frequency_adjustment \in (FreqOne - FreqDev)..(FreqOne + FreqDev)
  BY <1>3 DEF Resynced, PllStates
<1>5. RoundDiv((local - p.last_ptp_instant) * p.frequency_adjustment, FreqOne) = 0
  <2>1. FreqOne \in Nat \ {0} /\ p.frequency_adjustment \in Int
    BY <1>4, ClockAssumption
  <2>2. (local - p.last_ptp_instant) * p.frequency_adjustment = 0
    BY <1>1, <1>4, <2>1
  <2>3. (2 * 0 + FreqOne) \div (2 * FreqOne) = 0
    BY <2>1
  <2>4. QED
    BY <2>2, <2>3 DEF RoundDiv
<1>6. PICK phase \in Int : phase = p.phase_offset_ns /\ phase <= PhaseMax /\ -phase <= PhaseMax
  BY <1>2, <1>4
<1>7. Estimate(p, local) = (ptp + latency - initial_ptp_time) + 0 + phase
  <2>1. Estimate(p, local) =
            (p.last_ptp_time - initial_ptp_time)
            + RoundDiv((local - p.last_ptp_instant) * p.frequency_adjustment, FreqOne)
            + p.phase_offset_ns
    BY DEF Estimate
  <2>2. PICK base, moved \in Int :
            /\ base = p.last_ptp_time /\ base = ptp + latency
            /\ moved = RoundDiv((local - p.last_ptp_instant) * p.frequency_adjustment, FreqOne)
            /\ moved = 0
    BY <1>1, <1>2, <1>4, <1>5
  <2>3. Estimate(p, local) = (base - initial_ptp_time) + moved + phase
    BY <1>6, <2>1, <2>2
  <2>4. QED
    BY <1>1, <1>2, <1>6, <2>2, <2>3
<1>8. Drift(ResyncInterval) \in Nat
  BY <1>2, DriftBound
<1>9. Estimate(p, local) \in Int /\ Estimate(p, local) - Truth = latency + phase
  BY <1>1, <1>2, <1>6, <1>7 DEF Truth
<1>10. QED
  BY <1>2, <1>6, <1>8, <1>9 DEF Magnitude, TrackError

\* An answer is the estimate, or the least that monotonicity leaves.
LEMMA AnswerIsEstimate ==
    ASSUME NEW p, NEW absolute \in BOOLEAN, NEW reset,
           Finish(ComputeElapsed(p, local), absolute, reset), result'.tag = "Ok",
           Estimate(p, local) \in Int, Magnitude(Estimate(p, local) - Truth) <= TrackError
    PROVE  \/ result'.value = last_returned + 1
           \/ Magnitude(result'.value - result'.truth) <= TrackError
<1>1. /\ result'.truth = Truth
      /\ result'.value = ComputeElapsed(p, local).value
      /\ ComputeElapsed(p, local).tag = "Ok"
  BY DEF Finish
<1>2. ComputeElapsed(p, local).value = AfterLast(Estimate(p, local), last_returned)
  BY <1>1 DEF ComputeElapsed
<1>3. QED
  BY <1>1, <1>2 DEF AfterLast

\* The clock follows the hardware clock: once a resync has seen the latest step, every
\* answer from a base within the interval is within the loop's error, or as close to it as
\* earlier answers allow, whichever operation gives it.
THEOREM AnswersTrack ==
    ASSUME Rates, Punctual
    PROVE  Spec => Tracks
<1>1. IInv /\ Follows /\ [Next]_vars =>
          [Answered /\ unseen' = 0 /\ local - pll'.last_ptp_instant <= ResyncInterval =>
               \/ result'.value = last_returned + 1
               \/ Magnitude(result'.value - result'.truth) <= TrackError]_vars
  <2> SUFFICES ASSUME IInv, Follows, [Next]_vars, Answered, unseen' = 0,
                      local - pll'.last_ptp_instant <= ResyncInterval
               PROVE  \/ result'.value = last_returned + 1
                      \/ Magnitude(result'.value - result'.truth) <= TrackError
    OBVIOUS
  <2>1. result' # result /\ result'.tag = "Ok"
    BY DEF Answered
  <2>2. ASSUME NEW absolute \in BOOLEAN, Finish(ComputeElapsed(pll, local), absolute, FALSE),
               UNCHANGED <<pll, unseen>>
        PROVE  \/ result'.value = last_returned + 1
               \/ Magnitude(result'.value - result'.truth) <= TrackError
    <3>1. unseen = 0 /\ local - pll.last_ptp_instant <= ResyncInterval
      BY <2>2
    <3>2. Estimate(pll, local) \in Int
          /\ Magnitude(Estimate(pll, local) - Truth) <= TrackError
      BY <3>1, InterpolatedTracks
    <3>3. QED
      BY <2>1, <2>2, <3>2, AnswerIsEstimate
  <2>3. CASE \E latency \in Latencies, absolute \in BOOLEAN : Interpolate(latency, absolute)
    BY <2>2, <2>3 DEF Interpolate
  <2>4. CASE \E latency \in Latencies : ElapsedNoResync(latency)
    BY <2>2, <2>4 DEF ElapsedNoResync
  <2>5. CASE \E latency \in Latencies, absolute \in BOOLEAN : ResyncAndAnswer(latency, absolute)
    <3>1. PICK latency \in Latencies, absolute \in BOOLEAN : ResyncAndAnswer(latency, absolute)
      BY <2>5
    <3>2. PICK p : p = Resynced(pll, local, ptp + latency)
      OBVIOUS
    <3>3. PICK reset : Finish(ComputeElapsed(p, local), absolute, reset)
      BY <3>1, <3>2 DEF ResyncAndAnswer
    <3>4. Estimate(p, local) \in Int /\ Magnitude(Estimate(p, local) - Truth) <= TrackError
      BY <3>2, ResyncedTracks
    <3>5. QED
      BY <2>1, <3>3, <3>4, AnswerIsEstimate
  <2>6. CASE \E latency \in Latencies : ResyncFails(latency)
    BY <2>1, <2>6 DEF ResyncFails
  <2>7. CASE \/ \E tick \in Ticks : Tick(tick)
             \/ \E delta \in Steps : StepPtp(delta)
             \/ UNCHANGED vars
    BY <2>1, <2>7 DEF Tick, StepPtp, vars
  <2>8. QED
    BY <2>3, <2>4, <2>5, <2>6, <2>7 DEF Next, Call
<1>2. QED
  BY <1>1, Invariance, FollowsAlways, PTL DEF Spec, Tracks
=============================================================================
