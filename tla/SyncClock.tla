------------------------------ MODULE SyncClock ------------------------------
(***************************************************************************)
(* PtpSynchronizedClock (src/avtp/synchronizer.rs): a clock that reads the *)
(* PTP hardware clock once per resync interval, interpolates between the   *)
(* reads with the local monotonic timer, and corrects frequency and phase  *)
(* with a phase-locked loop.                                               *)
(*                                                                         *)
(* Times are integers in nanoseconds (scaled down in the model-checked     *)
(* instances).  The f64 frequency is the integer numerator of a fraction   *)
(* with denominator FreqOne: FreqOne is 1.0, and the two f64 rounding      *)
(* steps that leave integers in the code (round() and `as i64`) are the    *)
(* ones kept here.  The environment moves the local timer and the hardware *)
(* clock at slightly different rates, steps the hardware clock forwards or *)
(* backwards, delays a read, and makes a read fail.                        *)
(***************************************************************************)
EXTENDS Integers

CONSTANTS
    FreqOne,         \* the frequency 1.0
    FreqDev,         \* FREQ_MAX - 1.0, also 1.0 - FREQ_MIN
    AlphaDen,        \* 1 / PLL_ALPHA = 1 / PHASE_ALPHA
    MinSample,       \* a shorter local interval measures no frequency
    PhaseMax,        \* PHASE_OFFSET_MAX_NS
    JumpThreshold,   \* LARGE_JUMP_THRESHOLD_NS
    ResyncInterval,  \* resync_interval
    MaxDuration,     \* Duration::MAX
    MaxPtpTime,      \* the greatest PtpTime
    Latencies,       \* how long a call may take until it reads PTP time
    Ticks,           \* pairs <<local advance, PTP advance>> between calls
    Steps,           \* the discontinuous adjustments of the hardware clock
    PtpStart,        \* the hardware clock when the clock object is built
    MaxLocal,        \* bound: local time of the last call or tick
    MaxSteps         \* bound: number of hardware clock steps

ASSUME ClockAssumption ==
    /\ FreqOne \in Nat /\ FreqDev \in Nat /\ FreqDev < FreqOne
    /\ AlphaDen \in Nat \ {0}
    /\ MinSample \in Nat /\ PhaseMax \in Nat /\ JumpThreshold \in Nat
    /\ ResyncInterval \in Nat
    /\ MaxDuration \in Nat /\ MaxPtpTime \in Int /\ PtpStart \in Int
    /\ Latencies \subseteq Nat
    /\ Ticks \subseteq Nat \X Nat
    /\ Steps \subseteq Int
    /\ MaxLocal \in Nat /\ MaxSteps \in Nat

VARIABLES
    local,             \* Instant::now()
    ptp,               \* the PTP hardware clock
    steps,             \* hardware clock steps so far
    initial_ptp_time,
    pll,               \* last_ptp_time, last_ptp_instant, and the loop's state
    last_returned,
    result,            \* what the latest call answered
    highest,           \* history: the greatest duration a caller received
    unseen             \* history: the net step since the last successful resync

env == <<local, ptp, steps>>
vars == <<env, initial_ptp_time, pll, last_returned, result, highest, unseen>>

Errors == {"PtpClock", "NegativeElapsed", "DurationOverflow", "MonotonicityLimit"}

\* truth: the PTP time elapsed since the clock was built, when the call began;
\* reset: the call's resync threw the loop's state away.
Results ==
    [tag : {"none", "Ok"} \cup Errors, value : Int, truth : Int, reset : BOOLEAN]

PllStates ==
    [last_ptp_time : Int, last_ptp_instant : Nat,
     frequency_adjustment : (FreqOne - FreqDev)..(FreqOne + FreqDev),
     phase_offset_ns : (-PhaseMax)..PhaseMax]

TypeOK ==
    /\ local \in Nat /\ ptp \in Int /\ steps \in Nat
    /\ initial_ptp_time \in Int
    /\ pll \in PllStates /\ pll.last_ptp_instant <= local
    /\ last_returned \in 0..MaxDuration /\ highest \in 0..MaxDuration
    /\ result \in Results
    /\ unseen \in Int

-----------------------------------------------------------------------------
(* The arithmetic of the loop *)

Clamp(x, lo, hi) == IF x < lo THEN lo ELSE IF x > hi THEN hi ELSE x
Magnitude(x) == IF x < 0 THEN -x ELSE x
RoundDiv(a, b) == (2 * a + b) \div (2 * b)
TruncDiv(a, b) == IF a >= 0 THEN a \div b ELSE -((-a) \div b)

UnboundedFrequency(freq, ptpDiff, dt) ==
    IF dt > MinSample
    THEN RoundDiv((AlphaDen - 1) * freq * dt + FreqOne * ptpDiff, AlphaDen * dt)
    ELSE freq

\* The moving average of the measured frequency, within its bounds.
FilteredFrequency(freq, ptpDiff, dt) ==
    IF dt > MinSample
    THEN Clamp(RoundDiv((AlphaDen - 1) * freq * dt + FreqOne * ptpDiff, AlphaDen * dt),
               FreqOne - FreqDev, FreqOne + FreqDev)
    ELSE freq

\* Actual minus predicted PTP movement, in units of 1/FreqOne ns.
PhaseError(freq, ptpDiff, dt) == FreqOne * ptpDiff - dt * freq

ForwardOnlyJump(phaseError) == phaseError > JumpThreshold * FreqOne
PhaseLimitJump(phaseError) == Magnitude(phaseError) > PhaseMax * FreqOne
IsJump(phaseError) == Magnitude(phaseError) > JumpThreshold * FreqOne

\* The moving average of the phase error, clamped and truncated.
FilteredPhase(phase, phaseError) ==
    Clamp(TruncDiv((AlphaDen - 1) * phase * FreqOne + phaseError, AlphaDen * FreqOne),
          -PhaseMax, PhaseMax)

KeepsInstant(p, now, reading) == [p EXCEPT !.last_ptp_time = reading]

\* The state of the loop after resync_ptp(now) has read `reading`.
Resynced(p, now, reading) ==
    LET dt == now - p.last_ptp_instant
        diff == reading - p.last_ptp_time
        freq == FilteredFrequency(p.frequency_adjustment, diff, dt)
        error == PhaseError(freq, diff, dt)
    IN  [last_ptp_time |-> reading,
         last_ptp_instant |-> now,
         frequency_adjustment |-> IF IsJump(error) THEN FreqOne ELSE freq,
         phase_offset_ns |->
             IF IsJump(error) THEN 0 ELSE FilteredPhase(p.phase_offset_ns, error)]

\* Whether resync_ptp takes the large-jump exit.
Resets(p, now, reading) ==
    LET dt == now - p.last_ptp_instant
        diff == reading - p.last_ptp_time
    IN  IsJump(PhaseError(FilteredFrequency(p.frequency_adjustment, diff, dt), diff, dt))

\* The interpolated elapsed time, before the monotonicity rule.
Estimate(p, now) ==
    (p.last_ptp_time - initial_ptp_time)
    + RoundDiv((now - p.last_ptp_instant) * p.frequency_adjustment, FreqOne)
    + p.phase_offset_ns

\* The monotonicity rule: never at or before the last answer.
AtOrAfterLast(estimate, last) == IF estimate < last THEN last + 1 ELSE estimate
AfterLast(estimate, last) == IF estimate <= last THEN last + 1 ELSE estimate

\* compute_elapsed: the answer of a call whose loop state is p.
ComputeElapsed(p, now) ==
    LET estimate == Estimate(p, now)
        duration == AfterLast(estimate, last_returned)
    IN  IF estimate < 0 THEN [tag |-> "NegativeElapsed", value |-> estimate]
        ELSE IF estimate > MaxDuration THEN [tag |-> "DurationOverflow", value |-> 0]
        ELSE IF duration > MaxDuration THEN [tag |-> "MonotonicityLimit", value |-> 0]
        ELSE [tag |-> "Ok", value |-> duration]

-----------------------------------------------------------------------------
(* The operations *)

\* with_resync_interval: the hardware clock is read, then the local timer.
Init ==
    /\ \E latency \in Latencies : local = latency /\ ptp = PtpStart + latency
    /\ steps = 0
    /\ initial_ptp_time = PtpStart
    /\ pll = [last_ptp_time |-> PtpStart, last_ptp_instant |-> local,
              frequency_adjustment |-> FreqOne, phase_offset_ns |-> 0]
    /\ last_returned = 0
    /\ result = [tag |-> "none", value |-> 0, truth |-> 0, reset |-> FALSE]
    /\ highest = 0
    /\ unseen = 0

\* The time a call takes; both clocks run on.
TimePasses(latency) ==
    /\ local + latency <= MaxLocal
    /\ local' = local + latency
    /\ ptp' = ptp + latency
    /\ UNCHANGED <<steps, initial_ptp_time>>

Truth == ptp - initial_ptp_time

\* compute_elapsed stores the duration, then the caller receives it, unless
\* ptp_time() finds the absolute time beyond the range of PtpTime.
Finish(outcome, absolute, reset) ==
    LET tooLate == absolute /\ initial_ptp_time + outcome.value > MaxPtpTime
        received == outcome.tag = "Ok" /\ ~tooLate
    IN  /\ last_returned' = IF outcome.tag = "Ok" THEN outcome.value ELSE last_returned
        /\ highest' = IF received THEN outcome.value ELSE highest
        /\ result' = [tag |-> IF outcome.tag = "Ok" /\ tooLate THEN "DurationOverflow"
                              ELSE outcome.tag,
                      value |-> outcome.value, truth |-> Truth, reset |-> reset]

ResyncDue == local - pll.last_ptp_instant >= ResyncInterval

\* elapsed() and, when absolute, ptp_time(), before the resync interval is over.
Interpolate(latency, absolute) ==
    /\ ~ResyncDue
    /\ Finish(ComputeElapsed(pll, local), absolute, FALSE)
    /\ TimePasses(latency)
    /\ UNCHANGED <<pll, unseen>>

\* The same calls when a resync is due.  The local time of the call is taken
\* first and is paired with a PTP time read `latency` later.
ResyncAndAnswer(latency, absolute) ==
    LET reading == ptp + latency
        p == Resynced(pll, local, reading)
    IN  /\ ResyncDue
        /\ pll' = p
        /\ Finish(ComputeElapsed(p, local), absolute, Resets(pll, local, reading))
        /\ unseen' = 0
        /\ TimePasses(latency)

RestartsOnFailure(latency) ==
    /\ ResyncDue
    /\ last_returned' = 0
    /\ result' = [tag |-> "PtpClock", value |-> 0, truth |-> Truth, reset |-> FALSE]
    /\ TimePasses(latency)
    /\ UNCHANGED <<pll, highest, unseen>>

\* A due resync whose clock read fails: the `?` in elapsed().
ResyncFails(latency) ==
    /\ ResyncDue
    /\ result' = [tag |-> "PtpClock", value |-> 0, truth |-> Truth, reset |-> FALSE]
    /\ TimePasses(latency)
    /\ UNCHANGED <<pll, last_returned, highest, unseen>>

\* elapsed_no_resync()
ElapsedNoResync(latency) ==
    /\ Finish(ComputeElapsed(pll, local), FALSE, FALSE)
    /\ TimePasses(latency)
    /\ UNCHANGED <<pll, unseen>>

-----------------------------------------------------------------------------
(* The environment *)

\* Time passes between calls.
Tick(tick) ==
    /\ local + tick[1] <= MaxLocal
    /\ local' = local + tick[1]
    /\ ptp' = ptp + tick[2]
    /\ UNCHANGED <<steps, initial_ptp_time, pll, last_returned, result, highest, unseen>>

\* ptp4l, or an administrator, steps the hardware clock.
StepPtp(delta) ==
    /\ steps < MaxSteps
    /\ steps' = steps + 1
    /\ ptp' = ptp + delta
    /\ unseen' = unseen + delta
    /\ UNCHANGED <<local, initial_ptp_time, pll, last_returned, result, highest>>

Call ==
    \E latency \in Latencies :
        \/ \E absolute \in BOOLEAN : Interpolate(latency, absolute)
        \/ \E absolute \in BOOLEAN : ResyncAndAnswer(latency, absolute)
        \/ ResyncFails(latency)
        \/ ElapsedNoResync(latency)

Next ==
    \/ Call
    \/ \E tick \in Ticks : Tick(tick)
    \/ \E delta \in Steps : StepPtp(delta)

Spec == Init /\ [][Next]_vars

-----------------------------------------------------------------------------
(* Properties *)

Answered == result' # result /\ result'.tag = "Ok"

\* "Each call to elapsed() returns a value strictly greater than the previous,
\* even if PTP time steps backward": whatever the steps, failed reads, failed
\* calls and mixture of the three operations, an answer exceeds every earlier one.
StrictlyMonotonic == [][Answered => result'.value > highest]_vars

\* Every call either answers later than all before or fails and keeps them.
Promise == INSTANCE MonotonicClock WITH failed <- result.tag \in Errors
RefinesMonotonicClock == Promise!Spec

\* How far interpolation and prediction can drift apart over dt, while both the
\* loop's frequency and the true rate are within FreqDev of nominal.
Drift(dt) == (2 * FreqDev * dt) \div FreqOne + 1
MaxLatency == CHOOSE l \in Latencies : \A m \in Latencies : m <= l

\* elapsed() "tracks the actual PTP elapsed time": once a resync has seen the
\* latest step, an answer is within the loop's error of the truth, or it is the
\* smallest duration that monotonicity leaves.  The loop's state is no older than the
\* interval, which elapsed() and ptp_time() see to; elapsed_no_resync() does not.
TrackError == PhaseMax + Drift(ResyncInterval) + MaxLatency
Tracks ==
    [][Answered /\ unseen' = 0 /\ local - pll'.last_ptp_instant <= ResyncInterval =>
         \/ result'.value = last_returned + 1
         \/ Magnitude(result'.value - result'.truth) <= TrackError]_vars

\* resync_ptp tells steps from drift: it throws the loop's state away after
\* every step beyond the threshold and the drift since the last resync, ...
\* The constructor reads PTP time before the local timer and a resync after it, so
\* that the latencies of both reads count.
ResyncedNow == pll' # pll
SinceResync == pll'.last_ptp_instant - pll.last_ptp_instant
Slack == Drift(SinceResync) + 2 * MaxLatency
JumpsCaught ==
    [][ResyncedNow /\ Magnitude(unseen) > JumpThreshold + Slack => result'.reset]_vars

\* ... and never without a step, when the resync was not long overdue.
NoSpuriousReset ==
    [][ResyncedNow /\ unseen = 0 /\ Slack <= JumpThreshold => ~result'.reset]_vars

=============================================================================
