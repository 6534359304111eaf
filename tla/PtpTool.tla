------------------------------- MODULE PtpTool -------------------------------
(***************************************************************************)
(* ptp-tool (src/bin/ptp-tool.rs) and the PtpClockHardware it is built on  *)
(* (src/ptp_phc/clock.rs): runs of the tool, several at a time, that read  *)
(* and configure one PTP hardware clock, whose state the kernel keeps.     *)
(*                                                                         *)
(* A run is suspended between any two system calls; every call may fail.   *)
(* Configuration is asked for with a second version of an ioctl and, when  *)
(* that fails for whatever reason, once more with the first.               *)
(***************************************************************************)
EXTENDS AvtpTime

CONSTANTS
    Tools,          \* processes that run ptp-tool
    Commands,       \* the commands each of them may be given
    MaxCount,       \* bound: events of one extts command
    MaxEvents,      \* bound: events that wait in the kernel
    MaxSuspension   \* bound: nanoseconds from clock_gettime to the ioctl

ASSUME ToolAssumption ==
    /\ Commands \in [Tools -> SUBSET
           {"perout", "perout_phase", "stop_perout", "extts", "stop_extts", "set_pin"}]
    /\ MaxCount \in Nat /\ MaxEvents \in Nat /\ MaxSuspension \in 0..Giga

VARIABLES
    clock,    \* the time of the hardware clock
    kernel,   \* which requests it knows: the second version, phases
    output,   \* of the periodic output: off, from a start, or by phase
    capture,  \* external timestamps are enabled
    events,   \* timestamps waiting to be read
    pin,      \* the function of the pin
    tool,     \* where each run stands
    leftOn    \* history: a run has failed after it had enabled timestamps

deviceVars == <<kernel, output, capture, events, pin, leftOn>>
vars == <<clock, deviceVars, tool>>

\* `at` is the system call that comes next, `command` what the run was asked for,
\* `start` the start in its request and `read` the clock it computed it from,
\* `left` the events it still has to read, `on` what it asks for.
NoRun == [at |-> "none", command |-> "none", start |-> NoTime, read |-> NoTime,
          left |-> 0, on |-> FALSE]

Runs ==
    [at : {"none", "gettime", "perout2", "perout1", "extts2", "extts1", "read"},
     command : {"none", "perout", "perout_phase", "stop_perout", "extts", "stop_extts"},
     start : [seconds : Int, nanoseconds : 0..(Giga - 1)], read : PtpTimes \cup {NoTime},
     left : 0..MaxCount, on : BOOLEAN]

\* Only a run of extts enables timestamps and reads events, as many as it was asked for.
WellFormed(run) ==
    /\ run.at \in {"gettime", "perout2", "perout1"} => run.command # "extts"
    /\ run.at = "read" => run.command = "extts" /\ run.left > 0
    /\ run.at \in {"extts2", "extts1"} /\ run.on => run.command = "extts"

TypeOK ==
    /\ clock \in PtpTimes
    /\ kernel \in [v2 : BOOLEAN, phase : BOOLEAN]
    /\ output \in {"off", "start", "phase"}
    /\ capture \in BOOLEAN /\ leftOn \in BOOLEAN
    /\ events \in 0..MaxEvents
    /\ pin \in {"none", "extts", "perout"}
    /\ tool \in [Tools -> Runs]
    /\ \A t \in Tools : WellFormed(tool[t])

Init ==
    /\ clock = [seconds |-> MinSeconds, nanoseconds |-> 0]
    /\ kernel \in [v2 : BOOLEAN, phase : BOOLEAN] /\ (kernel.phase => kernel.v2)
    /\ output = "off" /\ capture = FALSE /\ events = 0 /\ pin = "none"
    /\ tool = [t \in Tools |-> NoRun]
    /\ leftOn = FALSE

Asked(t, command) ==
    /\ tool[t] = NoRun /\ command \in Commands[t]
    /\ UNCHANGED <<clock, deviceVars>>
Calls(t, run) == tool' = [tool EXCEPT ![t] = run]
Ended(t) == Calls(t, NoRun)

-----------------------------------------------------------------------------
(* Periodic output *)

Perout(t) ==
    /\ Asked(t, "perout")
    /\ Calls(t, [NoRun EXCEPT !.at = "gettime", !.command = "perout", !.on = TRUE])
PeroutPhase(t) ==
    /\ Asked(t, "perout_phase")
    /\ Calls(t, [NoRun EXCEPT !.at = "perout2", !.command = "perout_phase", !.on = TRUE])
\* disable_periodic_output: a request with a period of zero.
StopPerout(t) ==
    /\ Asked(t, "stop_perout")
    /\ Calls(t, [NoRun EXCEPT !.at = "perout2", !.command = "stop_perout"])

\* Where enable_periodic_output starts an output without a phase.
NextSecond(now) == [seconds |-> now.seconds + 1, nanoseconds |-> 0]
DefaultStart(now) == [seconds |-> now.seconds + 2, nanoseconds |-> 0]

GetTime(t) ==
    /\ tool[t].at = "gettime"
    /\ \/ Calls(t, [tool[t] EXCEPT !.at = "perout2", !.read = clock,
                                   !.start = DefaultStart(clock)])
       \/ Ended(t)
    /\ UNCHANGED <<clock, deviceVars>>

\* What the request of a run asks for: a period of zero turns the output off, and the
\* time in any other is a phase or a start, by a flag.
PeroutAsked(t) ==
    IF ~tool[t].on THEN "off"
    ELSE IF tool[t].command = "perout_phase" THEN "phase" ELSE "start"

\* The kernel accepts a request and does what it asks for.  The first version of the
\* ioctl knows no phase: the time in the request is then the start.
StartsOutput(asked, version) ==
    /\ version = 2 => kernel.v2 /\ (asked = "phase" => kernel.phase)
    /\ output' = IF version = 1 /\ asked = "phase" THEN "start" ELSE asked

\* perout_request: Ok when either version is accepted.
PeroutRequest2(t) ==
    /\ tool[t].at = "perout2"
    /\ \/ StartsOutput(PeroutAsked(t), 2) /\ Ended(t)
       \/ Calls(t, [tool[t] EXCEPT !.at = "perout1"]) /\ UNCHANGED output
    /\ UNCHANGED <<clock, kernel, capture, events, pin, leftOn>>
PeroutRequest1(t) ==
    /\ tool[t].at = "perout1"
    /\ \/ StartsOutput(PeroutAsked(t), 1) /\ Ended(t)
       \/ Ended(t) /\ UNCHANGED output
    /\ UNCHANGED <<clock, kernel, capture, events, pin, leftOn>>

-----------------------------------------------------------------------------
(* External timestamps *)

Extts(t) ==
    /\ Asked(t, "extts")
    /\ \E count \in 0..MaxCount :
           Calls(t, [NoRun EXCEPT !.at = "extts2", !.command = "extts",
                                  !.left = count, !.on = TRUE])
StopExtts(t) ==
    /\ Asked(t, "stop_extts")
    /\ Calls(t, [NoRun EXCEPT !.at = "extts2", !.command = "stop_extts"])

\* disable_external_timestamping follows when all events have been read.
EndsEnabled(run) == NoRun
Disabling(run) == [run EXCEPT !.at = "extts2", !.on = FALSE]
ReadsOneMore(run) == [run EXCEPT !.at = "read"]
Reading(run) == IF run.left = 0 THEN Disabling(run) ELSE [run EXCEPT !.at = "read"]

\* The kernel does what an accepted request asks for.
SetsCapture(on) ==
    /\ capture' = on
    /\ leftOn' = (leftOn /\ on)

\* extts_request has returned Ok: a run that has enabled timestamps reads them, one that
\* has disabled them is over.
Granted(t) == IF tool[t].on THEN Calls(t, Reading(tool[t])) ELSE Ended(t)

\* A run that ends with an error after it had enabled timestamps.
LeavesOn(t) == leftOn' = (leftOn \/ (tool[t].command = "extts" /\ capture))

\* extts_request
ExttsRequest2(t) ==
    /\ tool[t].at = "extts2"
    /\ \/ kernel.v2 /\ SetsCapture(tool[t].on) /\ Granted(t)
       \/ Calls(t, [tool[t] EXCEPT !.at = "extts1"]) /\ UNCHANGED <<capture, leftOn>>
    /\ UNCHANGED <<clock, kernel, output, events, pin>>
ExttsRequest1(t) ==
    /\ tool[t].at = "extts1"
    /\ \/ SetsCapture(tool[t].on) /\ Granted(t)
       \/ Ended(t) /\ UNCHANGED capture
          /\ IF tool[t].on THEN UNCHANGED leftOn ELSE LeavesOn(t)
    /\ UNCHANGED <<clock, kernel, output, events, pin>>

\* read_external_timestamp_event blocks until there is an event, of whatever channel
\* and whoever enabled it.
ReadEvent(t) ==
    /\ tool[t].at = "read" /\ events > 0
    /\ events' = events - 1
    /\ Calls(t, Reading([tool[t] EXCEPT !.left = @ - 1]))
    /\ UNCHANGED <<clock, kernel, output, capture, pin, leftOn>>
ReadFails(t) ==
    /\ tool[t].at = "read"
    /\ Ended(t) /\ LeavesOn(t)
    /\ UNCHANGED <<clock, kernel, output, capture, events, pin>>

-----------------------------------------------------------------------------
(* Pins, and the world *)

\* set_pin_function; what the pin did before is disabled.
SetPin(t) ==
    /\ tool[t] = NoRun /\ "set_pin" \in Commands[t]
    /\ pin' \in {"none", "extts", "perout"} \ {pin}
    /\ output' = IF pin = "perout" THEN "off" ELSE output
    /\ capture' = (capture /\ pin # "extts")
    /\ leftOn' = (leftOn /\ pin # "extts")
    /\ UNCHANGED <<clock, kernel, events, tool>>

\* An edge on the input, and the clock: no run is suspended between reading it
\* and its request for longer than the bound.
Edge ==
    /\ capture /\ events < MaxEvents
    /\ events' = events + 1
    /\ UNCHANGED <<clock, kernel, output, capture, pin, tool, leftOn>>
Tick ==
    /\ FromNs(AsNanos(clock) + 1) # NoTime
    /\ \A t \in Tools : tool[t].read # NoTime =>
           AsNanos(clock) + 1 <= AsNanos(tool[t].read) + MaxSuspension
    /\ clock' = FromNs(AsNanos(clock) + 1)
    /\ UNCHANGED <<deviceVars, tool>>

Next ==
    \/ Tick \/ Edge
    \/ \E t \in Tools :
           \/ Perout(t) \/ PeroutPhase(t) \/ StopPerout(t) \/ GetTime(t)
           \/ PeroutRequest2(t) \/ PeroutRequest1(t)
           \/ Extts(t) \/ StopExtts(t) \/ ExttsRequest2(t) \/ ExttsRequest1(t)
           \/ ReadEvent(t) \/ ReadFails(t) \/ SetPin(t)

Spec == Init /\ [][Next]_vars

-----------------------------------------------------------------------------
(* Properties *)

\* "The absolute start time is safely in the future by the time the ioctl is handled"
\* (clock.rs:223): as long as a request for an output without a phase has not been
\* handled, by either version of the ioctl, its start lies ahead, for a run that is
\* not suspended for more than a second.
StartIsAhead ==
    \A t \in Tools : tool[t].read # NoTime => AsNanos(clock) < AsNanos(tool[t].start)

\* Timestamps stay enabled for a run that still has to read or to disable them, or
\* because a run has failed in between, which ptp-tool does not clean up after;
\* however runs interleave, one that ends without an error leaves none enabled.
WillDisable(run) == run.command = "extts" /\ (run.at = "read" \/ ~run.on)
CaptureIsAccountedFor == capture => leftOn \/ \E t \in Tools : WillDisable(tool[t])

\* The timestamp of a packet, expanded against the clock that a receiver reads, is the
\* presentation time that its sender meant, whenever this is less than half a window
\* away: all sender's times and delays that lead there.
StampRecovered ==
    \A delay \in 0..(Wrap - 1), early \in (-(Wrap \div 2))..(Wrap \div 2) :
        LET time == FromNs(AsNanos(clock) + early - delay)
        IN  time # NoTime => StampRecoveredAt(time, delay, clock)

\* PtpTimes are instants: from_ns_i128 inverts as_nanos, also for negative times, new()
\* carries to the same normal form, and the derived comparison of two times, seconds
\* first, compares the instants they stand for.
TimesAreInstants ==
    /\ FromNs(AsNanos(clock)) = clock
    /\ \A nanos \in 0..(3 * Giga) :
           New(clock.seconds, nanos) = FromNs(clock.seconds * Giga + nanos)
    /\ \A time \in PtpTimes : Before(time, clock) <=> AsNanos(time) < AsNanos(clock)
===============================================================================
