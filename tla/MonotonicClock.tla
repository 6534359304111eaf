--------------------------- MODULE MonotonicClock ---------------------------
(***************************************************************************)
(* What a caller of PtpSynchronizedClock is promised, whatever the PTP     *)
(* hardware does: a call either fails or answers with a duration strictly  *)
(* greater than every duration answered before, and a failed call takes    *)
(* nothing back (src/avtp/synchronizer.rs, "Monotonicity guarantee").      *)
(*                                                                         *)
(* highest  the greatest duration a caller has received, 0 before that     *)
(* failed   whether the latest call failed                                 *)
(***************************************************************************)
EXTENDS Integers

VARIABLES highest, failed

vars == <<highest, failed>>

Init == highest = 0 /\ failed = FALSE

\* A successful call: any later duration may be answered.
Answer ==
    /\ highest' \in Int
    /\ highest' > highest
    /\ failed' = FALSE

\* A failed call.
Fail ==
    /\ failed' = TRUE
    /\ UNCHANGED highest

Next == Answer \/ Fail

Spec == Init /\ [][Next]_vars
=============================================================================
