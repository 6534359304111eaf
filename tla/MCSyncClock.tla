----------------------------- MODULE MCSyncClock -----------------------------
(* The instances of SyncClock that TLC checks: 8 is the frequency 1.0, a     *)
(* resync is due every 16 units, and the hardware clock runs at most one     *)
(* unit in eight fast or slow, the bound the loop clamps its frequency to.   *)
EXTENDS SyncClock

MCTicks == {<<8, 7>>, <<8, 8>>, <<8, 9>>}
MCSteps == {-19, -3, 30}
=============================================================================
