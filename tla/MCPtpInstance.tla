---------------------------- MODULE MCPtpInstance ----------------------------
(* Instance of PtpQueries, and with it of PtpInstance, for TLC. *)
EXTENDS PtpQueries

MCMissable == {"portState"}
MCFragile == {"gmPresent"}
MCPortStates == {"UNCALIBRATED", "SLAVE"}
=============================================================================
