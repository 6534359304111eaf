------------------------------ MODULE MCPtpTool ------------------------------
(***************************************************************************)
(* One run that captures timestamps, one that does everything else, on a   *)
(* clock that runs through negative times and several wrap windows.        *)
(***************************************************************************)
EXTENDS PtpTool

MCMinSeconds == -1
MCCommands == [a |-> {"perout", "perout_phase", "stop_perout", "stop_extts", "set_pin"},
               b |-> {"extts"}]
MCTools == DOMAIN MCCommands
=============================================================================
