------------------------------ MODULE PtpSyncd -------------------------------
(***************************************************************************)
(* ptp-syncd (src/bin/ptp-syncd.rs): one thread that creates and starts a  *)
(* master and a slave PtpInstance, waits until the slave is synchronized,  *)
(* then polls both until Ctrl+C, and stops them.  PtpInstance gives the    *)
(* calls; a call of snapshot takes several steps, in which ptp4l may exit  *)
(* and Ctrl+C may arrive.                                                  *)
(*                                                                         *)
(* Of MonitorState, the fields that decide more than the wording of a log  *)
(* line are kept: the synchronization state and whether each of the other  *)
(* two kinds of timestamp is Some.                                         *)
(***************************************************************************)
EXTENDS PtpInstance, FiniteSets

CONSTANTS Master, Slave

ASSUME SyncdAssumption == Master # Slave /\ Instances = {Master, Slave}

VARIABLES
    pc,                \* the next statement of main, or of the loop it is in
    loop,              \* wait_for_initial_sync, then monitor_loop
    running,           \* the shutdown flag; the handler of Ctrl+C clears it
    interrupted,       \* history: Ctrl+C has been pressed
    slave_synchronized,   \* what the latest handle_slave_snapshot returned
    slave_sync_state,  \* MonitorState
    pending,           \* last_slave_pending_log, last_master_pending_log: is_some()
    down,              \* last_slave_process_down_log, last_master_...: is_some()
    exit               \* how the process ended

monitor == <<slave_synchronized, slave_sync_state, pending, down>>
vars == <<instanceVars, pc, loop, running, interrupted, monitor, exit>>

\* The statements of main up to the loops, those of an iteration, of shutdown.
Starting == {"new_master", "new_slave", "start_master", "start_slave", "set_handler"}
Iterating == {"head", "slave_snapshot", "slave_handler", "master_snapshot",
              "master_handler", "sleep"}
Stopping == {"stop_master", "stop_slave", "drop_slave", "drop_master"}

TypeOK ==
    /\ InstanceTypeOK
    /\ pc \in Starting \cup Iterating \cup Stopping \cup {"exited"}
    /\ loop \in {"wait", "monitor"}
    /\ running \in BOOLEAN /\ interrupted \in BOOLEAN
    /\ slave_synchronized \in BOOLEAN
    /\ slave_sync_state \in {"Unknown", "Unsynchronized", "Synchronized"}
    /\ pending \in [Instances -> BOOLEAN]
    /\ down \in [Instances -> BOOLEAN]
    /\ exit \in {"none", "return", "fatal", "signal"}

Init ==
    /\ InstanceInit
    /\ pc = "new_master" /\ loop = "wait"
    /\ running = TRUE /\ interrupted = FALSE
    /\ slave_synchronized = FALSE
    /\ slave_sync_state = "Unknown"
    /\ pending = [i \in Instances |-> FALSE]
    /\ down = [i \in Instances |-> FALSE]
    /\ exit = "none"

Goto(from, to) == pc = from /\ pc' = to

-----------------------------------------------------------------------------
(* Startup *)

\* A step of startup: the call succeeds, or fatal() ends the process at once,
\* without running the destructors of the instances that exist.
Startup(from, to, Succeeds, FailsToo) ==
    /\ pc = from
    /\ \/ Succeeds /\ pc' = to /\ UNCHANGED exit
       \/ FailsToo /\ pc' = "exited" /\ exit' = "fatal"
    /\ UNCHANGED <<loop, running, interrupted, monitor>>

NewMaster == Startup("new_master", "new_slave", New(Master), NewFails(Master))
NewSlave == Startup("new_slave", "start_master", New(Slave), NewFails(Slave))
StartMaster == Startup("start_master", "start_slave", Start(Master), StartFails(Master))
StartSlave == Startup("start_slave", "set_handler", Start(Slave), StartFails(Slave))
SetHandler == Startup("set_handler", "head", UNCHANGED instanceVars, UNCHANGED instanceVars)

-----------------------------------------------------------------------------
(* The loops *)

\* while running.load(..): the flag is looked at here and nowhere else.
IgnoresFlag ==
    /\ pc = "head"
    /\ pc' = IF running \/ loop = "monitor" THEN "slave_snapshot" ELSE "stop_master"
    /\ UNCHANGED <<instanceVars, loop, running, interrupted, monitor, exit>>
LoopHead ==
    /\ pc = "head"
    /\ pc' = IF running THEN "slave_snapshot" ELSE "stop_master"
    /\ UNCHANGED <<instanceVars, loop, running, interrupted, monitor, exit>>

\* One step of a snapshot; the handler is next when the call has returned.
SnapshotStep(i, at, handler) ==
    /\ pc = at
    /\ Snapshot(i) \/ PmcAnswers(i) \/ PmcFails(i) \/ Recheck(i)
    /\ pc' = IF query'[i] = "idle" THEN handler ELSE at
    /\ UNCHANGED <<loop, running, interrupted, monitor, exit>>

SlaveSnapshot == SnapshotStep(Slave, "slave_snapshot", "slave_handler")
MasterSnapshot == SnapshotStep(Master, "master_snapshot", "master_handler")

\* The two timestamps: pending is set by NotReady, down by a process that is gone,
\* each of them is cleared by every other result.
OnlyExited == {"ProcessExited"}
AnyProcessError == {"ProcessExited", "ProcessNotRunning", "Io"}
Down == {"ProcessExited", "ProcessNotRunning"}
Stamps(i) ==
    /\ pending' = [pending EXCEPT ![i] = result[i] = "NotReady"]
    /\ down' = [down EXCEPT ![i] = result[i] \in Down]

StoresResult ==
    /\ Goto("slave_handler", "master_snapshot")
    /\ Stamps(Slave)
    /\ slave_synchronized' = (result[Slave] = "Synchronized")
    /\ slave_sync_state' = result[Slave]
    /\ UNCHANGED <<instanceVars, loop, running, interrupted, exit>>
HandleSlaveSnapshot ==
    /\ Goto("slave_handler", "master_snapshot")
    /\ Stamps(Slave)
    /\ slave_synchronized' = (result[Slave] = "Synchronized")
    /\ slave_sync_state' =
           IF result[Slave] \in Snapshots THEN result[Slave]
           ELSE IF result[Slave] \in Down THEN "Unsynchronized"
           ELSE slave_sync_state
    /\ UNCHANGED <<instanceVars, loop, running, interrupted, exit>>

\* In the first loop, a synchronized slave ends it before the sleep.
HandleMasterSnapshot ==
    /\ pc = "master_handler"
    /\ Stamps(Master)
    /\ IF loop = "wait" /\ slave_synchronized
       THEN loop' = "monitor" /\ pc' = "head"
       ELSE pc' = "sleep" /\ UNCHANGED loop
    /\ UNCHANGED <<instanceVars, running, interrupted, slave_synchronized,
                   slave_sync_state, exit>>

\* thread::sleep goes on through a signal; its length does not matter here.
Sleep ==
    /\ Goto("sleep", "head")
    /\ UNCHANGED <<instanceVars, loop, running, interrupted, monitor, exit>>

-----------------------------------------------------------------------------
(* Shutdown: stop_instance, which only logs a failure, then the destructors of
   main's locals, the last declared first *)

Shutdown(from, to, Action) ==
    /\ Goto(from, to)
    /\ Action
    /\ exit' = IF to = "exited" THEN "return" ELSE exit
    /\ UNCHANGED <<loop, running, interrupted, monitor>>

StopMaster == Shutdown("stop_master", "stop_slave", Stop(Master))
StopSlave == Shutdown("stop_slave", "drop_slave", Stop(Slave))
ExitsAtOnce == Shutdown("drop_slave", "exited", UNCHANGED instanceVars)
DropSlave == Shutdown("drop_slave", "drop_master", Drop(Slave))
DropMaster == Shutdown("drop_master", "exited", Drop(Master))

-----------------------------------------------------------------------------
(* The environment *)

\* Ctrl+C: before the handler is installed it ends the process, later it clears the
\* flag.  Children are in the same process group and may exit of the same signal.
Interrupt ==
    /\ pc # "exited" /\ ~interrupted
    /\ interrupted' = TRUE
    /\ IF pc \in Starting
       THEN pc' = "exited" /\ exit' = "signal" /\ UNCHANGED running
       ELSE running' = FALSE /\ UNCHANGED <<pc, exit>>
    /\ UNCHANGED <<instanceVars, loop, monitor>>

Ptp4lExits(i) ==
    /\ ChildExits(i)
    /\ UNCHANGED <<pc, loop, running, interrupted, monitor, exit>>

Main ==
    \/ NewMaster \/ NewSlave \/ StartMaster \/ StartSlave \/ SetHandler
    \/ LoopHead \/ SlaveSnapshot \/ HandleSlaveSnapshot
    \/ MasterSnapshot \/ HandleMasterSnapshot \/ Sleep
    \/ StopMaster \/ StopSlave \/ DropSlave \/ DropMaster

Next == Main \/ Interrupt \/ \E i \in Instances : Ptp4lExits(i)

Spec == Init /\ [][Next]_vars

\* The thread is scheduled, and the one call that blocks on another program, the run
\* of pmc, ends: pmc gives up on a ptp4l that does not answer.
FairSpec == Spec /\ WF_vars(Main)

-----------------------------------------------------------------------------
(* Properties *)

\* The monitor says that a process is down only when its ptp4l is really gone, with
\* none left on the socket; it then no longer holds the slave to be synchronized,
\* whatever the earlier and later snapshots say.
DownMeansGone ==
    /\ \A i \in Instances : down[i] => process[i] = NoChild /\ Running(i) = {}
    /\ down[Slave] => slave_sync_state = "Unsynchronized"

\* "no auto-restart configured": a process reported down is never reported reachable
\* again, whatever errors the next snapshots return, so its exit is reported once.
DownIsFinal == [][\A i \in Instances : down[i] => down'[i]]_vars

\* Whenever main returns, both instances have been stopped and dropped: nothing that
\* could be killed is left running and no file is left that could be removed.
ReturnCleansUp ==
    exit = "return" => \A i \in Instances :
        phase[i] = "dropped" /\ Running(i) = {} /\ config[i] # "present"

\* The instances own their processes and clean them up (instance.rs:100, 113): however
\* the program ends by itself, no ptp4l it has started outlives it.
NoOrphan ==
    exit \in {"return", "fatal"} => \A i \in Instances : Running(i) = {}

\* A ptp4l that exits is reported down, unless shutdown comes first: errors of
\* try_wait and a pmc that still answers only delay it.
ExitIsNoticed ==
    \A i \in Instances :
        phase[i] = "live" /\ process[i] # NoChild /\ process[i] \notin alive[i]
            ~> down[i] \/ pc \in Stopping \cup {"exited"}

\* Ctrl+C ends the program, whatever the children do and pmc answers.
InterruptEnds == interrupted ~> pc = "exited"
=============================================================================
