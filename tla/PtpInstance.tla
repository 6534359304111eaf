----------------------------- MODULE PtpInstance -----------------------------
(***************************************************************************)
(* PtpInstance (src/ptp_proto/instance.rs): the owner of one ptp4l process *)
(* and of its temporary configuration file.  Clients create, start, query, *)
(* stop and drop instances in any order; &mut self makes the calls on one  *)
(* instance sequential, calls on different instances interleave.           *)
(*                                                                         *)
(* ptp4l may exit at any time, also inside a snapshot: between the check   *)
(* that it runs, the run of pmc, and the second check after a pmc failure. *)
(*                                                                         *)
(* The children of an instance are numbered in the order they are spawned. *)
(***************************************************************************)
EXTENDS Naturals

CONSTANTS
    Instances,    \* names, unique in the process: they name the files and sockets
    StartsTwice,  \* clients may start an instance that already tracks a child
    MaxSpawns,    \* bound: children of one instance
    MaxFaults     \* bound: try_wait calls that fail, for each instance

ASSUME InstanceAssumption ==
    StartsTwice \in BOOLEAN /\ MaxSpawns \in Nat /\ MaxFaults \in Nat

VARIABLES
    phase,     \* the value: not yet created, live, dropped
    config,    \* its file: none, present, or stuck: its removal failed
    process,   \* the child it tracks; NoChild: process = None
    spawned,   \* the children it has spawned
    alive,     \* of these, the ones that run
    unkilled,  \* history: the children kill() has failed on
    query,     \* where a snapshot in progress stands
    result,    \* what its latest call returned
    faults     \* try_wait calls that have failed

instanceVars ==
    <<phase, config, process, spawned, alive, unkilled, query, result, faults>>

NoChild == 0

\* A snapshot waits for pmc, or is about to check the process a second time and
\* to return the error in question.
Blames == {"CommandFailed", "NotReady"}
Queries == {"idle", "pmc"} \cup Blames

\* The results of snapshot(), and Done and Failed for those of the other calls.
\* Unusable stands for InvalidUtf8 and the Parse errors other than MissingDataset.
Snapshots == {"Synchronized", "Unsynchronized"}
Results == Snapshots \cup Blames \cup
    {"Done", "Failed", "ProcessNotRunning", "ProcessExited", "Io", "Unusable"}

InstanceTypeOK ==
    /\ phase \in [Instances -> {"absent", "live", "dropped"}]
    /\ config \in [Instances -> {"none", "present", "stuck"}]
    /\ spawned \in [Instances -> Nat]
    /\ process \in [Instances -> Nat]
    /\ alive \in [Instances -> SUBSET Nat]
    /\ unkilled \in [Instances -> SUBSET Nat]
    /\ query \in [Instances -> Queries]
    /\ result \in [Instances -> Results]
    /\ faults \in [Instances -> Nat]
    /\ \A i \in Instances :
           process[i] <= spawned[i] /\ alive[i] \subseteq 1..spawned[i]

InstanceInit ==
    /\ phase = [i \in Instances |-> "absent"]
    /\ config = [i \in Instances |-> "none"]
    /\ process = [i \in Instances |-> NoChild]
    /\ spawned = [i \in Instances |-> 0]
    /\ alive = [i \in Instances |-> {}]
    /\ unkilled = [i \in Instances |-> {}]
    /\ query = [i \in Instances |-> "idle"]
    /\ result = [i \in Instances |-> "Done"]
    /\ faults = [i \in Instances |-> 0]

Returns(i, r) == result' = [result EXCEPT ![i] = r]
Idle(i) == phase[i] = "live" /\ query[i] = "idle"

-----------------------------------------------------------------------------
(* new, start *)

New(i) ==
    /\ phase[i] = "absent"
    /\ phase' = [phase EXCEPT ![i] = "live"]
    /\ config' = [config EXCEPT ![i] = "present"]
    /\ Returns(i, "Done")
    /\ UNCHANGED <<process, spawned, alive, unkilled, query, faults>>

\* create_config fails; when it fails in writeln!, the file it has created stays.
NewFails(i) ==
    /\ phase[i] = "absent"
    /\ \E created \in {config[i], "present"} : config' = [config EXCEPT ![i] = created]
    /\ Returns(i, "Failed")
    /\ UNCHANGED <<phase, process, spawned, alive, unkilled, query, faults>>

\* The new handle replaces the one that is there: start only warns.  Dropping a
\* process::Child leaves the process running.
Start(i) ==
    /\ Idle(i)
    /\ StartsTwice \/ process[i] = NoChild
    /\ spawned[i] < MaxSpawns
    /\ spawned' = [spawned EXCEPT ![i] = @ + 1]
    /\ process' = [process EXCEPT ![i] = spawned[i] + 1]
    /\ alive' = [alive EXCEPT ![i] = @ \cup {spawned[i] + 1}]
    /\ Returns(i, "Done")
    /\ UNCHANGED <<phase, config, unkilled, query, faults>>

LeavesChild(i) ==
    /\ Idle(i)
    /\ spawned[i] < MaxSpawns
    /\ alive' = [alive EXCEPT ![i] = @ \cup {spawned[i] + 1}]
    /\ Returns(i, "Failed")
    /\ UNCHANGED <<phase, config, process, spawned, unkilled, query, faults>>
\* Nothing was spawned, or a log thread could not be: the child, which was never
\* tracked, is killed and waited for before the error is returned.  What the two calls
\* return is ignored: a child that could not be killed is left running.
StartFails(i) ==
    /\ Idle(i)
    /\ StartsTwice \/ process[i] = NoChild
    /\ \/ UNCHANGED <<spawned, alive, unkilled>>
       \/ /\ spawned[i] < MaxSpawns
          /\ spawned' = [spawned EXCEPT ![i] = @ + 1]
          /\ alive' = [alive EXCEPT ![i] = @ \cup {spawned[i] + 1}]
          /\ unkilled' = [unkilled EXCEPT ![i] = @ \cup {spawned[i] + 1}]
    /\ Returns(i, "Failed")
    /\ UNCHANGED <<phase, config, process, query, faults>>

-----------------------------------------------------------------------------
(* stop, drop *)

\* The handle is taken first; kill() then succeeds, on a child that has already
\* exited too, and the child is reaped, or it fails on a child that runs, and
\* the handle is gone all the same.
Kills(i) ==
    /\ process' = [process EXCEPT ![i] = NoChild]
    /\ alive' = [alive EXCEPT ![i] = @ \ {process[i]}]
    /\ UNCHANGED unkilled
KillFails(i) ==
    /\ process[i] \in alive[i]
    /\ process' = [process EXCEPT ![i] = NoChild]
    /\ unkilled' = [unkilled EXCEPT ![i] = @ \cup {process[i]}]
    /\ UNCHANGED alive

Stop(i) ==
    /\ Idle(i)
    /\ \/ Kills(i) /\ Returns(i, "Done")
       \/ KillFails(i) /\ Returns(i, "Failed")
    /\ UNCHANGED <<phase, config, spawned, query, faults>>

DropsHandle(i) ==
    /\ Idle(i)
    /\ process' = [process EXCEPT ![i] = NoChild]
    /\ config' = [config EXCEPT ![i] = "none"]
    /\ phase' = [phase EXCEPT ![i] = "dropped"]
    /\ UNCHANGED <<spawned, alive, unkilled, query, result, faults>>
Drop(i) ==
    /\ Idle(i)
    /\ Kills(i) \/ KillFails(i)
    /\ \E left \in {"none", "stuck"} : config' = [config EXCEPT ![i] = left]
    /\ phase' = [phase EXCEPT ![i] = "dropped"]
    /\ UNCHANGED <<spawned, query, result, faults>>

-----------------------------------------------------------------------------
(* snapshot *)

\* ensure_process_running: an error ends the snapshot; Ok(()) moves it to next with
\* the result r.
Fails(i, error) == query' = [query EXCEPT ![i] = "idle"] /\ Returns(i, error)

NotRunning(i) ==
    /\ process[i] = NoChild
    /\ Fails(i, "ProcessNotRunning")
    /\ UNCHANGED <<process, faults>>

Exited(i) ==
    /\ process[i] # NoChild /\ process[i] \notin alive[i]
    /\ process' = [process EXCEPT ![i] = NoChild]
    /\ Fails(i, "ProcessExited")
    /\ UNCHANGED faults

ForgetsOnFault(i) ==
    /\ process[i] # NoChild /\ faults[i] < MaxFaults
    /\ process' = [process EXCEPT ![i] = NoChild]
    /\ faults' = [faults EXCEPT ![i] = @ + 1]
    /\ Fails(i, "Io")
TryWaitFails(i) ==
    /\ process[i] # NoChild /\ faults[i] < MaxFaults
    /\ faults' = [faults EXCEPT ![i] = @ + 1]
    /\ Fails(i, "Io")
    /\ UNCHANGED process

EnsureRunning(i, next, r) ==
    \/ NotRunning(i)
    \/ Exited(i)
    \/ TryWaitFails(i)
    \/ /\ process[i] \in alive[i]
       /\ query' = [query EXCEPT ![i] = next]
       /\ Returns(i, r)
       /\ UNCHANGED <<process, faults>>

\* The first check; result is Done until the call returns.
SkipsCheck(i) ==
    /\ Idle(i) /\ process[i] # NoChild
    /\ query' = [query EXCEPT ![i] = "pmc"]
    /\ Returns(i, "Done")
    /\ UNCHANGED <<phase, config, process, spawned, alive, unkilled, faults>>
Snapshot(i) ==
    /\ Idle(i)
    /\ EnsureRunning(i, "pmc", "Done")
    /\ UNCHANGED <<phase, config, spawned, alive, unkilled>>

\* pmc has printed the answer of the child that served the socket, which may have
\* exited since.
PmcAnswers(i) ==
    /\ query[i] = "pmc"
    /\ \E r \in Snapshots \cup {"Io", "Unusable"} : Returns(i, r)
    /\ query' = [query EXCEPT ![i] = "idle"]
    /\ UNCHANGED <<phase, config, process, spawned, alive, unkilled, faults>>

\* pmc exits with a status other than zero, or a data set is missing in its output.
PmcFails(i) ==
    /\ query[i] = "pmc"
    /\ \E blame \in Blames : query' = [query EXCEPT ![i] = blame]
    /\ UNCHANGED <<phase, config, process, spawned, alive, unkilled, result, faults>>

\* The second check.
BlamesUnchecked(i) ==
    /\ query[i] \in Blames
    /\ Fails(i, query[i])
    /\ UNCHANGED <<phase, config, process, spawned, alive, unkilled, faults>>
Recheck(i) ==
    /\ query[i] \in Blames
    /\ EnsureRunning(i, "idle", query[i])
    /\ UNCHANGED <<phase, config, spawned, alive, unkilled>>

-----------------------------------------------------------------------------

ChildExits(i) ==
    /\ \E c \in alive[i] : alive' = [alive EXCEPT ![i] = @ \ {c}]
    /\ UNCHANGED <<phase, config, process, spawned, unkilled, query, result, faults>>

Call(i) ==
    \/ New(i) \/ NewFails(i) \/ Start(i) \/ StartFails(i) \/ Stop(i) \/ Drop(i)
    \/ Snapshot(i) \/ PmcAnswers(i) \/ PmcFails(i) \/ Recheck(i)

InstanceNext == \E i \in Instances : Call(i) \/ ChildExits(i)

InstanceSpec == InstanceInit /\ [][InstanceNext]_instanceVars

-----------------------------------------------------------------------------
(* Properties *)

Running(i) == alive[i] \ unkilled[i]

\* "Explicit ownership and cleanup of runtime resources" (instance.rs:100): the only
\* child of an instance that runs is the one it tracks, whatever its clients call,
\* so there is never a ptp4l that neither stop nor drop will reach.  A child that
\* kill() has failed on is excepted.
Tracked == \A i \in Instances : Running(i) \subseteq {process[i]}

\* "Resources are automatically cleaned up when the instance is dropped"
\* (instance.rs:113): no child and no file is left, except where the system has
\* refused to kill the one or to remove the other.
DropCleansUp ==
    \A i \in Instances : phase[i] = "dropped" =>
        Running(i) = {} /\ config[i] # "present"

\* What a snapshot says of the process is true when it says it, although ptp4l may
\* exit between the two checks: "not ready" and "command failed" are said of a
\* process that runs, "exited" of one that does not and never again before the next
\* start, "not running" when no child runs.
SnapshotReturns(i) == (Snapshot(i) \/ PmcAnswers(i) \/ Recheck(i)) /\ query'[i] = "idle"
VerdictIsTrue ==
    [][\A i \in Instances : SnapshotReturns(i) =>
         /\ result'[i] \in Blames => process'[i] \in alive[i]
         /\ result'[i] = "ProcessExited" =>
                process[i] \notin alive[i] /\ process'[i] = NoChild
         /\ result'[i] = "ProcessNotRunning" => Running(i) = {}]_instanceVars
=============================================================================
