--------------------------- MODULE PtpSyncdProofs ----------------------------
(***************************************************************************)
(* ptp-syncd uses its instances as PtpInstance allows, reports an exit     *)
(* once and truthfully, and leaves nothing behind when it returns, for     *)
(* every number of failures and whenever ptp4l exits or Ctrl+C arrives.    *)
(*                                                                         *)
(* What a handler learns from a snapshot holds until it runs because the   *)
(* only thread is the one that could start ptp4l again: down is final      *)
(* since in the loops no process is tracked that was not tracked before.   *)
(***************************************************************************)
EXTENDS PtpSyncd, PtpInstanceProofs

\* An instance that waits for pmc tracks the process it has seen.
QueryTracked == \A i \in Instances : query[i] # "idle" => process[i] # NoChild

\* At its handler, a snapshot's result says whether a process is tracked.
HandlerKnows ==
    /\ pc = "slave_handler" => (result[Slave] \in Down <=> process[Slave] = NoChild)
    /\ pc = "master_handler" => (result[Master] \in Down <=> process[Master] = NoChild)

\* A process is reported down after startup, when it is no longer tracked.
DownKnown ==
    /\ down \in [Instances -> BOOLEAN]
    /\ \A i \in Instances : down[i] => process[i] = NoChild /\ pc \notin Starting
    /\ down[Slave] => slave_sync_state = "Unsynchronized"

\* The destructors have run when main returns.
Destroyed ==
    /\ exit # "none" => pc = "exited"
    /\ pc = "drop_master" => phase[Slave] = "dropped"
    /\ exit = "return" => phase[Slave] = "dropped" /\ phase[Master] = "dropped"

SyncdInv == IInv /\ QueryTracked /\ HandlerKnows /\ DownKnown /\ Destroyed

-----------------------------------------------------------------------------
(* The steps in terms of the instances *)

\* The calls that ptp-syncd makes when.
LEMMA Steps ==
    ASSUME Next
    PROVE  [InstanceNext]_instanceVars
<1>1. Master \in Instances /\ Slave \in Instances
  BY SyncdAssumption
<1>2. ASSUME Main PROVE [InstanceNext]_instanceVars
  <2>1. CASE NewMaster \/ NewSlave \/ StartMaster \/ StartSlave \/ SetHandler
    BY <1>1, <2>1 DEF NewMaster, NewSlave, StartMaster, StartSlave, SetHandler, Startup,
                      InstanceNext, Call
  <2>2. CASE SlaveSnapshot \/ MasterSnapshot
    BY <1>1, <2>2 DEF SlaveSnapshot, MasterSnapshot, SnapshotStep, InstanceNext, Call
  <2>3. CASE LoopHead \/ HandleSlaveSnapshot \/ HandleMasterSnapshot \/ Sleep
    BY <2>3 DEF LoopHead, HandleSlaveSnapshot, HandleMasterSnapshot, Sleep
  <2>4. CASE StopMaster \/ StopSlave \/ DropSlave \/ DropMaster
    BY <1>1, <2>4 DEF StopMaster, StopSlave, DropSlave, DropMaster, Shutdown,
                      InstanceNext, Call
  <2>5. QED
    BY <1>2, <2>1, <2>2, <2>3, <2>4 DEF Main
<1>3. CASE Interrupt
  BY <1>3 DEF Interrupt
<1>4. CASE \E i \in Instances : Ptp4lExits(i)
  BY <1>4 DEF Ptp4lExits, InstanceNext
<1>5. QED
  BY <1>2, <1>3, <1>4 DEF Next

\* ptp-syncd's use of its two instances is a behaviour of theirs.
THEOREM UsesInstances == Spec => InstanceSpec
<1>1. Init => InstanceInit
  BY DEF Init
<1>2. [Next]_vars => [InstanceNext]_instanceVars
  BY Steps DEF vars
<1>3. QED
  BY <1>1, <1>2, PTL DEF Spec, InstanceSpec

-----------------------------------------------------------------------------
(* The invariant *)

\* Every call keeps a process that pmc is asked about, and a dropped instance dropped;
\* a process is tracked anew by start only.
LEMMA CallKeeps ==
    ASSUME IInv, QueryTracked, [InstanceNext]_instanceVars, NEW i \in Instances
    PROVE  /\ query'[i] # "idle" => process'[i] # NoChild
           /\ phase[i] = "dropped" => phase'[i] = "dropped"
<1>1. CASE UNCHANGED instanceVars
  BY <1>1 DEF instanceVars, QueryTracked
<1>2. CASE \E j \in Instances : ChildExits(j)
  BY <1>2 DEF ChildExits, QueryTracked
<1>3. ASSUME NEW j \in Instances, Call(j)
      PROVE  /\ query'[i] # "idle" => process'[i] # NoChild
             /\ phase[i] = "dropped" => phase'[i] = "dropped"
  <2>1. /\ phase \in [Instances -> {"absent", "live", "dropped"}]
        /\ query \in [Instances -> Queries] /\ process \in [Instances -> Nat]
        /\ spawned \in [Instances -> Nat] /\ alive[j] \subseteq 1..spawned[j]
    BY DEF IInv, InstanceTypeOK
  <2>2. CASE New(j) \/ NewFails(j)
    BY <2>1, <2>2 DEF New, NewFails, QueryTracked
  <2>3. CASE Start(j) \/ StartFails(j)
    BY <2>1, <2>3 DEF Start, StartFails, Idle, QueryTracked, NoChild
  <2>4. CASE Stop(j) \/ Drop(j)
    BY <2>1, <2>4 DEF Stop, Drop, Kills, KillFails, Idle, QueryTracked
  <2>5. CASE Snapshot(j) \/ Recheck(j)
    <3>1. NoChild \notin alive[j]
      BY <2>1 DEF NoChild
    <3>2. QED
      BY <2>1, <2>5, <3>1 DEF Snapshot, Recheck, EnsureRunning, NotRunning, Exited,
                              TryWaitFails, Fails, QueryTracked
  <2>6. CASE PmcAnswers(j) \/ PmcFails(j)
    BY <2>1, <2>6 DEF PmcAnswers, PmcFails, QueryTracked
  <2>7. QED
    BY <1>3, <2>2, <2>3, <2>4, <2>5, <2>6 DEF Call
<1>4. QED
  BY <1>1, <1>2, <1>3 DEF InstanceNext

\* A snapshot that has returned says whether its process is tracked; it tracks no
\* process anew, and does not touch the other instance.
LEMMA SnapshotKnows ==
    ASSUME IInv, QueryTracked, NEW i \in Instances,
           Snapshot(i) \/ PmcAnswers(i) \/ PmcFails(i) \/ Recheck(i)
    PROVE  /\ query'[i] = "idle" => (result'[i] \in Down <=> process'[i] = NoChild)
           /\ \A j \in Instances : process[j] = NoChild => process'[j] = NoChild
           /\ UNCHANGED phase
<1>1. /\ query \in [Instances -> Queries] /\ process \in [Instances -> Nat]
      /\ result \in [Instances -> Results] /\ NoChild \notin alive[i]
  BY DEF IInv, InstanceTypeOK, NoChild
<1>2. CASE Snapshot(i)
  BY <1>1, <1>2 DEF Snapshot, EnsureRunning, NotRunning, Exited, TryWaitFails, Fails,
                    Returns, Down, Results
<1>3. CASE Recheck(i)
  BY <1>1, <1>3 DEF Recheck, EnsureRunning, NotRunning, Exited, TryWaitFails, Fails,
                    Returns, Down, Results, Blames
<1>4. CASE PmcAnswers(i)
  <2>1. process[i] # NoChild
    BY <1>4 DEF PmcAnswers, QueryTracked
  <2>2. QED
    BY <1>1, <1>4, <2>1 DEF PmcAnswers, Returns, Down, Snapshots
<1>5. CASE PmcFails(i)
  BY <1>1, <1>5 DEF PmcFails, Blames
<1>6. QED
  BY <1>2, <1>3, <1>4, <1>5

LEMMA SyncdInit == Init => SyncdInv
<1> SUFFICES ASSUME Init PROVE SyncdInv
  OBVIOUS
<1>1. IInv
  BY InitInv DEF Init
<1>2. QueryTracked
  BY DEF Init, InstanceInit, QueryTracked
<1>3. DownKnown
  BY SyncdAssumption DEF Init, DownKnown
<1>4. HandlerKnows /\ Destroyed
  BY DEF Init, HandlerKnows, Destroyed
<1>5. QED
  BY <1>1, <1>2, <1>3, <1>4 DEF SyncdInv

\* In the order of main: startup, ...
LEMMA StartupPreserves ==
    ASSUME SyncdInv, NewMaster \/ NewSlave \/ StartMaster \/ StartSlave \/ SetHandler
    PROVE  HandlerKnows' /\ DownKnown' /\ Destroyed'
<1>1. /\ pc \in Starting /\ pc' \in Starting \cup {"head", "exited"}
      /\ UNCHANGED monitor
      /\ exit' = exit \/ (exit' = "fatal" /\ pc' = "exited")
  BY DEF NewMaster, NewSlave, StartMaster, StartSlave, SetHandler, Startup, Starting
<1>2. \A i \in Instances : ~down[i]
  BY <1>1 DEF SyncdInv, DownKnown
<1>3. exit = "none"
  BY <1>1 DEF SyncdInv, Destroyed, Starting
<1>4. HandlerKnows'
  BY <1>1 DEF HandlerKnows, Starting
<1>5. DownKnown'
  BY <1>1, <1>2, SyncdAssumption DEF monitor, SyncdInv, DownKnown
<1>6. Destroyed'
  BY <1>1, <1>3 DEF Destroyed, Starting
<1>7. QED
  BY <1>4, <1>5, <1>6

\* ... the snapshots of the loops, ...
LEMMA SnapshotPreserves ==
    ASSUME SyncdInv, SlaveSnapshot \/ MasterSnapshot
    PROVE  HandlerKnows' /\ DownKnown' /\ Destroyed'
<1>1. Master \in Instances /\ Slave \in Instances /\ Master # Slave
  BY SyncdAssumption
<1>2. PICK i \in Instances :
          /\ Snapshot(i) \/ PmcAnswers(i) \/ PmcFails(i) \/ Recheck(i)
          /\ \/ i = Slave /\ pc = "slave_snapshot" /\ pc' \in {"slave_handler", "slave_snapshot"}
             \/ i = Master /\ pc = "master_snapshot"
                /\ pc' \in {"master_handler", "master_snapshot"}
          /\ pc' \in {"slave_handler", "master_handler"} => query'[i] = "idle"
          /\ UNCHANGED <<monitor, exit>>
  BY <1>1 DEF SlaveSnapshot, MasterSnapshot, SnapshotStep
<1>3. /\ query'[i] = "idle" => (result'[i] \in Down <=> process'[i] = NoChild)
      /\ \A j \in Instances : process[j] = NoChild => process'[j] = NoChild
      /\ UNCHANGED phase
  BY <1>2, SnapshotKnows DEF SyncdInv
<1>4. HandlerKnows'
  BY <1>1, <1>2, <1>3 DEF HandlerKnows
<1>5. DownKnown'
  BY <1>2, <1>3 DEF monitor, SyncdInv, DownKnown, Starting
<1>6. Destroyed'
  BY <1>2, <1>3 DEF SyncdInv, Destroyed
<1>7. QED
  BY <1>4, <1>5, <1>6

\* ... their handlers, the head of the loop and the sleep, ...
LEMMA LoopPreserves ==
    ASSUME SyncdInv, LoopHead \/ HandleSlaveSnapshot \/ HandleMasterSnapshot \/ Sleep
    PROVE  HandlerKnows' /\ DownKnown' /\ Destroyed'
<1>1. /\ UNCHANGED <<process, phase, exit>>
      /\ pc \in Iterating /\ pc' \in {"slave_snapshot", "stop_master", "master_snapshot",
                                      "head", "sleep"}
  BY DEF LoopHead, HandleSlaveSnapshot, HandleMasterSnapshot, Sleep, Goto, instanceVars,
         Iterating
<1>2. HandlerKnows'
  BY <1>1 DEF HandlerKnows
<1>3. Destroyed'
  BY <1>1 DEF SyncdInv, Destroyed, Iterating
<1>4. DownKnown'
  <2>1. CASE LoopHead \/ Sleep
    BY <1>1, <2>1 DEF LoopHead, Sleep, Goto, monitor, SyncdInv, DownKnown, Starting
  <2>2. CASE HandleSlaveSnapshot
    <3>1. /\ down' = [down EXCEPT ![Slave] = result[Slave] \in Down]
          /\ result[Slave] \in Down <=> process[Slave] = NoChild
          /\ result[Slave] \in Down => slave_sync_state' = "Unsynchronized"
      BY <2>2 DEF HandleSlaveSnapshot, Goto, Stamps, SyncdInv, HandlerKnows, Down, Snapshots
    <3>2. QED
      BY <1>1, <3>1, SyncdAssumption DEF SyncdInv, DownKnown, Starting
  <2>3. CASE HandleMasterSnapshot
    <3>1. /\ down' = [down EXCEPT ![Master] = result[Master] \in Down]
          /\ result[Master] \in Down <=> process[Master] = NoChild
          /\ UNCHANGED slave_sync_state
      BY <2>3 DEF HandleMasterSnapshot, Stamps, SyncdInv, HandlerKnows
    <3>2. QED
      BY <1>1, <3>1, SyncdAssumption DEF SyncdInv, DownKnown, Starting
  <2>4. QED
    BY <2>1, <2>2, <2>3
<1>5. QED
  BY <1>2, <1>3, <1>4

\* ... and shutdown.
LEMMA ShutdownPreserves ==
    ASSUME SyncdInv, StopMaster \/ StopSlave \/ DropSlave \/ DropMaster
    PROVE  HandlerKnows' /\ DownKnown' /\ Destroyed'
<1>1. Master \in Instances /\ Slave \in Instances /\ Master # Slave
  BY SyncdAssumption
<1>2. /\ process \in [Instances -> Nat]
      /\ phase \in [Instances -> {"absent", "live", "dropped"}]
  BY DEF SyncdInv, IInv, InstanceTypeOK
<1>3. /\ pc \in Stopping /\ pc' \in {"stop_slave", "drop_slave", "drop_master", "exited"}
      /\ UNCHANGED monitor
      /\ \E i \in Instances : process' = [process EXCEPT ![i] = NoChild]
  BY <1>1 DEF StopMaster, StopSlave, DropSlave, DropMaster, Shutdown, Goto, Stop, Drop,
              Kills, KillFails, Stopping
<1>4. HandlerKnows'
  BY <1>3 DEF HandlerKnows
<1>5. DownKnown'
  BY <1>1, <1>2, <1>3 DEF monitor, SyncdInv, DownKnown, Starting
<1>6. Destroyed'
  <2>1. exit = "none"
    BY <1>3 DEF SyncdInv, Destroyed, Stopping
  <2>2. CASE StopMaster \/ StopSlave
    BY <2>1, <2>2 DEF StopMaster, StopSlave, Shutdown, Goto, Destroyed
  <2>3. CASE DropSlave
    BY <1>1, <1>2, <2>1, <2>3 DEF DropSlave, Shutdown, Goto, Drop, Destroyed
  <2>4. CASE DropMaster
    <3>1. phase[Slave] = "dropped"
      BY <2>4 DEF DropMaster, Shutdown, Goto, SyncdInv, Destroyed
    <3>2. QED
      BY <1>1, <1>2, <2>1, <2>4, <3>1 DEF DropMaster, Shutdown, Goto, Drop, Destroyed
  <2>5. QED
    BY <2>2, <2>3, <2>4
<1>7. QED
  BY <1>4, <1>5, <1>6

LEMMA EnvironmentPreserves ==
    ASSUME SyncdInv, Interrupt \/ \E i \in Instances : Ptp4lExits(i)
    PROVE  HandlerKnows' /\ DownKnown' /\ Destroyed'
<1>1. CASE Interrupt
  <2>1. exit = "none"
    BY <1>1 DEF Interrupt, SyncdInv, Destroyed
  <2>2. /\ UNCHANGED <<instanceVars, monitor>>
        /\ \/ pc' = "exited" /\ exit' = "signal"
           \/ UNCHANGED <<pc, exit>>
    BY <1>1 DEF Interrupt
  <2>3. HandlerKnows'
    BY <2>2 DEF instanceVars, SyncdInv, HandlerKnows
  <2>4. DownKnown'
    BY <2>2 DEF instanceVars, monitor, SyncdInv, DownKnown, Starting
  <2>5. Destroyed'
    BY <2>1, <2>2 DEF instanceVars, SyncdInv, Destroyed
  <2>6. QED
    BY <2>3, <2>4, <2>5
<1>2. CASE \E i \in Instances : Ptp4lExits(i)
  BY <1>2 DEF Ptp4lExits, ChildExits, monitor, SyncdInv, HandlerKnows, DownKnown, Destroyed
<1>3. QED
  BY <1>1, <1>2

LEMMA SyncdStep ==
    ASSUME ~StartsTwice, SyncdInv, [Next]_vars
    PROVE  SyncdInv'
<1>1. [InstanceNext]_instanceVars
  BY Steps DEF vars
<1>2. IInv'
  BY <1>1, NextPreserves DEF SyncdInv
<1>3. QueryTracked'
  BY <1>1, CallKeeps DEF SyncdInv, QueryTracked
<1>4. HandlerKnows' /\ DownKnown' /\ Destroyed'
  <2>1. CASE UNCHANGED vars
    BY <2>1 DEF vars, instanceVars, monitor, SyncdInv, HandlerKnows, DownKnown, Destroyed
  <2>2. CASE Main
    BY <2>2, StartupPreserves, SnapshotPreserves, LoopPreserves, ShutdownPreserves DEF Main
  <2>3. CASE Interrupt \/ \E i \in Instances : Ptp4lExits(i)
    BY <2>3, EnvironmentPreserves
  <2>4. QED
    BY <2>1, <2>2, <2>3 DEF Next
<1>5. QED
  BY <1>2, <1>3, <1>4 DEF SyncdInv

-----------------------------------------------------------------------------
(* The theorems *)

\* The invariant holds in every behaviour of ptp-syncd, which never starts an
\* instance twice.
THEOREM SyncdInvariance == ~StartsTwice => (Spec => []SyncdInv)
<1>1. SUFFICES ASSUME ~StartsTwice PROVE Spec => []SyncdInv
  OBVIOUS
<1>2. Init => SyncdInv
  BY SyncdInit
<1>3. SyncdInv /\ [Next]_vars => SyncdInv'
  BY <1>1, SyncdStep
<1>4. QED
  BY <1>2, <1>3, PTL DEF Spec

\* The types of the program's own variables: where it is, its flags, what it remembers.
ControlTypes ==
    /\ pc \in Starting \cup Iterating \cup Stopping \cup {"exited"}
    /\ exit \in {"none", "return", "fatal", "signal"}
FlagTypes ==
    /\ loop \in {"wait", "monitor"}
    /\ running \in BOOLEAN /\ interrupted \in BOOLEAN
MonitorTypes ==
    /\ slave_synchronized \in BOOLEAN
    /\ slave_sync_state \in {"Unknown", "Unsynchronized", "Synchronized"}
    /\ pending \in [Instances -> BOOLEAN]
    /\ down \in [Instances -> BOOLEAN]

LEMMA ControlStep == ControlTypes /\ [Next]_vars => ControlTypes'
  BY DEF ControlTypes, Next, Main, vars, NewMaster, NewSlave, StartMaster, StartSlave, SetHandler,
         Startup, LoopHead, SlaveSnapshot, MasterSnapshot, SnapshotStep, HandleSlaveSnapshot,
         HandleMasterSnapshot, Sleep, Goto, StopMaster, StopSlave, DropSlave, DropMaster,
         Shutdown, Interrupt, Ptp4lExits,
         Starting, Iterating, Stopping

LEMMA FlagStep == FlagTypes /\ [Next]_vars => FlagTypes'
  BY DEF FlagTypes, Next, Main, vars, NewMaster, NewSlave, StartMaster, StartSlave, SetHandler,
         Startup, LoopHead, SlaveSnapshot, MasterSnapshot, SnapshotStep, HandleSlaveSnapshot,
         HandleMasterSnapshot, Sleep, Goto, StopMaster, StopSlave, DropSlave, DropMaster,
         Shutdown, Interrupt, Ptp4lExits

LEMMA StampTypes ==
    ASSUME MonitorTypes, NEW i \in Instances, Stamps(i)
    PROVE  pending' \in [Instances -> BOOLEAN] /\ down' \in [Instances -> BOOLEAN]
<1>1. ASSUME NEW f \in [Instances -> BOOLEAN], NEW b \in BOOLEAN
      PROVE  [f EXCEPT ![i] = b] \in [Instances -> BOOLEAN]
  OBVIOUS
<1>2. (result[i] = "NotReady") \in BOOLEAN /\ (result[i] \in Down) \in BOOLEAN
  OBVIOUS
<1>3. /\ pending' = [pending EXCEPT ![i] = result[i] = "NotReady"]
      /\ down' = [down EXCEPT ![i] = result[i] \in Down]
  BY DEF Stamps
<1>4. QED
  BY <1>1, <1>2, <1>3, Zenon DEF MonitorTypes

\* The tables of the monitor keep their types because each handler stores what it has
\* computed from a result.
LEMMA MonitorStep == MonitorTypes /\ [Next]_vars => MonitorTypes'
<1> SUFFICES ASSUME MonitorTypes, [Next]_vars PROVE MonitorTypes'
  OBVIOUS
<1>1. CASE HandleSlaveSnapshot
  <2>1. (result[Slave] = "Synchronized") \in BOOLEAN
    OBVIOUS
  <2>2. slave_sync_state' \in {"Unknown", "Unsynchronized", "Synchronized"}
    BY <1>1 DEF MonitorTypes, HandleSlaveSnapshot, Snapshots
  <2>3. QED
    BY <1>1, <2>1, <2>2, StampTypes, SyncdAssumption DEF MonitorTypes, HandleSlaveSnapshot
<1>2. CASE HandleMasterSnapshot
  BY <1>2, StampTypes, SyncdAssumption DEF MonitorTypes, HandleMasterSnapshot
<1>3. CASE ~HandleSlaveSnapshot /\ ~HandleMasterSnapshot
  <2>1. UNCHANGED monitor
    BY <1>3 DEF Next, Main, vars, monitor, NewMaster, NewSlave, StartMaster, StartSlave, SetHandler,
         Startup, LoopHead, SlaveSnapshot, MasterSnapshot, SnapshotStep,
         Sleep, Goto, StopMaster, StopSlave, DropSlave, DropMaster,
         Shutdown, Interrupt, Ptp4lExits
  <2>2. QED
    BY <2>1 DEF MonitorTypes, monitor
<1>4. QED
  BY <1>1, <1>2, <1>3

\* Every variable keeps its type, those of the instances because ptp-syncd uses them as
\* PtpInstance allows.
THEOREM SyncdTypeCorrect == ~StartsTwice => (Spec => []TypeOK)
<1>1. SUFFICES ASSUME ~StartsTwice PROVE Spec => []TypeOK
  OBVIOUS
<1>2. Init => ControlTypes /\ FlagTypes /\ MonitorTypes
  BY DEF Init, Starting, ControlTypes, FlagTypes, MonitorTypes
<1>3. Spec => [](ControlTypes /\ FlagTypes /\ MonitorTypes)
  BY <1>2, ControlStep, FlagStep, MonitorStep, PTL DEF Spec
<1>4. InstanceSpec => []InstanceTypeOK
  BY <1>1, TypeCorrect
<1>5. InstanceTypeOK /\ ControlTypes /\ FlagTypes /\ MonitorTypes => TypeOK
  BY DEF TypeOK, ControlTypes, FlagTypes, MonitorTypes
<1>6. QED
  BY <1>3, <1>4, <1>5, UsesInstances, PTL

\* A process is reported down only when none is left on the socket.
THEOREM DownSound == ~StartsTwice => (Spec => []DownMeansGone)
<1>1. ASSUME SyncdInv PROVE DownMeansGone
  <2>1. ASSUME NEW i \in Instances, process[i] = NoChild PROVE Running(i) = {}
    <3>1. Running(i) \subseteq {NoChild} /\ NoChild \notin alive[i]
      BY <1>1, <2>1 DEF SyncdInv, IInv, Tracked, InstanceTypeOK, NoChild
    <3>2. QED
      BY <3>1 DEF Running
  <2>2. QED
    BY <1>1, <2>1 DEF SyncdInv, DownKnown, DownMeansGone
<1>2. QED
  BY <1>1, SyncdInvariance, PTL

\* An exit is reported once: what is down stays down.
THEOREM DownForGood == ~StartsTwice => (Spec => DownIsFinal)
<1>1. SUFFICES ASSUME ~StartsTwice PROVE Spec => DownIsFinal
  OBVIOUS
<1>2. ASSUME SyncdInv, [Next]_vars, NEW i \in Instances, down[i] PROVE down'[i]
  <2>1. process[i] = NoChild /\ down \in [Instances -> BOOLEAN]
    BY <1>2 DEF SyncdInv, DownKnown
  <2>2. CASE HandleSlaveSnapshot
    BY <1>2, <2>1, <2>2 DEF HandleSlaveSnapshot, Goto, Stamps, SyncdInv, HandlerKnows
  <2>3. CASE HandleMasterSnapshot
    BY <1>2, <2>1, <2>3 DEF HandleMasterSnapshot, Stamps, SyncdInv, HandlerKnows
  <2>4. CASE ~HandleSlaveSnapshot /\ ~HandleMasterSnapshot
    <3>1. UNCHANGED down
      BY <1>2, <2>4 DEF Next, Main, vars, monitor, NewMaster, NewSlave, StartMaster, StartSlave,
             SetHandler, Startup, LoopHead, SlaveSnapshot, MasterSnapshot, SnapshotStep, Sleep,
             Goto, StopMaster, StopSlave, DropSlave, DropMaster, Shutdown, Interrupt, Ptp4lExits
    <3>2. QED
      BY <1>2, <3>1
  <2>5. QED
    BY <2>2, <2>3, <2>4
<1>3. SyncdInv /\ [Next]_vars => [\A i \in Instances : down[i] => down'[i]]_vars
  BY <1>2
<1>4. Spec => []SyncdInv
  BY <1>1, SyncdInvariance
<1>5. QED
  BY <1>3, <1>4, PTL DEF Spec, DownIsFinal

\* Whenever main returns, nothing that could be killed runs and no file that could be
\* removed is left.
THEOREM ReturnIsClean == ~StartsTwice => (Spec => []ReturnCleansUp)
<1>1. SUFFICES ASSUME ~StartsTwice PROVE Spec => []ReturnCleansUp
  OBVIOUS
<1>2. SyncdInv /\ DropCleansUp => ReturnCleansUp
  BY SyncdAssumption DEF SyncdInv, Destroyed, DropCleansUp, ReturnCleansUp
<1>3. InstanceSpec => []DropCleansUp
  BY <1>1, Cleanup
<1>4. Spec => []SyncdInv
  BY <1>1, SyncdInvariance
<1>5. QED
  BY <1>2, <1>3, <1>4, UsesInstances, PTL
=============================================================================
