-------------------------- MODULE PtpInstanceProofs --------------------------
(***************************************************************************)
(* Ownership of ptp4l processes by PtpInstance, for any set of instances   *)
(* and any number of spawns and failures, when no client starts an         *)
(* instance that tracks a child.                                           *)
(*                                                                         *)
(* Tracked is not inductive by itself: it needs that the calls of an       *)
(* instance belong to its lifetime, so that nothing runs before new and    *)
(* nothing is tracked after drop.                                          *)
(***************************************************************************)
EXTENDS PtpInstance, TLAPS

Lifetime ==
    \A i \in Instances :
        /\ query[i] # "idle" => phase[i] = "live"
        /\ phase[i] = "dropped" => process[i] = NoChild /\ config[i] # "present"

IInv == InstanceTypeOK /\ Tracked /\ Lifetime

\* Every disjunct of a call of i changes the functions at i only.
LEMMA InitInv == InstanceInit => IInv
BY DEF InstanceInit, IInv, InstanceTypeOK, Tracked, Lifetime, Running, NoChild, Queries,
       Results

LEMMA NewPreserves ==
    ASSUME IInv, NEW i \in Instances, New(i) \/ NewFails(i)
    PROVE  IInv'
<1>1. CASE New(i)
  BY <1>1 DEF New, Returns, IInv, InstanceTypeOK, Tracked, Lifetime, Running, Results
<1>2. CASE NewFails(i)
  BY <1>2 DEF NewFails, Returns, IInv, InstanceTypeOK, Tracked, Lifetime, Running, Results
<1>3. QED BY <1>1, <1>2

LEMMA StartPreserves ==
    ASSUME IInv, ~StartsTwice, NEW i \in Instances, Start(i) \/ StartFails(i)
    PROVE  IInv'
<1>1. CASE Start(i)
  <2>1. InstanceTypeOK'
    BY <1>1 DEF Start, Returns, Idle, IInv, InstanceTypeOK, Results
  <2>2. Tracked'
    BY <1>1 DEF Start, Idle, IInv, InstanceTypeOK, Tracked, Running, NoChild
  <2>3. Lifetime'
    BY <1>1 DEF Start, Idle, IInv, InstanceTypeOK, Lifetime
  <2>4. QED BY <2>1, <2>2, <2>3 DEF IInv
<1>2. CASE StartFails(i)
  BY <1>2 DEF StartFails, Returns, IInv, InstanceTypeOK, Tracked, Lifetime, Running, Results
<1>3. QED BY <1>1, <1>2

\* The child that was tracked is killed, or excepted.
LEMMA KillingPreserves ==
    ASSUME IInv, NEW i \in Instances, Kills(i) \/ KillFails(i)
    PROVE  /\ process' \in [Instances -> Nat] /\ process'[i] = NoChild
           /\ alive' \in [Instances -> SUBSET Nat]
           /\ unkilled' \in [Instances -> SUBSET Nat]
           /\ \A j \in Instances :
                  /\ alive'[j] \subseteq alive[j]
                  /\ alive'[j] \ unkilled'[j] \subseteq {process'[j]}
                  /\ j # i => process'[j] = process[j]
BY DEF Kills, KillFails, IInv, InstanceTypeOK, Tracked, Running, NoChild

LEMMA StopPreserves ==
    ASSUME IInv, NEW i \in Instances, Stop(i)
    PROVE  IInv'
<1>1. Kills(i) \/ KillFails(i)
  BY DEF Stop
<1>2. InstanceTypeOK'
  BY <1>1, KillingPreserves DEF Stop, Returns, IInv, InstanceTypeOK, Results, NoChild
<1>3. Tracked'
  BY <1>1, KillingPreserves DEF Tracked, Running
<1>4. Lifetime'
  BY <1>1, KillingPreserves DEF Stop, Idle, IInv, Lifetime
<1>5. QED BY <1>2, <1>3, <1>4 DEF IInv

LEMMA DropPreserves ==
    ASSUME IInv, NEW i \in Instances, Drop(i)
    PROVE  IInv'
<1>1. Kills(i) \/ KillFails(i)
  BY DEF Drop
<1>2. InstanceTypeOK'
  BY <1>1, KillingPreserves DEF Drop, IInv, InstanceTypeOK, NoChild
<1>3. Tracked'
  BY <1>1, KillingPreserves DEF Tracked, Running
<1>4. Lifetime'
  BY <1>1, KillingPreserves DEF Drop, Idle, IInv, InstanceTypeOK, Lifetime
<1>5. QED BY <1>2, <1>3, <1>4 DEF IInv

\* ensure_process_running forgets a child only when it does not run.
LEMMA EnsurePreserves ==
    ASSUME IInv, NEW i \in Instances, NEW next \in Queries, NEW r \in Results,
           phase[i] = "live", EnsureRunning(i, next, r),
           UNCHANGED <<phase, config, spawned, alive, unkilled>>
    PROVE  IInv'
<1>1. InstanceTypeOK'
  <2>1. /\ result' \in [Instances -> Results]
        /\ query' \in [Instances -> Queries]
    BY DEF EnsureRunning, NotRunning, Exited, TryWaitFails, Fails, Returns, IInv,
           InstanceTypeOK, Queries, Results
  <2>2. /\ process' \in [Instances -> Nat]
        /\ faults' \in [Instances -> Nat]
        /\ \A j \in Instances : process'[j] \in {process[j], NoChild}
    BY DEF EnsureRunning, NotRunning, Exited, TryWaitFails, IInv, InstanceTypeOK, NoChild
  <2>3. QED BY <2>1, <2>2 DEF IInv, InstanceTypeOK, NoChild
<1>2. Tracked'
  BY DEF EnsureRunning, NotRunning, Exited, TryWaitFails, IInv, InstanceTypeOK, Tracked,
         Running, NoChild
<1>3. Lifetime'
  BY DEF EnsureRunning, NotRunning, Exited, TryWaitFails, Fails, IInv, InstanceTypeOK,
         Lifetime
<1>4. QED BY <1>1, <1>2, <1>3 DEF IInv

LEMMA QueryPreserves ==
    ASSUME IInv, NEW i \in Instances,
           Snapshot(i) \/ PmcAnswers(i) \/ PmcFails(i) \/ Recheck(i)
    PROVE  IInv'
<1>1. CASE Snapshot(i)
  <2>1. "pmc" \in Queries /\ "Done" \in Results
    BY DEF Queries, Results
  <2>2. QED BY <1>1, <2>1, EnsurePreserves DEF Snapshot, Idle
<1>2. CASE PmcAnswers(i)
  BY <1>2 DEF PmcAnswers, Returns, Snapshots, IInv, InstanceTypeOK, Tracked, Lifetime,
              Running, Queries, Results
<1>3. CASE PmcFails(i)
  BY <1>3 DEF PmcFails, IInv, InstanceTypeOK, Tracked, Lifetime, Running, Queries
<1>4. CASE Recheck(i)
  <2>1. query[i] # "idle" /\ query[i] \in Results /\ "idle" \in Queries
    BY <1>4 DEF Recheck, Blames, Results, Queries
  <2>2. phase[i] = "live"
    BY <2>1 DEF IInv, Lifetime
  <2>3. QED BY <1>4, <2>1, <2>2, EnsurePreserves DEF Recheck
<1>5. QED BY <1>1, <1>2, <1>3, <1>4

LEMMA NextPreserves ==
    ASSUME ~StartsTwice, IInv, [InstanceNext]_instanceVars
    PROVE  IInv'
<1>1. CASE UNCHANGED instanceVars
  BY <1>1 DEF instanceVars, IInv, InstanceTypeOK, Tracked, Lifetime, Running
<1>2. ASSUME NEW i \in Instances, Call(i)
      PROVE  IInv'
  BY <1>2, NewPreserves, StartPreserves, StopPreserves, DropPreserves, QueryPreserves
     DEF Call
<1>3. ASSUME NEW i \in Instances, ChildExits(i)
      PROVE  IInv'
  BY <1>3 DEF ChildExits, IInv, InstanceTypeOK, Tracked, Lifetime, Running
<1>4. QED BY <1>1, <1>2, <1>3 DEF InstanceNext

\* The inductive invariant: the types, Tracked, and the lifetime of an instance.
THEOREM Invariance == ~StartsTwice => (InstanceSpec => []IInv)
<1>1. SUFFICES ASSUME ~StartsTwice PROVE InstanceSpec => []IInv
  OBVIOUS
<1>2. IInv /\ [InstanceNext]_instanceVars => IInv'
  BY <1>1, NextPreserves
<1>3. QED BY InitInv, <1>2, PTL DEF InstanceSpec

\* stop() and drop reach the only ptp4l that runs, whatever the clients call and
\* whenever children exit, as long as no client starts an instance twice.
THEOREM Ownership == ~StartsTwice => (InstanceSpec => [](InstanceTypeOK /\ Tracked))
<1>1. IInv => InstanceTypeOK /\ Tracked
  BY DEF IInv
<1>2. QED BY <1>1, Invariance, PTL

\* The bookkeeping stays well-formed: a handle is that of a child that was spawned,
\* and so is every child that runs.
THEOREM TypeCorrect == ~StartsTwice => (InstanceSpec => []InstanceTypeOK)
BY Ownership, PTL

\* A dropped instance has left neither a process nor a file that could be removed.
THEOREM Cleanup == ~StartsTwice => (InstanceSpec => []DropCleansUp)
<1>1. IInv => DropCleansUp
  BY DEF IInv, InstanceTypeOK, Tracked, Lifetime, DropCleansUp, Running, NoChild
<1>2. QED BY <1>1, Invariance, PTL

\* What a snapshot says of the process is true at the moment it is said.
THEOREM Verdicts == ~StartsTwice => (InstanceSpec => VerdictIsTrue)
<1> DEFINE Verdict ==
        \A i \in Instances : SnapshotReturns(i) =>
            /\ result'[i] \in Blames => process'[i] \in alive[i]
            /\ result'[i] = "ProcessExited" =>
                   process[i] \notin alive[i] /\ process'[i] = NoChild
            /\ result'[i] = "ProcessNotRunning" => Running(i) = {}
<1>1. ASSUME IInv, NEW i \in Instances, SnapshotReturns(i)
      PROVE  /\ result'[i] \in Blames => process'[i] \in alive[i]
             /\ result'[i] = "ProcessExited" =>
                    process[i] \notin alive[i] /\ process'[i] = NoChild
             /\ result'[i] = "ProcessNotRunning" => Running(i) = {}
  <2>1. process[i] = NoChild => Running(i) = {}
    BY <1>1 DEF IInv, InstanceTypeOK, Tracked, Running, NoChild
  <2>2. CASE Snapshot(i)
    BY <1>1, <2>1, <2>2 DEF SnapshotReturns, Snapshot, EnsureRunning, NotRunning, Exited,
       TryWaitFails, Fails, Returns, IInv, InstanceTypeOK, Blames
  <2>3. CASE PmcAnswers(i)
    BY <1>1, <2>3 DEF PmcAnswers, Returns, IInv, InstanceTypeOK, Blames, Snapshots
  <2>4. CASE Recheck(i)
    BY <1>1, <2>1, <2>4 DEF SnapshotReturns, Recheck, EnsureRunning, NotRunning, Exited,
       TryWaitFails, Fails, Returns, IInv, InstanceTypeOK, Blames
  <2>5. QED BY <1>1, <2>2, <2>3, <2>4 DEF SnapshotReturns
<1>2. IInv => [Verdict]_instanceVars
  BY <1>1
<1>3. QED BY <1>2, Invariance, PTL DEF VerdictIsTrue
=============================================================================
