------------------------ MODULE CurationHost_proofs ------------------------
(***************************************************************************)
(* Proofs about the ownership lock and the native worker supervisor, for   *)
(* any number of processes and restarts.                                   *)
(***************************************************************************)
EXTENDS CurationHost, TLAPS

-----------------------------------------------------------------------------
(* The lock, as long as starts are serial.                                 *)

LEMMA LockInitial == LockInit => LockInv
  BY LockAssumption DEF LockInit, LockInv, LockTypeOK, OwnerHasLock, Holds, Starting, Owning, Ending, Over

LEMMA LockInductive ==
  ASSUME Serial, LockInv, [LockNext]_lockVars
  PROVE  LockInv'
<1> USE LockAssumption DEF LockInv, LockTypeOK, OwnerHasLock, Holds, Goto, Alive, Starting, Owning, Ending, Over
<1>1. ASSUME NEW p \in Apis, Launch(p)
      PROVE  LockInv'
  BY <1>1 DEF Launch
<1>2. ASSUME NEW p \in Apis, ReadLock(p)
      PROVE  LockInv'
  <2>1. CASE lock = Nobody /\ Goto(p, "create") /\ UNCHANGED seen
    BY <1>2, <2>1 DEF ReadLock
  <2>2. CASE lock \in written /\ Goto(p, "check") /\ seen' = [seen EXCEPT ![p] = lock]
    BY <1>2, <2>2 DEF ReadLock
  <2>3. CASE lock # Nobody /\ lock \notin written /\ Goto(p, "refused") /\ UNCHANGED seen
    BY <1>2, <2>3 DEF ReadLock
  <2> QED BY <1>2, <2>1, <2>2, <2>3 DEF ReadLock
<1>3. ASSUME NEW p \in Apis, CheckOwner(p)
      PROVE  LockInv'
  <2>1. CASE ~Alive(seen[p]) /\ Goto(p, "unlink")
    BY <1>3, <2>1 DEF CheckOwner
  <2>2. CASE Goto(p, "refused")
    BY <1>3, <2>2 DEF CheckOwner
  <2> QED BY <1>3, <2>1, <2>2 DEF CheckOwner
<1>4. ASSUME NEW p \in Apis, RemoveStale(p)
      PROVE  LockInv'
  BY <1>4 DEF RemoveStale
<1>5. ASSUME NEW p \in Apis, CreateLock(p)
      PROVE  LockInv'
  <2>1. CASE lock = Nobody
    BY <1>5, <2>1 DEF CreateLock
  <2>2. CASE lock # Nobody
    BY <1>5, <2>2 DEF CreateLock
  <2> QED BY <2>1, <2>2
<1>6. ASSUME NEW p \in Apis, WriteLock(p)
      PROVE  LockInv'
  BY <1>6 DEF WriteLock
<1>7. ASSUME NEW p \in Apis, Close(p)
      PROVE  LockInv'
  <2>1. CASE lock = p
    BY <1>7, <2>1 DEF Close
  <2>2. CASE lock # p
    BY <1>7, <2>2 DEF Close
  <2> QED BY <2>1, <2>2
<1>8. ASSUME NEW p \in Apis, ReleaseLock(p)
      PROVE  LockInv'
  BY <1>8 DEF ReleaseLock
<1>9. ASSUME NEW p \in Apis, Die(p)
      PROVE  LockInv'
  BY <1>9 DEF Die
<1>10. ASSUME NEW p \in Apis, NEW next \in Owning, Own(p, next)
       PROVE  LockInv'
  BY <1>10 DEF Own
<1>11. CASE UNCHANGED lockVars
  BY <1>11 DEF lockVars
<1> QED BY <1>1, <1>2, <1>3, <1>4, <1>5, <1>6, <1>7, <1>8, <1>9, <1>10, <1>11 DEF LockNext, Construct

\* One process at a time has the data directory (Store's constructor), when no
\* two starts overlap.  The run lock_race shows that the condition is needed.
THEOREM SerialStartsExclude == ASSUME Serial PROVE LockSpec => [](OneOwner /\ OwnerHasLock)
<1>1. LockInv => OneOwner /\ OwnerHasLock
  BY DEF LockInv, OneOwner, OwnerHasLock
<1> QED BY <1>1, LockInitial, LockInductive, PTL DEF LockSpec

-----------------------------------------------------------------------------
(* The supervisor is a user of the lock.                                   *)

LEMMA HostStepIsLockStep == HostTypeOK /\ [HostNext]_vars => [LockNext]_lockVars
<1> SUFFICES ASSUME HostTypeOK, [HostNext]_vars
             PROVE  [LockNext]_lockVars
  OBVIOUS
<1>1. ASSUME NEW p \in Apis, LockStep(p)
      PROVE  LockNext
  BY <1>1 DEF LockStep, LockNext
<1>2. ASSUME NEW p \in Apis, Serve(p)
      PROVE  LockNext
  <2>1. Own(p, "serving")
    BY <1>2 DEF Serve, Own, Owning
  <2> QED BY <2>1 DEF LockNext, Owning
<1>3. ASSUME NEW p \in Apis, Signal(p)
      PROVE  LockNext
  <2>1. Own(p, "stopping")
    BY <1>3 DEF Signal, Own, Owning
  <2> QED BY <2>1 DEF LockNext, Owning
<1>4. ASSUME NEW p \in Apis, Stopped(p)
      PROVE  LockNext
  <2>1. Own(p, "draining")
    BY <1>4 DEF Stopped, Own, Owning
  <2> QED BY <2>1 DEF LockNext, Owning
<1>8. ASSUME NEW p \in Apis, Drained(p)
      PROVE  LockNext
  <2>1. Own(p, "closing")
    BY <1>8 DEF Drained, Own, Owning
  <2> QED BY <2>1 DEF LockNext, Owning
<1>5. ASSUME NEW p \in Apis, Crash(p)
      PROVE  LockNext
  BY <1>5 DEF Crash, LockNext
<1>6. ASSUME NEW p \in Apis, Spawned(p) \/ WorkerCloses(p) \/ TimerFires(p) \/ Restart(p) \/ OrphanExits(p)
      PROVE  UNCHANGED lockVars
  BY <1>6 DEF Spawned, WorkerCloses, TimerFires, Restart, OrphanExits
<1>9. ASSUME NEW p \in Apis, ClientConnects(p) \/ ClientLeaves(p)
      PROVE  UNCHANGED lockVars
  BY <1>9 DEF ClientConnects, ClientLeaves
<1>7. CASE UNCHANGED vars
  BY <1>7 DEF vars, lockVars
<1> QED BY <1>1, <1>2, <1>3, <1>4, <1>5, <1>6, <1>7, <1>8, <1>9 DEF HostNext

-----------------------------------------------------------------------------
(* The inductive invariant of the supervisor: before it serves a process   *)
(* has no worker and nothing is scheduled; the flag stopping follows the   *)
(* phase; there are no more launches than counted failures explain, one    *)
(* less when the next is only scheduled.                                   *)

Before == Starting \cup {"new", "owner", "refused"}

SupervisorInv ==
  /\ HostTypeOK
  /\ RestartAfterClose
  /\ \A p \in Apis :
       /\ phase[p] \in Before => worker[p] = "none" /\ ~timer[p] /\ ~stopping[p]
       /\ worker[p] # "none" => phase[p] \in {"serving", "stopping", "crashed"}
       /\ phase[p] = "serving" => ~stopping[p]
       /\ phase[p] = "stopping" => stopping[p]
       /\ launches[p] <= failures[p] + 1
       /\ timer[p] => launches[p] <= failures[p]

LEMMA SupervisorInitial == HostInit => SupervisorInv
  BY RestartsAssumption DEF HostInit, LockInit, SupervisorInv, HostTypeOK, LockTypeOK, RestartAfterClose, Before,
     Supervising, Starting, Owning, Ending, Over

LEMMA LockStepKeepsType ==
  ASSUME LockTypeOK, [LockNext]_lockVars
  PROVE  LockTypeOK'
<1> USE LockAssumption DEF LockTypeOK, Goto, Starting, Owning, Ending, Over
<1>1. ASSUME NEW p \in Apis, Construct(p)
      PROVE  LockTypeOK'
  BY <1>1 DEF Construct, Launch, ReadLock, CheckOwner, RemoveStale, CreateLock, WriteLock
<1>2. ASSUME NEW p \in Apis, Close(p) \/ ReleaseLock(p) \/ Die(p)
      PROVE  LockTypeOK'
  BY <1>2 DEF Close, ReleaseLock, Die
<1>3. ASSUME NEW p \in Apis, NEW next \in Owning, Own(p, next)
      PROVE  LockTypeOK'
  BY <1>3 DEF Own
<1>4. CASE UNCHANGED lockVars
  BY <1>4 DEF lockVars
<1> QED BY <1>1, <1>2, <1>3, <1>4 DEF LockNext

\* A restart that is scheduled after an exit leaves the invariant.
LEMMA Rescheduled ==
  ASSUME SupervisorInv, LockTypeOK', NEW p \in Apis, NEW k \in Nat, k < MaxRestarts, k <= failures[p],
         Supervising(p), worker[p] # "none", ~stopping[p], UNCHANGED <<lockVars, stopping, clients>>,
         worker' = [worker EXCEPT ![p] = "none"], Reschedule(p, k),
         \/ k = failures[p] /\ UNCHANGED launches
         \/ k = 0 /\ launches' = [launches EXCEPT ![p] = 0]
  PROVE  SupervisorInv'
<1> USE RestartsAssumption DEF SupervisorInv, HostTypeOK, lockVars
<1>1. /\ state' = [state EXCEPT ![p] = "restarting"]
      /\ failures' = [failures EXCEPT ![p] = k + 1]
      /\ timer' = [timer EXCEPT ![p] = TRUE]
  BY DEF Reschedule
<1>2. k + 1 \in 0..MaxRestarts
  OBVIOUS
<1>3. launches' \in [Apis -> Nat] /\ launches'[p] <= failures'[p] /\ \A q \in Apis \ {p} : launches'[q] = launches[q]
  <2>1. CASE k = failures[p] /\ UNCHANGED launches
    BY <1>1, <2>1
  <2>2. CASE k = 0 /\ launches' = [launches EXCEPT ![p] = 0]
    BY <1>1, <2>2
  <2> QED BY <2>1, <2>2
<1>4. HostTypeOK'
  BY <1>1, <1>2, <1>3
<1>5. RestartAfterClose'
  BY <1>1 DEF RestartAfterClose, Supervising
<1>6. ASSUME NEW q \in Apis
      PROVE  /\ phase'[q] \in Before => worker'[q] = "none" /\ ~timer'[q] /\ ~stopping'[q]
             /\ worker'[q] # "none" => phase'[q] \in {"serving", "stopping", "crashed"}
             /\ phase'[q] = "serving" => ~stopping'[q]
             /\ phase'[q] = "stopping" => stopping'[q]
  BY <1>1 DEF Before, Supervising, Starting
<1>7. ASSUME NEW q \in Apis
      PROVE  launches'[q] <= failures'[q] + 1 /\ (timer'[q] => launches'[q] <= failures'[q])
  <2>1. CASE q = p
    <3>1. failures'[p] = k + 1 /\ launches'[p] \in Nat
      BY <1>1, <1>3
    <3> QED BY <1>3, <2>1, <3>1
  <2>2. CASE q # p
    BY <1>1, <1>3, <2>2
  <2> QED BY <2>1, <2>2
<1> QED BY <1>4, <1>5, <1>6, <1>7

LEMMA WorkerClosed ==
  ASSUME SupervisorInv, LockTypeOK', NEW p \in Apis, WorkerCloses(p)
  PROVE  SupervisorInv'
<1>1. CASE stopping[p] /\ state' = [state EXCEPT ![p] = "stopped"] /\ UNCHANGED <<failures, timer, launches>>
  BY <1>1 DEF WorkerCloses, lockVars, SupervisorInv, HostTypeOK, RestartAfterClose, Supervising, Before, Starting
<1>2. ASSUME NEW k \in Nat, k <= failures[p], k <= MaxRestarts, ~stopping[p], Reschedule(p, k),
             \/ k = failures[p] /\ UNCHANGED launches
             \/ k = 0 /\ launches' = [launches EXCEPT ![p] = 0]
      PROVE  SupervisorInv'
  <2>1. CASE k < MaxRestarts
    BY <1>2, <2>1, Rescheduled DEF WorkerCloses
  <2>2. CASE k = MaxRestarts
    <3> USE RestartsAssumption DEF SupervisorInv, HostTypeOK, lockVars
    <3>1. /\ state' = [state EXCEPT ![p] = "failed"]
          /\ failures' = [failures EXCEPT ![p] = k]
          /\ UNCHANGED <<timer, lockVars, stopping, clients>>
          /\ worker' = [worker EXCEPT ![p] = "none"]
          /\ ~timer[p]
      BY <1>2, <2>2 DEF Reschedule, WorkerCloses, RestartAfterClose
    <3>2. HostTypeOK' /\ RestartAfterClose'
      BY <1>2, <2>2, <3>1 DEF RestartAfterClose, Supervising
    <3>3. \A q \in Apis : launches'[q] <= failures'[q] + 1 /\ (timer'[q] => launches'[q] <= failures'[q])
      BY <1>2, <2>2, <3>1
    <3> QED BY <3>1, <3>2, <3>3 DEF Before, Starting
  <2> QED BY <1>2, <2>1, <2>2, RestartsAssumption
<1>3. failures[p] \in Nat /\ failures[p] <= MaxRestarts
  BY RestartsAssumption DEF SupervisorInv, HostTypeOK
<1>4. CASE ~stopping[p] /\ Reschedule(p, failures[p]) /\ UNCHANGED launches
  BY <1>2, <1>3, <1>4
<1>5. CASE ~stopping[p] /\ Reschedule(p, 0) /\ launches' = [launches EXCEPT ![p] = 0]
  BY <1>2, <1>3, <1>5, RestartsAssumption
<1> QED BY <1>1, <1>4, <1>5 DEF WorkerCloses

LEMMA SupervisorInductive ==
  ASSUME SupervisorInv, [HostNext]_vars
  PROVE  SupervisorInv'
<1>t. LockTypeOK'
  BY HostStepIsLockStep, LockStepKeepsType DEF SupervisorInv, HostTypeOK
<1> USE <1>t, RestartsAssumption DEF SupervisorInv, HostTypeOK, RestartAfterClose, Supervising, Before, Goto, Starting
<1>1. ASSUME NEW p \in Apis, LockStep(p)
      PROVE  SupervisorInv'
  <2>1. LockTypeOK
    OBVIOUS
  <2>2. CASE Construct(p)
    BY <1>1, <2>1, <2>2 DEF LockStep, LockTypeOK, Construct, Launch, ReadLock, CheckOwner, RemoveStale, CreateLock, WriteLock, supervisorVars
  <2>3. CASE Close(p) \/ ReleaseLock(p)
    BY <1>1, <2>1, <2>3 DEF LockStep, LockTypeOK, Close, ReleaseLock, supervisorVars
  <2> QED BY <1>1, <2>2, <2>3 DEF LockStep
<1>2. ASSUME NEW p \in Apis, Serve(p)
      PROVE  SupervisorInv'
  BY <1>2 DEF Serve, StartWorker, LockTypeOK
<1>3. ASSUME NEW p \in Apis, Spawned(p)
      PROVE  SupervisorInv'
  BY <1>3 DEF Spawned, lockVars
<1>4. ASSUME NEW p \in Apis, WorkerCloses(p)
      PROVE  SupervisorInv'
  <2> HIDE DEF SupervisorInv, HostTypeOK, RestartAfterClose, Supervising, Before, Goto, Starting
  <2> QED BY <1>4, WorkerClosed
<1>5. ASSUME NEW p \in Apis, TimerFires(p)
      PROVE  SupervisorInv'
  BY <1>5 DEF TimerFires, StartWorker, lockVars
<1>6. ASSUME NEW p \in Apis, Restart(p)
      PROVE  SupervisorInv'
  <2>1. ~timer[p]
    BY <1>6 DEF Restart
  <2> QED BY <1>6, <2>1 DEF Restart, StartWorker, lockVars
<1>7. ASSUME NEW p \in Apis, Signal(p)
      PROVE  SupervisorInv'
  BY <1>7 DEF Signal, LockTypeOK
<1>8. ASSUME NEW p \in Apis, Stopped(p)
      PROVE  SupervisorInv'
  BY <1>8 DEF Stopped, LockTypeOK
<1>12. ASSUME NEW p \in Apis, Drained(p)
       PROVE  SupervisorInv'
  BY <1>12 DEF Drained, supervisorVars, LockTypeOK
<1>13. ASSUME NEW p \in Apis, ClientConnects(p) \/ ClientLeaves(p)
       PROVE  SupervisorInv'
  BY <1>13 DEF ClientConnects, ClientLeaves, lockVars, supervisorVars
<1>9. ASSUME NEW p \in Apis, Crash(p)
      PROVE  SupervisorInv'
  BY <1>9 DEF Crash, Die, supervisorVars, LockTypeOK
<1>10. ASSUME NEW p \in Apis, OrphanExits(p)
       PROVE  SupervisorInv'
  BY <1>10 DEF OrphanExits, lockVars
<1>11. CASE UNCHANGED vars
  BY <1>11 DEF vars, lockVars, supervisorVars
<1> QED BY <1>1, <1>2, <1>3, <1>4, <1>5, <1>6, <1>7, <1>8, <1>9, <1>10, <1>11, <1>12, <1>13 DEF HostNext

LEMMA SupervisorInvariant == HostSpec => []SupervisorInv
  BY SupervisorInitial, SupervisorInductive, PTL DEF HostSpec

\* Every state of the host processes is of the declared types.
THEOREM HostTypeCorrect == HostSpec => []HostTypeOK
<1>1. SupervisorInv => HostTypeOK
  BY DEF SupervisorInv
<1> QED BY <1>1, SupervisorInvariant, PTL

\* No restart of the worker (WorkerSupervisor.start) is pending beside a child
\* or after stop().
THEOREM RestartsFollowClose == HostSpec => []RestartAfterClose
<1>1. SupervisorInv => RestartAfterClose
  BY DEF SupervisorInv
<1> QED BY <1>1, SupervisorInvariant, PTL

\* A worker that keeps failing is launched MaxRestarts + 1 times at most.
THEOREM RestartsAreBounded == HostSpec => []BoundedRestarts
<1>1. SupervisorInv => BoundedRestarts
  <2> SUFFICES ASSUME SupervisorInv, NEW p \in Apis
               PROVE  launches[p] <= MaxRestarts + 1
    BY DEF BoundedRestarts
  <2>1. launches[p] \in Nat /\ failures[p] \in 0..MaxRestarts /\ launches[p] <= failures[p] + 1
    BY DEF SupervisorInv, HostTypeOK
  <2> QED BY <2>1, RestartsAssumption
<1> QED BY <1>1, SupervisorInvariant, PTL

\* The host processes use the lock the way StoreLock describes.
THEOREM HostUsesLock == HostSpec => LockSpec
<1>1. HostInit => LockInit
  BY DEF HostInit
<1>2. SupervisorInv /\ [HostNext]_vars => [LockNext]_lockVars
  BY HostStepIsLockStep DEF SupervisorInv
<1> QED BY <1>1, <1>2, SupervisorInvariant, PTL DEF HostSpec, LockSpec

\* With serial starts, a worker whose API has not died works on a directory
\* its API owns (server.ts stops the worker before it closes the store).
THEOREM WorkersAreCovered == ASSUME Serial PROVE HostSpec => []LockCoversWorker
<1>1. SupervisorInv /\ OwnerHasLock => LockCoversWorker
  BY DEF SupervisorInv, OwnerHasLock, LockCoversWorker, Holds, Owning
<1>2. HostSpec => [](OneOwner /\ OwnerHasLock)
  BY HostUsesLock, SerialStartsExclude, PTL
<1>3. HostSpec => []OwnerHasLock
  BY <1>2, PTL
<1> QED BY <1>1, <1>3, SupervisorInvariant, PTL
=============================================================================
