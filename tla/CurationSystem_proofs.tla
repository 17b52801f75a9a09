----------------------- MODULE CurationSystem_proofs ------------------------
(***************************************************************************)
(* Proofs about the curation API, and about the API together with its      *)
(* worker, for any number of jobs, sources, episodes and contents, any     *)
(* queue cap, expiry limit and lease length, and any number of faults.     *)
(*                                                                         *)
(* The argument of the second part: every step of the system is a step of  *)
(* the API or leaves it alone, the API takes nothing back (StepGrows), so  *)
(* what the worker and the messages say of the catalog, once true, stays   *)
(* true.                                                                   *)
(***************************************************************************)
EXTENDS CurationSystem, TLAPS

(***************************************************************************)
(* Type correctness.                                                       *)
(***************************************************************************)

\* What reconcileJobs computes is a job table again.
LEMMA ReconciledType ==
  ASSUME TypeOK
  PROVE  ReconciledStatus \in [Jobs -> Statuses]
BY DEF TypeOK, ReconciledStatus, Statuses

LEMMA ReconcileRestType ==
  ASSUME TypeOK, ReconcileRest
  PROVE  /\ expired' \in [Jobs -> Nat]
         /\ error' \in [Jobs -> {"none", "worker", "lease"}]
         /\ UNCHANGED <<kind, subject, payload, catalogVars>>
BY DEF TypeOK, ReconcileRest

LEMMA NewJobType ==
  ASSUME TypeOK, NEW k \in Kinds, NEW s \in Sources, NEW p \in OptVersions,
         NewJob(k, s, p)
  PROVE  /\ kind' \in [Jobs -> Kinds \cup {"none"}]
         /\ subject' \in [Jobs -> Sources \cup {None}]
         /\ payload' \in [Jobs -> OptVersions]
         /\ status' \in [Jobs -> Statuses]
         /\ UNCHANGED <<attempt, age, expired, error>>
BY DEF TypeOK, NewJob, Statuses

LEMMA TypeInit == Init => TypeOK
BY ConstantsAssumption DEF Init, TypeOK, OptVersions, Statuses

LEMMA OperatorType ==
  ASSUME TypeOK, Operator
  PROVE  TypeOK'
<1>1. ASSUME NEW s \in Sources, AddSource(s) PROVE TypeOK'
  BY <1>1, NewJobType DEF AddSource, TypeOK, Kinds, OptVersions
<1>2. ASSUME NEW s \in Sources, RequestImport(s) PROVE TypeOK'
  BY <1>2, NewJobType DEF RequestImport, TypeOK, Kinds, catalogVars
<1>3. ASSUME NEW s \in Sources, NEW k \in {"preview", "export"}, RequestRead(k, s)
      PROVE  TypeOK'
  BY <1>3, NewJobType DEF RequestRead, TypeOK, Kinds, OptVersions, catalogVars
<1>4. ASSUME NEW j \in Jobs, Cancel(j) PROVE TypeOK'
  BY <1>4, ConstantsAssumption DEF Cancel, TypeOK, Statuses, catalogVars
<1>5. ASSUME NEW j \in Jobs, Retry(j) PROVE TypeOK'
  BY <1>5 DEF Retry, TypeOK, Statuses, catalogVars
<1>. QED BY <1>1, <1>2, <1>3, <1>4, <1>5 DEF Operator

LEMMA LeaseType ==
  ASSUME TypeOK, Tick \/ Reconcile \/ ClaimNothing \/ \E j \in Jobs : ClaimJob(j)
  PROVE  TypeOK'
<1>1. CASE Tick
  BY <1>1, ConstantsAssumption DEF Tick, TypeOK, catalogVars
<1>2. CASE Reconcile
  BY <1>2, ConstantsAssumption, ReconciledType, ReconcileRestType
     DEF Reconcile, TypeOK, catalogVars
<1>3. CASE ClaimNothing
  BY <1>3, ConstantsAssumption, ReconciledType, ReconcileRestType
     DEF ClaimNothing, TypeOK, catalogVars
<1>4. ASSUME NEW j \in Jobs, ClaimJob(j) PROVE TypeOK'
  <2>1. status' \in [Jobs -> Statuses]
    BY <1>4, ReconciledType DEF ClaimJob, Statuses
  <2>2. attempt' \in [Jobs -> Nat] /\ age' \in [Jobs -> 0..(Lease + 1)]
    BY <1>4, ConstantsAssumption DEF ClaimJob, TypeOK
  <2>. QED BY <1>4, <2>1, <2>2, ReconcileRestType DEF ClaimJob, TypeOK, catalogVars
<1>. QED BY <1>1, <1>2, <1>3, <1>4

LEMMA UpdateType ==
  ASSUME TypeOK, RowsFilled, NEW j \in Jobs, NEW a \in Nat, Update(j, a)
  PROVE  TypeOK'
<1>. DEFINE s == subject[j]
<1>1. CASE Heartbeat(j, a)
  BY <1>1, ConstantsAssumption DEF Heartbeat, Refresh, TypeOK, catalogVars
<1>2. ASSUME NEW e \in Episodes, NEW v \in Versions, PublishEpisode(j, a, e, v)
      PROVE  TypeOK'
  <2>1. episodes' \in [Sources -> [Episodes -> OptVersions]]
    BY <1>2 DEF PublishEpisode, TypeOK, OptVersions
  <2>. QED BY <1>2, <2>1, ConstantsAssumption DEF PublishEpisode, Refresh, TypeOK
<1>3. CASE Fail(j, a)
  BY <1>3, ConstantsAssumption DEF Fail, Refresh, TypeOK, Statuses, catalogVars
<1>4. ASSUME NEW v \in OptVersions, NEW n \in 0..NumEpisodes, Complete(j, a, v, n)
      PROVE  TypeOK'
  <2>1. status' \in [Jobs -> Statuses] /\ age' \in [Jobs -> 0..(Lease + 1)]
    BY <1>4, ConstantsAssumption DEF Complete, Refresh, TypeOK, Statuses
  <2>2. CASE ApprovePlan(s, v)
    BY <1>4, <2>1, <2>2 DEF Complete, ApprovePlan, TypeOK
  <2>3. CASE FinishImport(s)
    BY <1>4, <2>1, <2>3 DEF Complete, FinishImport, TypeOK
  <2>4. CASE RegisterExport(j)
    BY <1>4, <2>1, <2>4 DEF Complete, RegisterExport, TypeOK
  <2>5. CASE UNCHANGED catalogVars
    BY <1>4, <2>1, <2>5 DEF Complete, TypeOK, catalogVars
  <2>. QED BY <1>4, <2>2, <2>3, <2>4, <2>5 DEF Complete
<1>. QED BY <1>1, <1>2, <1>3, <1>4 DEF Update

(***************************************************************************)
(* The inductive invariant JobsInv, operation by operation.                *)
(***************************************************************************)

LEMMA InvInit == Init => JobsInv
<1>1. Init => TypeOK BY TypeInit
<1>2. Init => OneRunning /\ RowsFilled
  BY DEF Init, OneRunning, RowsFilled
<1>3. Init => SnapshotIsApprovedPlan /\ EvidenceIsApproved /\ OnePreflight
  BY DEF Init, SnapshotIsApprovedPlan, EvidenceIsApproved, OnePreflight
<1>. QED BY <1>1, <1>2, <1>3 DEF JobsInv

\* A new record keeps the part of the invariant that is not about preflights,
\* provided its payload is what its kind calls for.
LEMMA NewJobInv ==
  ASSUME JobsInv, TypeOK', NEW k \in Kinds, NEW s \in Sources, NEW p \in OptVersions,
         NewJob(k, s, p), k = "import" => p = plan[s] /\ p # None,
         k \in {"preview", "export"} => \E e \in Episodes : episodes[s][e] # None,
         UNCHANGED <<plan, episodes>>
  PROVE  OneRunning' /\ RowsFilled' /\ SnapshotIsApprovedPlan' /\ EvidenceIsApproved'
<1>1. PICK j \in Jobs :
        /\ NextRow(j)
        /\ kind' = [kind EXCEPT ![j] = k]
        /\ subject' = [subject EXCEPT ![j] = s]
        /\ payload' = [payload EXCEPT ![j] = p]
        /\ status' = [status EXCEPT ![j] = "queued"]
  BY DEF NewJob
<1>2. OneRunning'
  BY <1>1 DEF JobsInv, TypeOK, OneRunning
<1>3. RowsFilled'
  BY <1>1 DEF NewJob, JobsInv, TypeOK, RowsFilled
<1>4. SnapshotIsApprovedPlan'
  BY <1>1 DEF JobsInv, TypeOK, SnapshotIsApprovedPlan
<1>5. EvidenceIsApproved'
  BY DEF JobsInv, EvidenceIsApproved
<1>. QED BY <1>2, <1>3, <1>4, <1>5

\* A new job that is not a preflight leaves the preflights as they are.
LEMMA NewJobPreflight ==
  ASSUME JobsInv, NEW k \in Kinds \ {"preflight"}, NEW s \in Sources, NEW p \in OptVersions,
         NewJob(k, s, p), UNCHANGED <<plan, sourceStatus>>
  PROVE  OnePreflight'
<1>1. PICK j \in Jobs :
        /\ NextRow(j)
        /\ kind' = [kind EXCEPT ![j] = k]
        /\ subject' = [subject EXCEPT ![j] = s]
        /\ status' = [status EXCEPT ![j] = "queued"]
  BY DEF NewJob
<1>2. kind[j] = "none" BY <1>1 DEF NextRow, JobsInv, RowsFilled
<1>3. \A i \in Jobs : /\ kind'[i] = "preflight" <=> kind[i] = "preflight"
                      /\ i # j => subject'[i] = subject[i] /\ status'[i] = status[i]
  BY <1>1, <1>2 DEF JobsInv, TypeOK
<1>4. \A i \in Jobs : kind[i] = "preflight" => i # j
  BY <1>2
<1>. QED BY <1>3, <1>4 DEF JobsInv, OnePreflight

LEMMA AddSourceInv ==
  ASSUME JobsInv, TypeOK', NEW s \in Sources, AddSource(s)
  PROVE  JobsInv'
<1>1. OneRunning' /\ RowsFilled' /\ SnapshotIsApprovedPlan' /\ EvidenceIsApproved'
  BY NewJobInv DEF AddSource, Kinds, OptVersions
<1>2. PICK j \in Jobs :
        /\ NextRow(j)
        /\ kind' = [kind EXCEPT ![j] = "preflight"]
        /\ subject' = [subject EXCEPT ![j] = s]
        /\ status' = [status EXCEPT ![j] = "queued"]
  BY DEF AddSource, NewJob
<1>3. sourceStatus[s] = "none" /\ sourceStatus' = [sourceStatus EXCEPT ![s] = "preflight"]
      /\ plan' = plan
  BY DEF AddSource
<1>4. /\ \A i \in Jobs \ {j} : kind'[i] = kind[i] /\ subject'[i] = subject[i]
                              /\ status'[i] = status[i]
      /\ kind'[j] = "preflight" /\ subject'[j] = s /\ status'[j] = "queued"
      /\ \A r \in Sources \ {s} : sourceStatus'[r] = sourceStatus[r]
      /\ sourceStatus'[s] = "preflight"
  BY <1>2, <1>3 DEF JobsInv, TypeOK
<1>5. /\ \A i \in Jobs : kind[i] = "preflight" => subject[i] # s /\ i # j
      /\ plan[s] = None
      /\ \A i \in Jobs : kind[i] = "preflight" => subject[i] \in Sources
  BY <1>2, <1>3 DEF JobsInv, OnePreflight, RowsFilled, NextRow
<1>6. OnePreflight'
  <2>1. \A i, l \in Jobs : kind'[i] = "preflight" /\ kind'[l] = "preflight"
                           /\ subject'[i] = subject'[l] => i = l
    BY <1>4, <1>5 DEF JobsInv, OnePreflight
  <2>2. \A i \in Jobs : kind'[i] = "preflight" =>
           /\ sourceStatus'[subject'[i]] # "none"
           /\ status'[i] = "completed" <=> plan'[subject'[i]] # None
    BY <1>3, <1>4, <1>5 DEF JobsInv, OnePreflight
  <2>3. \A r \in Sources : plan'[r] # None <=> sourceStatus'[r] \in {"ready", "imported"}
    BY <1>3, <1>4, <1>5 DEF JobsInv, OnePreflight
  <2>4. \A r \in Sources : sourceStatus'[r] # "none" =>
           \E i \in Jobs : kind'[i] = "preflight" /\ subject'[i] = r
    <3>. SUFFICES ASSUME NEW r \in Sources, sourceStatus'[r] # "none"
                  PROVE  \E i \in Jobs : kind'[i] = "preflight" /\ subject'[i] = r
      OBVIOUS
    <3>1. CASE r = s BY <1>4, <3>1
    <3>2. CASE r # s
      <4>1. PICK i \in Jobs : kind[i] = "preflight" /\ subject[i] = r
        BY <1>4, <3>2 DEF JobsInv, OnePreflight
      <4>. QED BY <1>4, <1>5, <4>1
    <3>. QED BY <3>1, <3>2
  <2>. QED BY <2>1, <2>2, <2>3, <2>4 DEF OnePreflight
<1>. QED BY <1>1, <1>6 DEF JobsInv

LEMMA OperatorInv ==
  ASSUME JobsInv, Operator
  PROVE  JobsInv'
<1>0. TypeOK /\ TypeOK' BY OperatorType DEF JobsInv
<1>1. ASSUME NEW s \in Sources, AddSource(s) PROVE JobsInv'
  BY <1>0, <1>1, AddSourceInv
<1>2. ASSUME NEW s \in Sources, RequestImport(s) PROVE JobsInv'
  <2>1. plan[s] \in OptVersions BY <1>0 DEF TypeOK
  <2>2. OneRunning' /\ RowsFilled' /\ SnapshotIsApprovedPlan' /\ EvidenceIsApproved'
    BY <1>0, <1>2, <2>1, NewJobInv DEF RequestImport, Kinds, catalogVars
  <2>3. OnePreflight'
    BY <1>2, <2>1, NewJobPreflight DEF RequestImport, Kinds, catalogVars
  <2>. QED BY <1>0, <2>2, <2>3 DEF JobsInv
<1>3. ASSUME NEW s \in Sources, NEW k \in {"preview", "export"}, RequestRead(k, s)
      PROVE  JobsInv'
  <2>2. OneRunning' /\ RowsFilled' /\ SnapshotIsApprovedPlan' /\ EvidenceIsApproved'
    BY <1>0, <1>3, NewJobInv DEF RequestRead, Kinds, OptVersions, catalogVars
  <2>3. OnePreflight'
    BY <1>3, NewJobPreflight DEF RequestRead, Kinds, OptVersions, catalogVars
  <2>. QED BY <1>0, <2>2, <2>3 DEF JobsInv
<1>4. ASSUME NEW j \in Jobs, Cancel(j) \/ Retry(j) PROVE JobsInv'
  <2>0. /\ \A i \in Jobs \ {j} : status'[i] = status[i]
        /\ status[j] \notin {"none", "completed"}
        /\ status'[j] \notin {"none", "completed", "running"}
        /\ UNCHANGED <<kind, subject, payload, attempt, catalogVars>>
    BY <1>0, <1>4 DEF Cancel, Retry, ActiveJobs, TypeOK
  <2>1. OneRunning'
    BY <2>0 DEF JobsInv, OneRunning
  <2>2. RowsFilled'
    BY <2>0 DEF JobsInv, RowsFilled, catalogVars
  <2>3. SnapshotIsApprovedPlan' /\ EvidenceIsApproved'
    BY <2>0 DEF JobsInv, SnapshotIsApprovedPlan, EvidenceIsApproved, catalogVars
  <2>4. OnePreflight'
    BY <2>0 DEF JobsInv, OnePreflight, catalogVars
  <2>. QED BY <1>0, <2>1, <2>2, <2>3, <2>4 DEF JobsInv
<1>. QED BY <1>1, <1>2, <1>3, <1>4 DEF Operator

\* Reconciling makes no job run or complete, and leaves no job without a record.
LEMMA ReconciledRunning ==
  ASSUME TypeOK
  PROVE  \A j \in Jobs :
           /\ ReconciledStatus[j] = "running" => status[j] = "running"
           /\ ReconciledStatus[j] = "none" <=> status[j] = "none"
           /\ ReconciledStatus[j] = "completed" <=> status[j] = "completed"
BY DEF TypeOK, ReconciledStatus, Overdue

LEMMA LeaseInv ==
  ASSUME JobsInv, Tick \/ Reconcile \/ ClaimNothing \/ \E j \in Jobs : ClaimJob(j)
  PROVE  JobsInv'
<1>0. TypeOK /\ TypeOK' BY LeaseType DEF JobsInv
<1>1. UNCHANGED <<kind, subject, payload, plan, sourceStatus, episodes>>
  BY DEF Tick, Reconcile, ClaimNothing, ClaimJob, ReconcileRest, catalogVars
<1>2. SnapshotIsApprovedPlan' /\ EvidenceIsApproved'
  BY <1>1 DEF JobsInv, SnapshotIsApprovedPlan, EvidenceIsApproved
<1>. DEFINE Kept ==
       \A j \in Jobs : /\ status'[j] = "none" <=> status[j] = "none"
                       /\ status'[j] = "completed" <=> status[j] = "completed"
                       /\ status[j] = "none" => attempt'[j] = attempt[j]
<1>3. Kept
  <2>1. CASE Tick \/ Reconcile \/ ClaimNothing
    BY <1>0, <2>1, ReconciledRunning DEF Tick, Reconcile, ClaimNothing
  <2>2. ASSUME NEW i \in Jobs, ClaimJob(i) PROVE Kept
    <3>1. /\ status' = [ReconciledStatus EXCEPT ![i] = "running"]
          /\ attempt' = [attempt EXCEPT ![i] = @ + 1]
          /\ ReconciledStatus[i] = "queued"
      BY <2>2 DEF ClaimJob, Claimable
    <3>. QED BY <1>0, <3>1, ReconciledType, ReconciledRunning DEF TypeOK
  <2>. QED BY <2>1, <2>2
<1>4. RowsFilled' /\ OnePreflight'
  BY <1>1, <1>3 DEF JobsInv, RowsFilled, OnePreflight
<1>5. OneRunning'
  <2>1. CASE Tick
    BY <2>1 DEF Tick, JobsInv, OneRunning
  <2>2. CASE Reconcile \/ ClaimNothing
    BY <1>0, <2>2, ReconciledRunning DEF Reconcile, ClaimNothing, JobsInv, OneRunning
  <2>3. ASSUME NEW i \in Jobs, ClaimJob(i) PROVE OneRunning'
    BY <1>0, <2>3, ReconciledType DEF ClaimJob, Claimable, OneRunning
  <2>. QED BY <2>1, <2>2, <2>3
<1>. QED BY <1>0, <1>2, <1>4, <1>5 DEF JobsInv

(***************************************************************************)
(* Updates from the worker.                                                *)
(***************************************************************************)

\* What every accepted update has in common.
LEMMA UpdateFrame ==
  ASSUME JobsInv, NEW j \in Jobs, NEW a \in Nat, Update(j, a)
  PROVE  /\ TypeOK /\ TypeOK'
         /\ status[j] = "running" /\ subject[j] \in Sources /\ kind[j] \in Kinds
         /\ UNCHANGED <<kind, subject, payload, attempt>>
         /\ \A i \in Jobs \ {j} : status'[i] = status[i]
         /\ status'[j] \in Statuses \ {"none"}
<1>0. TypeOK /\ RowsFilled /\ TypeOK' BY UpdateType DEF JobsInv
<1>1. /\ status[j] = "running"
      /\ UNCHANGED <<kind, subject, payload, attempt>>
      /\ \A i \in Jobs \ {j} : status'[i] = status[i]
      /\ status'[j] \in Statuses \ {"none"}
  BY <1>0 DEF Update, Heartbeat, PublishEpisode, Fail, Complete, CanPublish,
              CanComplete, Accepts, TypeOK, Statuses
<1>. QED BY <1>0, <1>1 DEF RowsFilled

\* An update that leaves the catalog's plans, stages and episodes alone, and
\* completes no preflight.
LEMMA QuietUpdateInv ==
  ASSUME JobsInv, NEW j \in Jobs, NEW a \in Nat, Update(j, a),
         UNCHANGED <<plan, sourceStatus, episodes>>,
         kind[j] = "preflight" => status'[j] # "completed"
  PROVE  JobsInv'
<1>1. OneRunning' /\ RowsFilled'
  BY UpdateFrame DEF JobsInv, OneRunning, RowsFilled
<1>2. SnapshotIsApprovedPlan' /\ EvidenceIsApproved'
  BY UpdateFrame DEF JobsInv, SnapshotIsApprovedPlan, EvidenceIsApproved
<1>3. OnePreflight'
  BY UpdateFrame DEF JobsInv, OnePreflight
<1>. QED BY <1>1, <1>2, <1>3, UpdateFrame DEF JobsInv

LEMMA PublishInv ==
  ASSUME JobsInv, NEW j \in Jobs, NEW a \in Nat, NEW e \in Episodes,
         NEW v \in Versions, PublishEpisode(j, a, e, v)
  PROVE  JobsInv'
<1>. DEFINE s == subject[j]
<1>0. Update(j, a) BY DEF Update
<1>1. /\ v = plan[s] /\ v # None /\ UNCHANGED <<plan, sourceStatus, status>>
      /\ episodes' = [episodes EXCEPT ![s][e] = v]
      /\ s \in Sources
  BY <1>0, UpdateFrame
     DEF PublishEpisode, CanPublish, JobsInv, SnapshotIsApprovedPlan
<1>2. \A r \in Sources, d \in Episodes :
        episodes'[r][d] = episodes[r][d] \/ (episodes'[r][d] = v /\ r = s)
  BY <1>0, <1>1, UpdateFrame DEF TypeOK
<1>3. EvidenceIsApproved'
  BY <1>1, <1>2 DEF JobsInv, EvidenceIsApproved
<1>4. RowsFilled'
  <2>1. \A r \in Sources, d \in Episodes : episodes[r][d] # None => episodes'[r][d] # None
    BY <1>1, <1>2
  <2>. QED BY <1>0, <1>1, <2>1, UpdateFrame DEF JobsInv, RowsFilled
<1>5. OneRunning' /\ SnapshotIsApprovedPlan'
  BY <1>0, <1>1, UpdateFrame DEF JobsInv, OneRunning, SnapshotIsApprovedPlan
<1>6. OnePreflight'
  BY <1>0, <1>1, UpdateFrame DEF JobsInv, OnePreflight
<1>. QED BY <1>0, <1>3, <1>4, <1>5, <1>6, UpdateFrame DEF JobsInv

\* A preflight is approved once: its source had no plan while the job ran.
LEMMA ApproveInv ==
  ASSUME JobsInv, NEW j \in Jobs, NEW a \in Nat, NEW v \in OptVersions,
         NEW n \in 0..NumEpisodes, Complete(j, a, v, n), kind[j] = "preflight"
  PROVE  /\ JobsInv'
         /\ sourceStatus[subject[j]] = "preflight"
         /\ ApprovePlan(subject[j], v) /\ v # None
<1>. DEFINE s == subject[j]
<1>0. Update(j, a) BY DEF Update
<1>1. /\ s \in Sources /\ status'[j] = "completed" /\ v # None
      /\ ApprovePlan(s, v)
  BY <1>0, UpdateFrame DEF Complete, CanComplete, TypeOK
<1>2. plan[s] = None /\ sourceStatus[s] = "preflight"
  <2>1. status[j] = "running" BY <1>0, UpdateFrame
  <2>2. sourceStatus[s] \in {"none", "preflight", "ready", "imported"}
    BY <1>0, <1>1, UpdateFrame DEF TypeOK
  <2>. QED BY <1>1, <2>1, <2>2 DEF JobsInv, OnePreflight
<1>3. /\ plan'[s] = v /\ sourceStatus'[s] = "ready" /\ episodes' = episodes
      /\ \A r \in Sources \ {s} : plan'[r] = plan[r] /\ sourceStatus'[r] = sourceStatus[r]
  BY <1>0, <1>1, UpdateFrame DEF ApprovePlan, TypeOK
<1>4. SnapshotIsApprovedPlan'
  <2>. SUFFICES ASSUME NEW i \in Jobs, kind[i] = "import"
                PROVE  payload[i] = plan'[subject[i]]
    BY <1>0, UpdateFrame DEF SnapshotIsApprovedPlan
  <2>1. payload[i] = plan[subject[i]] /\ payload[i] # None /\ subject[i] \in Sources
    <3>1. status[i] # "none" BY DEF JobsInv, RowsFilled
    <3>. QED BY <3>1 DEF JobsInv, RowsFilled, SnapshotIsApprovedPlan
  <2>. QED BY <1>2, <1>3, <2>1
<1>5. EvidenceIsApproved' BY <1>2, <1>3 DEF JobsInv, EvidenceIsApproved
<1>6. OneRunning' /\ RowsFilled'
  BY <1>0, <1>3, UpdateFrame DEF JobsInv, OneRunning, RowsFilled
<1>7. OnePreflight'
  <2>1. \A i \in Jobs : kind[i] = "preflight" => subject[i] \in Sources
    BY DEF JobsInv, RowsFilled
  <2>2. \A i \in Jobs : kind[i] = "preflight" /\ i # j => subject[i] # s
    BY DEF JobsInv, OnePreflight
  <2>. QED BY <1>0, <1>1, <1>3, <2>1, <2>2, UpdateFrame DEF JobsInv, OnePreflight
<1>. QED BY <1>0, <1>1, <1>2, <1>4, <1>5, <1>6, <1>7, UpdateFrame DEF JobsInv

LEMMA FinishInv ==
  ASSUME JobsInv, NEW j \in Jobs, NEW a \in Nat, NEW v \in OptVersions,
         NEW n \in 0..NumEpisodes, Complete(j, a, v, n), kind[j] = "import"
  PROVE  JobsInv' /\ FinishImport(subject[j])
<1>. DEFINE s == subject[j]
<1>0. Update(j, a) BY DEF Update
<1>1. FinishImport(s) BY DEF Complete
<1>2. /\ UNCHANGED <<plan, episodes>> /\ s \in Sources
      /\ sourceStatus'[s] = "imported"
      /\ \A r \in Sources \ {s} : sourceStatus'[r] = sourceStatus[r]
  BY <1>0, <1>1, UpdateFrame DEF FinishImport, TypeOK
<1>3. plan[s] # None /\ sourceStatus[s] \in {"ready", "imported"}
  BY <1>2 DEF JobsInv, RowsFilled, SnapshotIsApprovedPlan, OnePreflight
<1>4. OneRunning' /\ RowsFilled' /\ SnapshotIsApprovedPlan' /\ EvidenceIsApproved'
  BY <1>0, <1>2, UpdateFrame
     DEF JobsInv, OneRunning, RowsFilled, SnapshotIsApprovedPlan, EvidenceIsApproved
<1>5. OnePreflight'
  <2>1. \A r \in Sources : /\ sourceStatus'[r] = "none" <=> sourceStatus[r] = "none"
                           /\ sourceStatus'[r] \in {"ready", "imported"}
                                <=> sourceStatus[r] \in {"ready", "imported"}
    BY <1>2, <1>3
  <2>2. \A i \in Jobs : kind[i] = "preflight" => subject[i] \in Sources /\ i # j
    BY DEF JobsInv, RowsFilled
  <2>. QED BY <1>0, <1>2, <2>1, <2>2, UpdateFrame DEF JobsInv, OnePreflight
<1>. QED BY <1>0, <1>1, <1>4, <1>5, UpdateFrame DEF JobsInv

LEMMA UpdateInv ==
  ASSUME JobsInv, NEW j \in Jobs, NEW a \in Nat, Update(j, a)
  PROVE  JobsInv'
<1>1. CASE Heartbeat(j, a) \/ Fail(j, a)
  <2>1. status[j] = "running" /\ (status' = status \/ status'[j] = "failed")
    BY <1>1, UpdateFrame DEF Heartbeat, Fail, TypeOK
  <2>2. UNCHANGED <<plan, sourceStatus, episodes>>
    BY <1>1 DEF Heartbeat, Fail, catalogVars
  <2>. QED BY <2>1, <2>2, QuietUpdateInv
<1>2. ASSUME NEW e \in Episodes, NEW v \in Versions, PublishEpisode(j, a, e, v)
      PROVE  JobsInv'
  BY <1>2, PublishInv
<1>3. ASSUME NEW v \in OptVersions, NEW n \in 0..NumEpisodes, Complete(j, a, v, n)
      PROVE  JobsInv'
  <2>1. CASE kind[j] = "preflight" BY <1>3, <2>1, ApproveInv
  <2>2. CASE kind[j] = "import" BY <1>3, <2>2, FinishInv
  <2>3. CASE kind[j] \notin {"preflight", "import"}
    <3>1. UNCHANGED <<plan, sourceStatus, episodes>>
      BY <1>3, <2>3 DEF Complete, RegisterExport, catalogVars
    <3>. QED BY <2>3, <3>1, QuietUpdateInv
  <2>. QED BY <2>1, <2>2, <2>3
<1>. QED BY <1>1, <1>2, <1>3 DEF Update

LEMMA StutterInv == JobsInv /\ UNCHANGED apiVars => JobsInv'
BY DEF JobsInv, apiVars, TypeOK, OneRunning, RowsFilled, SnapshotIsApprovedPlan,
       EvidenceIsApproved, OnePreflight

LEMMA InvStep == JobsInv /\ [Next]_apiVars => JobsInv'
<1>. SUFFICES ASSUME JobsInv, [Next]_apiVars PROVE JobsInv'
  OBVIOUS
<1>1. CASE Operator BY <1>1, OperatorInv
<1>2. CASE Tick \/ Reconcile \/ ClaimNothing \/ \E j \in Jobs : ClaimJob(j)
  BY <1>2, LeaseInv
<1>3. ASSUME NEW j \in Jobs, NEW a \in 1..attempt[j], Update(j, a) PROVE JobsInv'
  <2>1. a \in Nat BY DEF JobsInv, TypeOK
  <2>. QED BY <1>3, <2>1, UpdateInv
<1>4. CASE UNCHANGED apiVars BY <1>4, StutterInv
<1>. QED BY <1>1, <1>2, <1>3, <1>4 DEF Next

LEMMA InvAlways == Spec => []JobsInv
BY InvInit, InvStep, PTL DEF Spec

(***************************************************************************)
(* What no step takes back.                                                *)
(***************************************************************************)

\* A record keeps its identity, and no attempt number is ever reused.
RecordsGrow ==
  \A j \in Jobs :
    /\ status[j] # "none" => /\ kind'[j] = kind[j] /\ subject'[j] = subject[j]
                             /\ payload'[j] = payload[j] /\ status'[j] # "none"
    /\ attempt[j] <= attempt'[j]

LEMMA NewJobGrows ==
  ASSUME TypeOK, NEW k, NEW s, NEW p, NewJob(k, s, p)
  PROVE  RecordsGrow
BY DEF NewJob, NextRow, TypeOK, RecordsGrow

LEMMA CatalogSame ==
  ASSUME TypeOK, UNCHANGED <<plan, sourceStatus, episodes>>
  PROVE  CatalogGrows
BY DEF TypeOK, CatalogGrows, Stage

LEMMA OperatorGrows ==
  ASSUME JobsInv, Operator
  PROVE  RecordsGrow /\ CatalogGrows
<1>0. TypeOK BY DEF JobsInv
<1>1. ASSUME NEW s \in Sources, AddSource(s) PROVE RecordsGrow /\ CatalogGrows
  <2>1. RecordsGrow BY <1>0, <1>1, NewJobGrows DEF AddSource
  <2>2. /\ sourceStatus[s] = "none" /\ sourceStatus'[s] = "preflight"
        /\ \A r \in Sources \ {s} : sourceStatus'[r] = sourceStatus[r]
        /\ UNCHANGED <<plan, episodes>>
    BY <1>0, <1>1 DEF AddSource, TypeOK
  <2>. QED BY <1>0, <2>1, <2>2 DEF TypeOK, CatalogGrows, Stage
<1>2. ASSUME NEW s \in Sources, RequestImport(s) PROVE RecordsGrow /\ CatalogGrows
  BY <1>0, <1>2, NewJobGrows, CatalogSame DEF RequestImport, catalogVars
<1>3. ASSUME NEW s \in Sources, NEW k \in {"preview", "export"}, RequestRead(k, s)
      PROVE  RecordsGrow /\ CatalogGrows
  BY <1>0, <1>3, NewJobGrows, CatalogSame DEF RequestRead, catalogVars
<1>4. ASSUME NEW j \in Jobs, Cancel(j) \/ Retry(j) PROVE RecordsGrow /\ CatalogGrows
  <2>1. RecordsGrow BY <1>0, <1>4 DEF Cancel, Retry, TypeOK, RecordsGrow
  <2>2. CatalogGrows BY <1>0, <1>4, CatalogSame DEF Cancel, Retry, catalogVars
  <2>. QED BY <2>1, <2>2
<1>. QED BY <1>1, <1>2, <1>3, <1>4 DEF Operator

LEMMA LeaseGrows ==
  ASSUME JobsInv, Tick \/ Reconcile \/ ClaimNothing \/ \E j \in Jobs : ClaimJob(j)
  PROVE  RecordsGrow /\ CatalogGrows
<1>0. TypeOK BY DEF JobsInv
<1>1. UNCHANGED <<kind, subject, payload, plan, sourceStatus, episodes>>
  BY DEF Tick, Reconcile, ClaimNothing, ClaimJob, ReconcileRest, catalogVars
<1>2. CASE Tick \/ Reconcile \/ ClaimNothing
  BY <1>0, <1>1, <1>2, CatalogSame, ReconciledRunning
     DEF Tick, Reconcile, ClaimNothing, TypeOK, RecordsGrow
<1>3. ASSUME NEW j \in Jobs, ClaimJob(j) PROVE RecordsGrow /\ CatalogGrows
  <2>1. /\ status' = [ReconciledStatus EXCEPT ![j] = "running"]
        /\ attempt' = [attempt EXCEPT ![j] = @ + 1]
    BY <1>3 DEF ClaimJob
  <2>. QED BY <1>0, <1>1, <2>1, CatalogSame, ReconciledType, ReconciledRunning
           DEF TypeOK, RecordsGrow
<1>. QED BY <1>2, <1>3

LEMMA UpdateGrows ==
  ASSUME JobsInv, NEW j \in Jobs, NEW a \in Nat, Update(j, a)
  PROVE  RecordsGrow /\ CatalogGrows
<1>0. TypeOK /\ TypeOK' BY UpdateFrame
<1>1. RecordsGrow
  <2>1. \A i \in Jobs : status[i] # "none" => status'[i] # "none"
    BY UpdateFrame
  <2>2. \A i \in Jobs : attempt[i] <= attempt'[i]
    BY <1>0, UpdateFrame DEF TypeOK
  <2>. QED BY <2>1, <2>2, UpdateFrame DEF RecordsGrow
<1>2. CASE Heartbeat(j, a) \/ Fail(j, a)
  BY <1>0, <1>1, <1>2, CatalogSame DEF Heartbeat, Fail, catalogVars
<1>3. ASSUME NEW e \in Episodes, NEW v \in Versions, PublishEpisode(j, a, e, v)
      PROVE  CatalogGrows
  <2>1. /\ episodes[subject[j]][e] \in {None, v} /\ UNCHANGED <<plan, sourceStatus>>
        /\ episodes' = [episodes EXCEPT ![subject[j]][e] = v]
    BY <1>3 DEF PublishEpisode, CanPublish
  <2>2. \A s \in Sources, d \in Episodes :
          episodes[s][d] # None => episodes'[s][d] = episodes[s][d]
    BY <1>0, <2>1, UpdateFrame DEF TypeOK
  <2>3. \A s \in Sources : Stage[sourceStatus[s]] <= Stage[sourceStatus'[s]]
    BY <1>0, <2>1 DEF TypeOK, Stage
  <2>. QED BY <2>1, <2>2, <2>3 DEF CatalogGrows
<1>4. ASSUME NEW v \in OptVersions, NEW n \in 0..NumEpisodes, Complete(j, a, v, n)
      PROVE  CatalogGrows
  <2>1. CASE kind[j] = "preflight"
    <3>1. /\ sourceStatus[subject[j]] = "preflight" /\ plan[subject[j]] = None
          /\ ApprovePlan(subject[j], v)
      BY <1>4, <2>1, ApproveInv, UpdateFrame DEF JobsInv, OnePreflight
    <3>. QED BY <1>0, <3>1, UpdateFrame DEF ApprovePlan, TypeOK, CatalogGrows, Stage
  <2>2. CASE kind[j] = "import"
    BY <1>0, <1>4, <2>2, FinishInv, UpdateFrame DEF FinishImport, TypeOK, CatalogGrows, Stage
  <2>3. CASE kind[j] \notin {"preflight", "import"}
    BY <1>0, <1>4, <2>3, CatalogSame DEF Complete, RegisterExport, catalogVars
  <2>. QED BY <2>1, <2>2, <2>3
<1>. QED BY <1>1, <1>2, <1>3, <1>4 DEF Update

LEMMA StepGrows ==
  ASSUME JobsInv, [Next]_apiVars
  PROVE  RecordsGrow /\ CatalogGrows
<1>0. TypeOK BY DEF JobsInv
<1>1. CASE Operator BY <1>1, OperatorGrows
<1>2. CASE Tick \/ Reconcile \/ ClaimNothing \/ \E j \in Jobs : ClaimJob(j)
  BY <1>2, LeaseGrows
<1>3. ASSUME NEW j \in Jobs, NEW a \in 1..attempt[j], Update(j, a)
      PROVE  RecordsGrow /\ CatalogGrows
  <2>1. a \in Nat BY <1>0 DEF TypeOK
  <2>. QED BY <1>3, <2>1, UpdateGrows
<1>4. CASE UNCHANGED apiVars
  BY <1>0, <1>4, CatalogSame DEF apiVars, TypeOK, RecordsGrow
<1>. QED BY <1>1, <1>2, <1>3, <1>4 DEF Next

(***************************************************************************)
(* The theorems.                                                           *)
(***************************************************************************)

\* The job table and the catalog stay well-formed under every handler.
THEOREM TypeCorrect == Spec => []TypeOK
<1>1. JobsInv => TypeOK BY DEF JobsInv
<1>. QED BY <1>1, InvAlways, PTL

\* The claim handler never lets two jobs run, for any queue, any lease length
\* and any sequence of cancellations, retries and expiries.
THEOREM AtMostOneRunning == Spec => []OneRunning
<1>1. JobsInv => OneRunning BY DEF JobsInv
<1>. QED BY <1>1, InvAlways, PTL

\* The plan an import job carries never goes stale.
THEOREM SnapshotStaysApproved == Spec => []SnapshotIsApprovedPlan
<1>1. JobsInv => SnapshotIsApprovedPlan BY DEF JobsInv
<1>. QED BY <1>1, InvAlways, PTL

\* Whatever a worker sends, committed episodes show the approved contents.
THEOREM EvidenceStaysApproved == Spec => []EvidenceIsApproved
<1>1. JobsInv => EvidenceIsApproved BY DEF JobsInv
<1>. QED BY <1>1, InvAlways, PTL

\* A source is past preflight exactly when its one preflight job completed.
THEOREM PreflightAlwaysDecides == Spec => []PreflightDecides
<1>1. JobsInv => PreflightDecides
  <2>. SUFFICES ASSUME JobsInv, NEW s \in Sources
                PROVE  sourceStatus[s] \in {"ready", "imported"}
                         <=> \E j \in Jobs : /\ kind[j] = "preflight" /\ subject[j] = s
                                             /\ status[j] = "completed"
    BY DEF PreflightDecides
  <2>1. ASSUME sourceStatus[s] \in {"ready", "imported"}
        PROVE  \E j \in Jobs : /\ kind[j] = "preflight" /\ subject[j] = s
                               /\ status[j] = "completed"
    BY <2>1 DEF JobsInv, OnePreflight
  <2>2. ASSUME NEW j \in Jobs, kind[j] = "preflight", subject[j] = s,
               status[j] = "completed"
        PROVE  sourceStatus[s] \in {"ready", "imported"}
    BY <2>2 DEF JobsInv, OnePreflight
  <2>. QED BY <2>1, <2>2
<1>. QED BY <1>1, InvAlways, PTL

\* Approved plans and committed episodes are never taken back.
THEOREM CatalogIsDurable == Spec => Durable
<1>1. JobsInv /\ [Next]_apiVars => [CatalogGrows]_apiVars
  BY StepGrows
<1>. QED BY <1>1, InvAlways, PTL DEF Spec, Durable

-----------------------------------------------------------------------------
(***************************************************************************)
(* The API together with its worker.                                       *)
(***************************************************************************)

Msgs == {req[t] : t \in Threads} \cup late

\* What SystemInv says of one lease or message.
GoodToken(l) == l.job # 0 => l.attempt \in 1..attempt[l.job]
GoodMsg(m) ==
  /\ GoodToken(m)
  /\ m.type \in {"none", "claim"} <=> m.job = 0
  /\ m.type = "episode" => m.episode # 0
  /\ m.type = "completed" /\ kind[m.job] = "import" => AllCommitted(m.job)

LEMMA MsgsGood ==
  ASSUME SystemInv
  PROVE  /\ Msgs \subseteq Messages
         /\ GoodToken(lease) /\ \A m \in Msgs : GoodMsg(m)
BY DEF SystemInv, SystemTypeOK, Msgs, GoodMsg, GoodToken, TokensWereHandedOut, MessagesTrue

LEMMA GoodMsgs ==
  ASSUME (GoodToken(lease) /\ \A m \in Msgs : GoodMsg(m))'
  PROVE  TokensWereHandedOut' /\ MessagesTrue'
BY DEF Msgs, GoodMsg, GoodToken, TokensWereHandedOut, MessagesTrue

LEMMA NoMsgGood ==
  /\ NoMsg \in Messages /\ NoLease \in Leases
  /\ NoMsg.type = "none" /\ NoMsg.job = 0 /\ NoLease.job = 0
BY ConstantsAssumption DEF NoMsg, NoLease, Msg, Messages, Leases, Types, OptVersions

\* Whoever was handed an attempt number names an existing record.
LEMMA HandedOut ==
  ASSUME JobsInv, NEW j \in 1..MaxJobs, attempt[j] # 0
  PROVE  j \in Jobs /\ status[j] # "none" /\ subject[j] \in Sources /\ kind[j] \in Kinds
BY DEF JobsInv, RowsFilled, Jobs

(***************************************************************************)
(* Every step of the system is a step of the API, or none.                 *)
(***************************************************************************)

LEMMA ApplyIsUpdate ==
  ASSUME SystemInv, NEW m \in Messages, GoodMsg(m), Apply(m)
  PROVE  /\ m.job \in Jobs /\ m.attempt \in 1..attempt[m.job]
         /\ Update(m.job, m.attempt)
<1>1. m.type \notin {"none", "claim"} BY DEF Apply
<1>2. m.job \in Jobs /\ m.attempt \in 1..attempt[m.job]
  BY <1>1 DEF GoodMsg, GoodToken, Messages, Jobs
<1>3. CASE m.type = "beat" BY <1>2, <1>3 DEF Apply, Update
<1>4. CASE m.type = "failed" BY <1>2, <1>4 DEF Apply, Update
<1>5. CASE m.type = "episode"
  <2>1. PublishEpisode(m.job, m.attempt, m.episode, m.found) BY <1>5 DEF Apply
  <2>2. m.episode \in Episodes BY <1>5 DEF GoodMsg, Messages, Episodes
  <2>3. m.found \in Versions
    BY <2>1 DEF PublishEpisode, CanPublish, Messages, OptVersions
  <2>. QED BY <1>2, <2>1, <2>2, <2>3 DEF Update
<1>6. CASE m.type = "completed"
  <2>1. m.found \in OptVersions /\ m.episode \in 0..NumEpisodes BY DEF Messages
  <2>. QED BY <1>2, <1>6, <2>1 DEF Apply, Update
<1>. QED BY <1>2, <1>3, <1>4, <1>5, <1>6 DEF Apply

LEMMA ApplyIsNext ==
  ASSUME SystemInv, NEW m \in Messages, GoodMsg(m), Apply(m)
  PROVE  Next
BY ApplyIsUpdate DEF Next

LEMMA SystemStepIsApiStep ==
  ASSUME SystemInv, [SystemNext]_vars
  PROVE  [Next]_apiVars
<1>1. CASE ApiStep BY <1>1 DEF ApiStep, Next
<1>2. CASE Main
  BY <1>2 DEF Main, Claim, Preflight, CompareFiles, AnnounceEpisode, InspectEpisode,
              FinishEpisodes, Read, Raise, ReportFailure, GiveUp, ReceiveJob,
              ReceiveNothing, ReceiveOk, ReceiveError, Send, Report, Leave, Resume
<1>3. CASE Beat \/ BeatAnswered \/ Start \/ Crash
  BY <1>3 DEF Beat, BeatAnswered, Start, Crash
<1>4. CASE ServeClaim BY <1>4 DEF ServeClaim, Next
<1>5. ASSUME NEW t \in Threads, ServeUpdate(t) \/ Timeout(t) PROVE [Next]_apiVars
  <2>1. req[t] \in Messages /\ GoodMsg(req[t]) BY MsgsGood DEF Msgs
  <2>. QED BY <1>5, <2>1, ApplyIsNext DEF ServeUpdate, Timeout
<1>6. ASSUME NEW m \in late, ServeLate(m) PROVE [Next]_apiVars
  <2>1. m \in Messages /\ GoodMsg(m) BY MsgsGood DEF Msgs
  <2>. QED BY <1>6, <2>1, ApplyIsNext DEF ServeLate, Next
<1>7. ASSUME NEW s \in Sources, ChangeFiles(s) PROVE [Next]_apiVars
  BY <1>7 DEF ChangeFiles
<1>8. CASE UNCHANGED vars BY <1>8 DEF vars, apiVars
<1>. QED BY <1>1, <1>2, <1>3, <1>4, <1>5, <1>6, <1>7, <1>8 DEF SystemNext

(***************************************************************************)
(* What is said of the catalog stays true.                                 *)
(***************************************************************************)

LEMMA CommittedStays ==
  ASSUME JobsInv, [Next]_apiVars, NEW j \in Jobs, status[j] # "none", kind[j] = "import",
         NEW e \in Episodes, episodes[subject[j]][e] = payload[j]
  PROVE  episodes'[subject'[j]][e] = payload'[j]
<1>1. payload[j] # None /\ subject[j] \in Sources BY DEF JobsInv, RowsFilled
<1>. QED BY <1>1, StepGrows DEF RecordsGrow, CatalogGrows

LEMMA GoodTokenStays ==
  ASSUME JobsInv, [Next]_apiVars, NEW l, l.job \in 0..MaxJobs, GoodToken(l)
  PROVE  GoodToken(l)'
<1>1. JobsInv' BY InvStep
<1>2. ASSUME l.job # 0 PROVE l.attempt \in 1..attempt'[l.job]
  <2>1. l.job \in Jobs /\ l.attempt \in 1..attempt[l.job]
    BY <1>2, ConstantsAssumption DEF GoodToken, Jobs
  <2>2. /\ attempt[l.job] <= attempt'[l.job]
        /\ attempt[l.job] \in Nat /\ attempt'[l.job] \in Nat
    BY <1>1, <2>1, StepGrows DEF RecordsGrow, JobsInv, TypeOK
  <2>. QED BY <2>1, <2>2
<1>. QED BY <1>2 DEF GoodToken

LEMMA GoodMsgStays ==
  ASSUME JobsInv, [Next]_apiVars, NEW m \in Messages, GoodMsg(m)
  PROVE  GoodMsg(m)'
<1>1. GoodToken(m)' BY GoodTokenStays DEF GoodMsg, Messages
<1>2. ASSUME m.type = "completed", kind'[m.job] = "import" PROVE AllCommitted(m.job)'
  <2>1. m.job \in 1..MaxJobs /\ attempt[m.job] # 0 /\ status[m.job] # "none"
    <3>1. m.job # 0 BY <1>2 DEF GoodMsg
    <3>2. m.job \in 1..MaxJobs BY <3>1, ConstantsAssumption DEF Messages
    <3>3. m.attempt \in 1..attempt[m.job] BY <3>1 DEF GoodMsg, GoodToken
    <3>4. attempt[m.job] \in Nat BY <3>2 DEF JobsInv, TypeOK, Jobs
    <3>5. attempt[m.job] # 0 BY <3>3, <3>4
    <3>. QED BY <3>2, <3>5, HandedOut
  <2>2. kind[m.job] = "import" BY <1>2, <2>1, StepGrows DEF RecordsGrow, Jobs
  <2>. QED BY <1>2, <2>1, <2>2, CommittedStays DEF GoodMsg, AllCommitted, Jobs
<1>. QED BY <1>1, <1>2 DEF GoodMsg

\* Tokens and messages stay good when the lease is and one good message is added ...
LEMMA OneNewMessage ==
  ASSUME SystemInv, [Next]_apiVars, GoodToken(lease)',
         NEW n, GoodMsg(n)', Msgs' \subseteq Msgs \cup {n}
  PROVE  TokensWereHandedOut' /\ MessagesTrue'
<1>1. \A m \in Msgs : m \in Messages /\ GoodMsg(m) BY MsgsGood
<1>2. \A m \in Msgs : GoodMsg(m)' BY <1>1, GoodMsgStays DEF SystemInv
<1>3. (\A m \in Msgs : GoodMsg(m))' BY <1>2
<1>. QED BY <1>3, GoodMsgs

LEMMA LeaseStaysGood ==
  ASSUME SystemInv, [Next]_apiVars, lease' \in {lease, NoLease}
  PROVE  GoodToken(lease)'
<1>1. CASE lease' = NoLease BY <1>1, NoMsgGood DEF GoodToken
<1>2. CASE lease' = lease
  <2>1. lease.job \in 0..MaxJobs BY DEF SystemInv, SystemTypeOK, Leases
  <2>2. lease'.job # 0 => lease'.attempt \in 1..attempt'[lease'.job]
    BY <1>2, <2>1, MsgsGood, GoodTokenStays DEF SystemInv, GoodToken
  <2>. QED BY <2>2 DEF GoodToken
<1>. QED BY <1>1, <1>2

\* ... and when nothing new is sent.
LEMMA NoNewMessage ==
  ASSUME SystemInv, [Next]_apiVars, lease' \in {lease, NoLease},
         Msgs' \subseteq Msgs \cup {NoMsg}
  PROVE  TokensWereHandedOut' /\ MessagesTrue'
<1>1. GoodMsg(NoMsg)' BY NoMsgGood DEF GoodMsg, GoodToken
<1>. QED BY <1>1, LeaseStaysGood, OneNewMessage

(***************************************************************************)
(* The inductive invariant, part by part.                                  *)
(***************************************************************************)

LEMMA SystemInvInit == SystemInit => SystemInv
<1>. SUFFICES ASSUME SystemInit PROVE SystemInv OBVIOUS
<1>1. JobsInv BY InvInit DEF SystemInit
<1>2. /\ req = [t \in Threads |-> NoMsg] /\ late = {} /\ pc = "down" /\ lease = NoLease
      /\ reply = [t \in Threads |-> "pending"] /\ acked = 0 /\ lost = FALSE /\ faults = 0
      /\ disk \in [Sources -> Versions]
  BY DEF SystemInit
<1>3. SystemTypeOK
  <2>1. TypeOK BY <1>1 DEF JobsInv
  <2>2. acked \in 0..NumEpisodes /\ faults \in 0..MaxFaults
    BY <1>2, ConstantsAssumption, FaultsAssumption
  <2>3. req \in [Threads -> Messages] BY <1>2, NoMsgGood
  <2>4. reply \in [Threads -> {"pending", "ok", "error"}] BY <1>2
  <2>. QED BY <1>2, <2>1, <2>2, <2>3, <2>4, NoMsgGood DEF SystemTypeOK
<1>4. \A t \in Threads : req[t] = NoMsg BY <1>2
<1>5. TokensWereHandedOut /\ MessagesTrue
  BY <1>2, <1>4, NoMsgGood DEF TokensWereHandedOut, MessagesTrue
<1>6. MainThread
  BY <1>2, <1>4, NoMsgGood DEF MainThread, Waiting, Working, Executing, Threads
<1>7. AcknowledgedIsCommitted
  BY <1>2 DEF AcknowledgedIsCommitted, Executing, Waiting, Working
<1>8. ImportedIsComplete BY DEF SystemInit, Init, ImportedIsComplete
<1>. QED BY <1>1, <1>3, <1>5, <1>6, <1>7, <1>8 DEF SystemInv

LEMMA MsgType ==
  ASSUME NEW type \in Types, NEW l \in Leases, NEW e \in 0..NumEpisodes, NEW v \in OptVersions
  PROVE  /\ Msg(type, l, e, v) \in Messages
         /\ Msg(type, l, e, v).type = type /\ Msg(type, l, e, v).job = l.job
         /\ Msg(type, l, e, v).attempt = l.attempt
         /\ Msg(type, l, e, v).episode = e /\ Msg(type, l, e, v).found = v
BY DEF Msg, Messages, Leases

\* A request of the main thread: what it says is good and everything else stays.
LEMMA SendInv ==
  ASSUME SystemInv, NEW m \in Messages, GoodMsg(m), NEW next \in Waiting, Send(next, m),
         pc \in Working \cup {"idle"}, m.type = RequestAt[next],
         next # "claiming" => Executing,
         next \in {"announcing", "publishing"} =>
            kind[lease.job] = "import" /\ acked < NumEpisodes,
         next = "publishing" => m.job = lease.job /\ m.episode = acked + 1
  PROVE  SystemInv'
<1>1. UNCHANGED <<apiVars, disk, lease, acked, lost, reply, late, faults>>
      /\ pc' = next /\ req' = [req EXCEPT !["main"] = m]
  BY DEF Send
<1>2. [Next]_apiVars BY <1>1
<1>3. JobsInv' /\ TypeOK' BY <1>2, InvStep DEF SystemInv, JobsInv
<1>4. SystemTypeOK' BY <1>1, <1>3 DEF SystemInv, SystemTypeOK, Threads
<1>5. Msgs' \subseteq Msgs \cup {m}
  BY <1>1 DEF Msgs, Threads, SystemInv, SystemTypeOK
<1>6. GoodMsg(m)' BY <1>2, GoodMsgStays DEF SystemInv
<1>7. TokensWereHandedOut' /\ MessagesTrue'
  BY <1>1, <1>2, <1>5, <1>6, OneNewMessage, LeaseStaysGood
<1>8. ImportedIsComplete' BY <1>1 DEF SystemInv, ImportedIsComplete, apiVars
<1>9. AcknowledgedIsCommitted'
  BY <1>1 DEF SystemInv, AcknowledgedIsCommitted, Executing, Source, apiVars, Working, Waiting
<1>10. MainThread'
  <2>1. reply["main"] = "pending" /\ req'["main"] = m /\ req'["beat"] = req["beat"]
    BY <1>1 DEF SystemInv, MainThread, Working, Waiting, SystemTypeOK, Threads
  <2>. QED
    BY <1>1, <2>1
    DEF SystemInv, MainThread, Executing, Source, apiVars, Working, Waiting
<1>. QED BY <1>3, <1>4, <1>7, <1>8, <1>9, <1>10 DEF SystemInv

\* The job being executed has a record, and keeps its kind.
LEMMA LeaseRecord ==
  ASSUME SystemInv, Executing
  PROVE  lease.job \in Jobs /\ status[lease.job] # "none" /\ attempt[lease.job] # 0
<1>1. lease.job \in 1..MaxJobs
  BY ConstantsAssumption DEF SystemInv, MainThread, SystemTypeOK, Leases
<1>2. lease.attempt \in 1..attempt[lease.job] BY <1>1, MsgsGood DEF GoodToken
<1>3. attempt[lease.job] \in Nat BY <1>1 DEF SystemInv, JobsInv, TypeOK, Jobs
<1>4. attempt[lease.job] # 0 BY <1>2, <1>3
<1>. QED BY <1>1, <1>4, HandedOut DEF SystemInv

LEMMA LeaseKeepsKind ==
  ASSUME SystemInv, [Next]_apiVars, Executing
  PROVE  kind'[lease.job] = kind[lease.job] /\ status'[lease.job] # "none"
BY LeaseRecord, StepGrows DEF RecordsGrow, SystemInv

LEMMA StoredStays ==
  ASSUME SystemInv, [Next]_apiVars, Executing, kind[lease.job] = "import",
         NEW e \in Episodes, episodes[Source][e] = payload[lease.job]
  PROVE  episodes'[subject'[lease.job]][e] = payload'[lease.job]
BY LeaseRecord, CommittedStays DEF SystemInv, Source

\* A step that leaves the main thread where it is.
LEMMA SameWorker ==
  ASSUME SystemInv, [Next]_apiVars, lease' = lease, pc' = pc, acked' = acked,
         req'["main"] = req["main"], req'["beat"].type \in {"none", "beat"},
         \/ reply'["main"] = reply["main"]
         \/ pc \in Waiting /\ reply'["main"] = "error"
         \/ /\ pc \in Waiting
            /\ pc = "publishing" => episodes'[subject'[lease.job]][acked + 1] = payload'[lease.job]
  PROVE  AcknowledgedIsCommitted' /\ MainThread'
<1>1. Executing' = Executing BY DEF Executing
<1>2. AcknowledgedIsCommitted'
  <2>. SUFFICES ASSUME Executing, kind'[lease.job] = "import", NEW e \in 1..acked
                PROVE  episodes'[subject'[lease.job]][e] = payload'[lease.job]
    BY <1>1 DEF AcknowledgedIsCommitted, Source
  <2>1. kind[lease.job] = "import" BY LeaseKeepsKind
  <2>2. e \in Episodes BY ConstantsAssumption DEF Episodes, SystemInv, SystemTypeOK
  <2>3. episodes[Source][e] = payload[lease.job]
    BY <2>1 DEF SystemInv, AcknowledgedIsCommitted
  <2>. QED BY <2>1, <2>2, <2>3, StoredStays
<1>3. pc' = "publishing" /\ reply'["main"] = "ok" =>
        episodes'[Source'][acked' + 1] = payload'[lease'.job]
  <2>. SUFFICES ASSUME pc = "publishing", reply["main"] = "ok"
                PROVE  episodes'[subject'[lease.job]][acked + 1] = payload'[lease.job]
    BY DEF Source
  <2>1. Executing BY DEF Executing, Waiting, Working
  <2>2. kind[lease.job] = "import" /\ acked + 1 \in Episodes
    BY ConstantsAssumption DEF SystemInv, MainThread, SystemTypeOK, Episodes
  <2>3. episodes[Source][acked + 1] = payload[lease.job] BY DEF SystemInv, MainThread
  <2>. QED BY <2>1, <2>2, <2>3, StoredStays
<1>4. pc' \in {"announce", "announcing", "inspect", "publishing"} => kind'[lease'.job] = "import"
  <2>. SUFFICES ASSUME pc \in {"announce", "announcing", "inspect", "publishing"}
                PROVE  kind'[lease.job] = "import"
    OBVIOUS
  <2>1. Executing BY DEF Executing, Waiting, Working
  <2>. QED BY <2>1, LeaseKeepsKind DEF SystemInv, MainThread
<1>5. /\ pc' \in Waiting => req'["main"].type = RequestAt[pc']
      /\ pc' \notin Waiting => req'["main"] = NoMsg /\ reply'["main"] = "pending"
      /\ Executing' => lease'.job # 0
      /\ pc' \in {"announcing", "inspect", "publishing"} => acked' < NumEpisodes
      /\ pc' = "publishing" => req'["main"].job = lease'.job /\ req'["main"].episode = acked' + 1
  BY <1>1 DEF SystemInv, MainThread
<1>6. (pc \in Waiting)' = (pc' \in Waiting) BY DEF Waiting
<1>7. RequestAt' = RequestAt BY DEF RequestAt
<1>8. MainThread' BY <1>3, <1>4, <1>5, <1>6, <1>7 DEF MainThread
<1>. QED BY <1>2, <1>8

\* The main thread moves to a point of its own, possibly with an answer.
LEMMA MoveInv ==
  ASSUME SystemInv, UNCHANGED <<apiVars, disk, lease, lost, late, faults>>,
         pc' \in Working \cup {"idle"}, acked' \in 0..NumEpisodes,
         req' = [req EXCEPT !["main"] = NoMsg], reply' = [reply EXCEPT !["main"] = "pending"],
         pc' # "idle" => lease.job # 0,
         pc' \in {"announce", "inspect"} => kind[lease.job] = "import",
         pc' = "inspect" => acked < NumEpisodes /\ acked' = acked,
         acked' # 0 /\ kind[lease.job] = "import" =>
           \A e \in 1..acked' : episodes[Source][e] = payload[lease.job]
  PROVE  SystemInv'
<1>1. [Next]_apiVars OBVIOUS
<1>2. JobsInv' /\ TypeOK' BY <1>1, InvStep DEF SystemInv, JobsInv
<1>3. SystemTypeOK'
  <2>1. req' \in [Threads -> Messages] /\ reply' \in [Threads -> {"pending", "ok", "error"}]
    BY NoMsgGood DEF SystemInv, SystemTypeOK
  <2>2. /\ disk' \in [Sources -> Versions] /\ lease' \in Leases /\ lost' \in BOOLEAN
        /\ late' \in SUBSET Messages /\ faults' \in 0..MaxFaults
    BY DEF SystemInv, SystemTypeOK
  <2>. QED BY <1>2, <2>1, <2>2 DEF SystemTypeOK
<1>4. /\ req'["main"] = NoMsg /\ req'["beat"] = req["beat"] /\ reply'["main"] = "pending"
  BY DEF SystemInv, SystemTypeOK, Threads
<1>5. Msgs' \subseteq Msgs \cup {NoMsg} BY <1>4 DEF Msgs, Threads
<1>6. TokensWereHandedOut' /\ MessagesTrue' BY <1>1, <1>5, NoNewMessage
<1>7. ImportedIsComplete' BY DEF SystemInv, ImportedIsComplete, apiVars
<1>8. AcknowledgedIsCommitted'
  <2>. SUFFICES ASSUME kind[lease.job] = "import", NEW e \in 1..acked'
                PROVE  episodes[Source][e] = payload[lease.job]
    BY DEF AcknowledgedIsCommitted, Source, apiVars
  <2>. QED OBVIOUS
<1>9. MainThread'
  <2>1. pc' \notin Waiting /\ (Executing' => pc' # "idle")
    BY DEF Waiting, Working, Executing
  <2>2. pc' \notin {"announcing", "publishing"} BY DEF Working
  <2>. QED BY <1>4, <2>1, <2>2, NoMsgGood DEF MainThread, SystemInv, apiVars, Waiting
<1>. QED BY <1>2, <1>3, <1>6, <1>7, <1>8, <1>9 DEF SystemInv

\* The worker is between jobs, or dead.
LEMMA LeaveInv ==
  ASSUME SystemInv, UNCHANGED <<apiVars, disk>>, pc' \in {"idle", "down"},
         lease' = NoLease, acked' = 0, lost' = FALSE, faults' \in 0..MaxFaults,
         req' = [t \in Threads |-> NoMsg], reply' = [t \in Threads |-> "pending"],
         late' \subseteq late \cup {req[t] : t \in Threads}
  PROVE  SystemInv'
<1>1. [Next]_apiVars OBVIOUS
<1>2. JobsInv' /\ TypeOK' BY <1>1, InvStep DEF SystemInv, JobsInv
<1>3. \A t \in Threads : req[t] \in Messages BY DEF SystemInv, SystemTypeOK
<1>4. SystemTypeOK'
  <2>1. late' \in SUBSET Messages BY <1>3 DEF SystemInv, SystemTypeOK
  <2>2. req' \in [Threads -> Messages] BY NoMsgGood
  <2>3. reply' \in [Threads -> {"pending", "ok", "error"}] OBVIOUS
  <2>4. acked' \in 0..NumEpisodes BY ConstantsAssumption
  <2>5. disk' \in [Sources -> Versions] BY DEF SystemInv, SystemTypeOK
  <2>. QED BY <1>2, <2>1, <2>2, <2>3, <2>4, <2>5, NoMsgGood DEF SystemTypeOK
<1>5. \A t \in Threads : req'[t] = NoMsg OBVIOUS
<1>6. Msgs' \subseteq Msgs \cup {NoMsg} BY <1>5 DEF Msgs
<1>7. TokensWereHandedOut' /\ MessagesTrue' BY <1>1, <1>6, NoNewMessage
<1>8. ImportedIsComplete' BY DEF SystemInv, ImportedIsComplete, apiVars
<1>9. ~Executing' BY DEF Executing, Working, Waiting
<1>10. AcknowledgedIsCommitted' BY <1>9 DEF AcknowledgedIsCommitted
<1>11. MainThread'
  BY <1>5, <1>9, NoMsgGood DEF MainThread, Waiting, Threads
<1>. QED BY <1>2, <1>4, <1>7, <1>8, <1>10, <1>11 DEF SystemInv

\* A step of the API that leaves requests, lease and main thread alone.
LEMMA ServeInv ==
  ASSUME SystemInv, [Next]_apiVars, ImportedIsComplete', disk' \in [Sources -> Versions],
         UNCHANGED <<pc, lease, acked, lost, req>>, faults' \in 0..MaxFaults,
         late' \subseteq late \cup {req[t] : t \in Threads},
         reply' \in [Threads -> {"pending", "ok", "error"}],
         \/ reply'["main"] = reply["main"]
         \/ pc \in Waiting /\ reply'["main"] = "error"
         \/ /\ pc \in Waiting
            /\ pc = "publishing" => episodes'[subject'[lease.job]][acked + 1] = payload'[lease.job]
  PROVE  SystemInv'
<1>1. JobsInv' /\ TypeOK' BY InvStep DEF SystemInv, JobsInv
<1>2. \A t \in Threads : req[t] \in Messages BY DEF SystemInv, SystemTypeOK
<1>3. late' \in SUBSET Messages BY <1>2 DEF SystemInv, SystemTypeOK
<1>4. SystemTypeOK' BY <1>1, <1>3 DEF SystemInv, SystemTypeOK
<1>5. Msgs' \subseteq Msgs \cup {NoMsg} BY DEF Msgs
<1>6. TokensWereHandedOut' /\ MessagesTrue' BY <1>5, NoNewMessage
<1>7. req["beat"].type \in {"none", "beat"} BY DEF SystemInv, MainThread
<1>8. AcknowledgedIsCommitted' /\ MainThread' BY <1>7, SameWorker
<1>. QED BY <1>1, <1>4, <1>6, <1>8 DEF SystemInv

(***************************************************************************)
(* A source becomes imported only by a message that tells the truth.       *)
(***************************************************************************)

LEMMA ImportedStays ==
  ASSUME SystemInv, [Next]_apiVars,
         \A s \in Sources : sourceStatus'[s] = "imported" => sourceStatus[s] = "imported"
  PROVE  ImportedIsComplete'
<1>1. CatalogGrows BY StepGrows DEF SystemInv
<1>. SUFFICES ASSUME NEW s \in Sources, sourceStatus'[s] = "imported"
              PROVE  plan'[s] # None /\ \A e \in Episodes : episodes'[s][e] = plan'[s]
  BY DEF ImportedIsComplete
<1>2. plan[s] # None /\ \A e \in Episodes : episodes[s][e] = plan[s]
  BY DEF SystemInv, ImportedIsComplete
<1>. QED BY <1>1, <1>2 DEF CatalogGrows

LEMMA NewJobsImportNothing ==
  ASSUME SystemInv, Operator \/ Tick \/ Reconcile \/ ClaimNothing \/ \E j \in Jobs : ClaimJob(j)
  PROVE  ImportedIsComplete'
<1>1. [Next]_apiVars BY DEF Next
<1>2. \A s \in Sources : sourceStatus'[s] = "imported" => sourceStatus[s] = "imported"
  BY DEF Operator, AddSource, RequestImport, RequestRead, Cancel, Retry, Tick, Reconcile,
         ClaimNothing, ClaimJob, ReconcileRest, catalogVars, SystemInv, JobsInv, TypeOK
<1>. QED BY <1>1, <1>2, ImportedStays

LEMMA ApplyImports ==
  ASSUME SystemInv, NEW m \in Messages, GoodMsg(m), Apply(m)
  PROVE  ImportedIsComplete'
<1>1. Next /\ m.job \in Jobs /\ subject[m.job] \in Sources
  BY ApplyIsNext, ApplyIsUpdate, HandedOut DEF Jobs, SystemInv, JobsInv, TypeOK
<1>2. CASE m.type = "completed" /\ kind[m.job] = "import"
  <2>1. Complete(m.job, m.attempt, m.found, m.episode) BY <1>2 DEF Apply
  <2>2. FinishImport(subject[m.job]) BY <1>2, <2>1 DEF Complete
  <2>3. payload[m.job] = plan[subject[m.job]] /\ payload[m.job] # None
    BY <1>1, <1>2 DEF SystemInv, JobsInv, SnapshotIsApprovedPlan, RowsFilled
  <2>4. AllCommitted(m.job) BY <1>2 DEF GoodMsg
  <2>5. \A s \in Sources \ {subject[m.job]} : sourceStatus'[s] = sourceStatus[s]
    BY <2>2 DEF FinishImport, SystemInv, JobsInv, TypeOK
  <2>6. plan' = plan /\ episodes' = episodes BY <2>2 DEF FinishImport
  <2>. QED BY <2>3, <2>4, <2>5, <2>6 DEF AllCommitted, ImportedIsComplete, SystemInv
<1>3. CASE ~(m.type = "completed" /\ kind[m.job] = "import")
  <2>1. \A s \in Sources : sourceStatus'[s] = "imported" => sourceStatus[s] = "imported"
    BY <1>1, <1>3
    DEF Apply, Heartbeat, PublishEpisode, Fail, Complete, ApprovePlan, RegisterExport,
        catalogVars, SystemInv, JobsInv, TypeOK
  <2>. QED BY <1>1, <2>1, ImportedStays
<1>. QED BY <1>2, <1>3

(***************************************************************************)
(* Every action preserves the invariant.                                   *)
(***************************************************************************)

LEMMA MainInv ==
  ASSUME SystemInv, Main
  PROVE  SystemInv'
<1>1. lease \in Leases /\ acked \in 0..NumEpisodes /\ disk \in [Sources -> Versions]
      /\ NumEpisodes \in Nat /\ None \in OptVersions /\ 0 \in 0..NumEpisodes
  BY ConstantsAssumption DEF SystemInv, SystemTypeOK, OptVersions
<1>2. GoodToken(lease) BY MsgsGood
<1>3. ASSUME Executing PROVE lease.job # 0 /\ Source \in Sources /\ disk[Source] \in OptVersions
  BY <1>1, <1>3, LeaseRecord DEF SystemInv, JobsInv, RowsFilled, OptVersions, Source, MainThread
<1>4. CASE Claim
  <2>1. Msg("claim", NoLease, 0, None) \in Messages /\ GoodMsg(Msg("claim", NoLease, 0, None))
    BY <1>1, NoMsgGood, MsgType DEF GoodMsg, GoodToken, Types
  <2>. QED
    BY <1>1, <1>4, <2>1, NoMsgGood, MsgType, SendInv DEF Claim, Waiting, RequestAt, Types
<1>5. CASE Preflight
  <2>1. Executing BY <1>5 DEF Preflight, Executing, Working
  <2> DEFINE m == Msg("completed", lease, 0, disk[Source])
  <2>2. /\ m \in Messages /\ m.type = "completed" /\ m.job = lease.job
        /\ m.attempt = lease.attempt
    BY <1>1, <1>3, <2>1, MsgType DEF Types
  <2>3. GoodMsg(m) BY <1>2, <1>3, <1>5, <2>1, <2>2 DEF GoodMsg, GoodToken, Preflight
  <2>. QED
    BY <1>5, <2>1, <2>2, <2>3, SendInv DEF Preflight, Report, Working, Waiting, RequestAt
<1>6. CASE Read
  <2>1. Executing BY <1>6 DEF Read, Executing, Working
  <2> DEFINE m == Msg("completed", lease, 0, None)
  <2>2. /\ m \in Messages /\ m.type = "completed" /\ m.job = lease.job
        /\ m.attempt = lease.attempt
    BY <1>1, MsgType DEF Types
  <2>3. GoodMsg(m) BY <1>2, <1>3, <1>6, <2>1, <2>2 DEF GoodMsg, GoodToken, Read
  <2>. QED BY <1>6, <2>1, <2>2, <2>3, SendInv DEF Read, Report, Working, Waiting, RequestAt
<1>7. CASE FinishEpisodes
  <2>1. Executing /\ kind[lease.job] = "import"
    BY <1>7 DEF FinishEpisodes, Executing, Working, SystemInv, MainThread
  <2> DEFINE m == Msg("completed", lease, acked, None)
  <2>2. /\ m \in Messages /\ m.type = "completed" /\ m.job = lease.job
        /\ m.attempt = lease.attempt
    BY <1>1, MsgType DEF Types
  <2>3. AllCommitted(lease.job)
    BY <1>7, <2>1
    DEF FinishEpisodes, AllCommitted, SystemInv, AcknowledgedIsCommitted, Source, Episodes
  <2>4. GoodMsg(m) BY <1>2, <1>3, <2>1, <2>2, <2>3 DEF GoodMsg, GoodToken
  <2>. QED
    BY <1>7, <2>1, <2>2, <2>4, SendInv DEF FinishEpisodes, Report, Working, Waiting, RequestAt
<1>8. CASE AnnounceEpisode
  <2>1. Executing /\ kind[lease.job] = "import"
    BY <1>8 DEF AnnounceEpisode, Executing, Working, SystemInv, MainThread
  <2> DEFINE m == Msg("beat", lease, 0, None)
  <2>2. m \in Messages /\ m.type = "beat" /\ m.job = lease.job /\ m.attempt = lease.attempt
    BY <1>1, MsgType DEF Types
  <2>3. GoodMsg(m) BY <1>2, <1>3, <2>1, <2>2 DEF GoodMsg, GoodToken
  <2>. QED
    BY <1>8, <2>1, <2>2, <2>3, SendInv DEF AnnounceEpisode, Report, Working, Waiting, RequestAt
<1>9. CASE InspectEpisode
  <2>1. Executing /\ kind[lease.job] = "import" /\ acked < NumEpisodes
    BY <1>9 DEF InspectEpisode, Executing, Working, SystemInv, MainThread
  <2> DEFINE m == Msg("episode", lease, acked + 1, disk[Source])
  <2>2. /\ m \in Messages /\ m.type = "episode" /\ m.job = lease.job
        /\ m.attempt = lease.attempt /\ m.episode = acked + 1
    <3>1. acked + 1 \in 0..NumEpisodes BY <1>1, <2>1
    <3>. QED BY <1>1, <1>3, <2>1, <3>1, MsgType DEF Types
  <2>3. GoodMsg(m) BY <1>1, <1>2, <1>3, <2>1, <2>2 DEF GoodMsg, GoodToken
  <2>. QED
    BY <1>9, <2>1, <2>2, <2>3, SendInv DEF InspectEpisode, Report, Working, Waiting, RequestAt
<1>10. CASE ReportFailure
  <2>1. Executing BY <1>10 DEF ReportFailure, Executing, Working
  <2> DEFINE m == Msg("failed", lease, 0, None)
  <2>2. m \in Messages /\ m.type = "failed" /\ m.job = lease.job /\ m.attempt = lease.attempt
    BY <1>1, MsgType DEF Types
  <2>3. GoodMsg(m) BY <1>2, <1>3, <2>1, <2>2 DEF GoodMsg, GoodToken
  <2>. QED
    BY <1>10, <2>1, <2>2, <2>3, SendInv DEF ReportFailure, Report, Working, Waiting, RequestAt
<1>11. CASE CompareFiles \/ Raise
  <2>1. pc \in Working /\ pc' \in Working \ {"inspect"}
    BY <1>11 DEF CompareFiles, Raise, Working
  <2>2. Executing /\ pc \notin Waiting BY <2>1 DEF Executing, Working, Waiting
  <2>3. req["main"] = NoMsg /\ reply["main"] = "pending" BY <2>2 DEF SystemInv, MainThread
  <2>4. req' = [req EXCEPT !["main"] = NoMsg] /\ reply' = [reply EXCEPT !["main"] = "pending"]
    BY <1>11, <2>3 DEF CompareFiles, Raise, netVars, SystemInv, SystemTypeOK
  <2>5. UNCHANGED <<apiVars, disk, lease, acked, lost, late, faults>>
    BY <1>11 DEF CompareFiles, Raise, netVars
  <2>6. pc' = "announce" => kind[lease.job] = "import"
    BY <1>11 DEF CompareFiles, Raise
  <2>7. kind[lease.job] = "import" =>
          \A e \in 1..acked' : episodes[Source][e] = payload[lease.job]
    BY <2>2, <2>5 DEF SystemInv, AcknowledgedIsCommitted
  <2>. QED BY <1>1, <1>3, <2>1, <2>2, <2>4, <2>5, <2>6, <2>7, MoveInv
<1>12. ASSUME Leave PROVE SystemInv'
  <2>1. late' \subseteq late \cup {req[t] : t \in Threads} BY <1>12 DEF Leave, Threads
  <2>2. faults' \in 0..MaxFaults BY <1>12 DEF Leave, SystemInv, SystemTypeOK
  <2>. QED BY <1>12, <2>1, <2>2, LeaveInv DEF Leave
<1>13. CASE GiveUp BY <1>12, <1>13 DEF GiveUp
<1>14. CASE ReceiveJob \/ ReceiveNothing
  <2>1. /\ pc' \in Working \cup {"idle"} /\ pc' \notin {"announce", "inspect"}
        /\ acked' = 0 /\ (pc' # "idle" => lease.job # 0)
    BY <1>14 DEF ReceiveJob, ReceiveNothing, Resume, Working
  <2>. QED BY <1>1, <1>14, <2>1, MoveInv DEF ReceiveJob, ReceiveNothing, Resume
<1>15. ASSUME pc \in {"announcing", "publishing", "completing", "failing"}
       PROVE  Executing /\ pc \in Waiting
  BY <1>15 DEF Executing, Waiting, Working
<1>16. CASE ReceiveOk
  <2>1. CASE pc = "announcing" /\ Resume("inspect", acked)
    <3>1. kind[lease.job] = "import" /\ acked < NumEpisodes
      BY <2>1 DEF SystemInv, MainThread
    <3>2. \A e \in 1..acked : episodes[Source][e] = payload[lease.job]
      BY <1>15, <2>1, <3>1 DEF SystemInv, AcknowledgedIsCommitted
    <3>. QED BY <1>1, <1>3, <1>15, <2>1, <3>1, <3>2, MoveInv DEF Resume, Working
  <2>2. CASE pc = "publishing" /\ Resume("announce", acked + 1)
    <3>1. kind[lease.job] = "import" /\ acked < NumEpisodes
          /\ episodes[Source][acked + 1] = payload[lease.job]
      BY <1>16, <2>2 DEF ReceiveOk, SystemInv, MainThread
    <3>2. \A e \in 1..acked : episodes[Source][e] = payload[lease.job]
      BY <1>15, <2>2, <3>1 DEF SystemInv, AcknowledgedIsCommitted
    <3>3. acked + 1 \in 0..NumEpisodes BY <1>1, <3>1
    <3>4. \A e \in 1..(acked + 1) : episodes[Source][e] = payload[lease.job]
      BY <1>1, <3>1, <3>2
    <3>. QED BY <1>3, <1>15, <2>2, <3>1, <3>3, <3>4, MoveInv DEF Resume, Working
  <2>. QED BY <1>12, <1>16, <2>1, <2>2 DEF ReceiveOk
<1>17. CASE ReceiveError
  <2>1. CASE pc \in {"announcing", "publishing", "completing"} /\ Resume("raised", acked)
    <3>1. kind[lease.job] = "import" =>
            \A e \in 1..acked : episodes[Source][e] = payload[lease.job]
      BY <1>15, <2>1 DEF SystemInv, AcknowledgedIsCommitted
    <3>. QED BY <1>1, <1>3, <1>15, <2>1, <3>1, MoveInv DEF Resume, Working
  <2>. QED BY <1>12, <1>17, <2>1 DEF ReceiveError
<1>. QED
  BY <1>4, <1>5, <1>6, <1>7, <1>8, <1>9, <1>10, <1>11, <1>13, <1>14, <1>16, <1>17 DEF Main

LEMMA ServeClaimInv ==
  ASSUME SystemInv, ServeClaim
  PROVE  SystemInv'
<1>1. pc = "claiming" /\ ~Executing
  BY NoMsgGood DEF ServeClaim, SystemInv, MainThread, Waiting, Working, RequestAt, Executing
<1>2. [Next]_apiVars /\ JobsInv' /\ TypeOK' /\ ImportedIsComplete'
  <2>1. ClaimNothing \/ \E j \in Jobs : ClaimJob(j) BY DEF ServeClaim
  <2>. QED BY <2>1, NewJobsImportNothing, InvStep DEF Next, SystemInv, JobsInv
<1>3. UNCHANGED <<disk, pc, acked, lost, req, late, faults>>
      /\ reply' = [reply EXCEPT !["main"] = "ok"]
  BY DEF ServeClaim
<1>4. GoodToken(lease)' /\ lease' \in Leases
  <2>1. CASE UNCHANGED lease
    BY <1>2, <2>1, LeaseStaysGood DEF SystemInv, SystemTypeOK
  <2>2. ASSUME NEW j \in Jobs, ClaimJob(j), lease' = [job |-> j, attempt |-> attempt[j] + 1]
        PROVE  GoodToken(lease)' /\ lease' \in Leases
    <3>1. attempt[j] \in Nat /\ attempt'[j] = attempt[j] + 1
      BY <2>2 DEF ClaimJob, SystemInv, JobsInv, TypeOK
    <3>2. j \in 0..MaxJobs BY ConstantsAssumption DEF Jobs
    <3>. QED BY <2>2, <3>1, <3>2 DEF GoodToken, Leases
  <2>. QED BY <2>1, <2>2 DEF ServeClaim
<1>5. SystemTypeOK' BY <1>2, <1>3, <1>4 DEF SystemInv, SystemTypeOK
<1>6. TokensWereHandedOut' /\ MessagesTrue'
  <2>1. GoodMsg(NoMsg)' BY NoMsgGood DEF GoodMsg, GoodToken
  <2>2. Msgs' \subseteq Msgs \cup {NoMsg} BY <1>3 DEF Msgs
  <2>. QED BY <1>2, <1>4, <2>1, <2>2, OneNewMessage
<1>7. AcknowledgedIsCommitted' /\ MainThread'
  <2>1. pc' = "claiming" /\ ~Executing' BY <1>1, <1>3 DEF Executing
  <2>. QED BY <1>1, <1>3, <2>1 DEF AcknowledgedIsCommitted, MainThread, SystemInv, Waiting, RequestAt
<1>. QED BY <1>2, <1>5, <1>6, <1>7 DEF SystemInv

LEMMA ServeUpdateInv ==
  ASSUME SystemInv, NEW t \in Threads, ServeUpdate(t)
  PROVE  SystemInv'
<1>1. req[t] \in Messages /\ GoodMsg(req[t]) BY MsgsGood DEF Msgs
<1>2. UNCHANGED <<disk, workerVars, req, late, faults>> BY DEF ServeUpdate
<1>3. [Next]_apiVars /\ ImportedIsComplete'
  <2>1. CASE Apply(req[t]) BY <1>1, <2>1, ApplyIsNext, ApplyImports
  <2>2. CASE UNCHANGED apiVars
    BY <2>2 DEF SystemInv, ImportedIsComplete, apiVars
  <2>. QED BY <2>1, <2>2 DEF ServeUpdate
<1>4. reply' \in [Threads -> {"pending", "ok", "error"}]
  BY DEF ServeUpdate, SystemInv, SystemTypeOK
<1>5. \/ reply'["main"] = reply["main"]
      \/ pc \in Waiting /\ reply'["main"] = "error"
      \/ /\ pc \in Waiting
         /\ pc = "publishing" => episodes'[subject'[lease.job]][acked + 1] = payload'[lease.job]
  <2>1. CASE t # "main"
    BY <2>1 DEF ServeUpdate, SystemInv, SystemTypeOK, Threads
  <2>2. CASE t = "main"
    <3>1. pc \in Waiting BY <2>2, NoMsgGood DEF ServeUpdate, SystemInv, MainThread
    <3>2. CASE ~Apply(req[t])
      BY <2>2, <3>1, <3>2 DEF ServeUpdate, SystemInv, SystemTypeOK, Threads
    <3>3. CASE Apply(req[t])
      <4>. SUFFICES ASSUME pc = "publishing"
                    PROVE  episodes'[subject'[lease.job]][acked + 1] = payload'[lease.job]
        BY <3>1
      <4>1. /\ req[t].type = "episode" /\ req[t].job = lease.job
            /\ req[t].episode = acked + 1
        BY <2>2 DEF SystemInv, MainThread, Waiting, RequestAt
      <4>2. PublishEpisode(lease.job, req[t].attempt, acked + 1, req[t].found)
        BY <3>3, <4>1 DEF Apply
      <4>3. subject[lease.job] \in Sources /\ acked + 1 \in Episodes
        <5>1. Executing /\ acked < NumEpisodes
          BY DEF Executing, Waiting, Working, SystemInv, MainThread
        <5>. QED
          BY <5>1, LeaseRecord, ConstantsAssumption
          DEF SystemInv, JobsInv, RowsFilled, SystemTypeOK, Episodes
      <4>. QED
        BY <4>2, <4>3 DEF PublishEpisode, CanPublish, SystemInv, JobsInv, TypeOK
    <3>. QED BY <3>2, <3>3
  <2>. QED BY <2>1, <2>2
<1>6. UNCHANGED <<pc, lease, acked, lost, req>> BY <1>2 DEF workerVars
<1>7. /\ disk' \in [Sources -> Versions] /\ faults' \in 0..MaxFaults
      /\ late' \subseteq late \cup {req[i] : i \in Threads}
  BY <1>2 DEF SystemInv, SystemTypeOK
<1>. QED BY <1>3, <1>4, <1>5, <1>6, <1>7, ServeInv

LEMMA TimeoutInv ==
  ASSUME SystemInv, NEW t \in Threads, Timeout(t)
  PROVE  SystemInv'
<1>1. UNCHANGED <<apiVars, disk, pc, acked, lost, req>> /\ [Next]_apiVars
      /\ reply' = [reply EXCEPT ![t] = "error"]
  BY DEF Timeout
<1>2. reply' \in [Threads -> {"pending", "ok", "error"}]
      /\ faults' \in 0..MaxFaults /\ disk' \in [Sources -> Versions]
  BY <1>1, FaultsAssumption DEF Timeout, SystemInv, SystemTypeOK
<1>3. late' \subseteq late \cup {req[i] : i \in Threads} BY DEF Timeout
<1>4. t = "main" => pc \in Waiting BY NoMsgGood DEF Timeout, SystemInv, MainThread
<1>5. ImportedIsComplete' BY <1>1 DEF SystemInv, ImportedIsComplete, apiVars
<1>6. CASE req[t].type # "claim"
  <2>1. lease' = lease BY <1>6 DEF Timeout
  <2>2. \/ reply'["main"] = reply["main"]
        \/ pc \in Waiting /\ reply'["main"] = "error"
    <3>1. DOMAIN reply = Threads BY DEF SystemInv, SystemTypeOK
    <3>2. CASE t = "main" BY <1>1, <1>4, <3>1, <3>2 DEF Threads
    <3>3. CASE t # "main" BY <1>1, <3>1, <3>3 DEF Threads
    <3>. QED BY <3>2, <3>3
  <2>. QED BY <1>1, <1>2, <1>3, <1>5, <2>1, <2>2, ServeInv
<1>7. CASE req[t].type = "claim"
  <2>1. t = "main" /\ pc = "claiming"
    BY <1>4, <1>7 DEF Threads, SystemInv, MainThread, Waiting, RequestAt
  <2>2. lease' = NoLease BY <1>7 DEF Timeout
  <2>3. JobsInv' /\ TypeOK' BY <1>1, InvStep DEF SystemInv, JobsInv
  <2>4. \A i \in Threads : req[i] \in Messages BY DEF SystemInv, SystemTypeOK
  <2>5. late' \in SUBSET Messages BY <1>3, <2>4 DEF SystemInv, SystemTypeOK
  <2>6. SystemTypeOK'
    BY <1>1, <1>2, <2>2, <2>3, <2>5, NoMsgGood DEF SystemInv, SystemTypeOK
  <2>7. Msgs' \subseteq Msgs \cup {NoMsg} BY <1>1, <1>3 DEF Msgs
  <2>8. TokensWereHandedOut' /\ MessagesTrue' BY <1>1, <2>2, <2>7, NoNewMessage
  <2>9. ~Executing' /\ pc' = "claiming" BY <1>1, <2>1 DEF Executing
  <2>10. AcknowledgedIsCommitted' BY <2>9 DEF AcknowledgedIsCommitted
  <2>11. req'["main"].type = "claim" /\ req'["beat"].type \in {"none", "beat"}
    BY <1>1, <1>7, <2>1 DEF SystemInv, MainThread
  <2>12. MainThread' BY <2>9, <2>11 DEF MainThread, Waiting, RequestAt
  <2>. QED BY <1>5, <2>3, <2>6, <2>8, <2>10, <2>12 DEF SystemInv
<1>. QED BY <1>6, <1>7

LEMMA BeatInv ==
  ASSUME SystemInv, Beat \/ BeatAnswered
  PROVE  SystemInv'
<1>1. /\ UNCHANGED <<apiVars, disk, pc, lease, acked, late, faults>> /\ [Next]_apiVars
      /\ lost' \in BOOLEAN
  BY DEF Beat, BeatAnswered, workerVars, SystemInv, SystemTypeOK
<1> DEFINE m == Msg("beat", lease, 0, None)
<1>2. PICK n \in {m, NoMsg} : req' = [req EXCEPT !["beat"] = n] /\ (n = m => Executing)
  <2>1. CASE Beat BY <2>1 DEF Beat
  <2>2. CASE BeatAnswered
    <3>1. m.type = "beat" BY DEF Msg
    <3>. QED BY <2>2, <3>1, NoMsgGood DEF BeatAnswered
  <2>. QED BY <2>1, <2>2
<1>3. n \in Messages /\ GoodMsg(n) /\ n.type \in {"none", "beat"}
  <2>1. CASE n = NoMsg BY <2>1, NoMsgGood DEF GoodMsg, GoodToken
  <2>2. CASE n = m
    <3>1. lease \in Leases /\ 0 \in 0..NumEpisodes /\ None \in OptVersions
      BY ConstantsAssumption DEF SystemInv, SystemTypeOK, OptVersions
    <3>2. m \in Messages /\ m.type = "beat" /\ m.job = lease.job /\ m.attempt = lease.attempt
      BY <3>1, MsgType DEF Types
    <3>3. lease.job # 0 BY <1>2, <2>2 DEF SystemInv, MainThread
    <3>. QED BY <2>2, <3>2, <3>3, MsgsGood DEF GoodMsg, GoodToken
  <2>. QED BY <2>1, <2>2
<1>4. /\ req' \in [Threads -> Messages] /\ reply' \in [Threads -> {"pending", "ok", "error"}]
      /\ req'["main"] = req["main"] /\ reply'["main"] = reply["main"] /\ req'["beat"] = n
  BY <1>2, <1>3 DEF Beat, BeatAnswered, SystemInv, SystemTypeOK, Threads
<1>5. JobsInv' /\ TypeOK' BY <1>1, InvStep DEF SystemInv, JobsInv
<1>6. SystemTypeOK' BY <1>1, <1>4, <1>5 DEF SystemInv, SystemTypeOK
<1>7. Msgs' \subseteq Msgs \cup {n} BY <1>1, <1>4 DEF Msgs, Threads
<1>8. GoodMsg(n)' BY <1>1, <1>3, GoodMsgStays DEF SystemInv
<1>9. TokensWereHandedOut' /\ MessagesTrue'
  BY <1>1, <1>7, <1>8, LeaseStaysGood, OneNewMessage
<1>10. AcknowledgedIsCommitted' /\ MainThread' BY <1>1, <1>3, <1>4, SameWorker
<1>11. ImportedIsComplete' BY <1>1 DEF SystemInv, ImportedIsComplete, apiVars
<1>. QED BY <1>5, <1>6, <1>9, <1>10, <1>11 DEF SystemInv

LEMMA SystemInvStep == SystemInv /\ [SystemNext]_vars => SystemInv'
<1>. SUFFICES ASSUME SystemInv, [SystemNext]_vars PROVE SystemInv' OBVIOUS
<1>1. [Next]_apiVars BY SystemStepIsApiStep
<1>2. reply \in [Threads -> {"pending", "ok", "error"}]
      /\ disk \in [Sources -> Versions] /\ faults \in 0..MaxFaults
  BY DEF SystemInv, SystemTypeOK
<1>3. CASE ApiStep
  <2>1. ImportedIsComplete' BY <1>3, NewJobsImportNothing DEF ApiStep
  <2>. QED
    BY <1>1, <1>2, <1>3, <2>1, ServeInv DEF ApiStep, workerVars, netVars
<1>4. CASE Main BY <1>4, MainInv
<1>5. CASE Beat \/ BeatAnswered BY <1>5, BeatInv
<1>6. CASE Start
  <2>1. pc = "down" /\ pc' = "idle" BY <1>6 DEF Start
  <2>2. req["main"] = NoMsg /\ reply["main"] = "pending" /\ acked \in 0..NumEpisodes
        /\ ~Executing
    BY <2>1 DEF SystemInv, MainThread, Waiting, Working, SystemTypeOK, Executing
  <2>3. UNCHANGED <<apiVars, disk, lease, acked, lost, req, reply, late, faults>>
    BY <1>6 DEF Start, netVars
  <2>4. SystemTypeOK' /\ TokensWereHandedOut' /\ MessagesTrue' /\ ImportedIsComplete' /\ JobsInv'
    <3>1. JobsInv' /\ TypeOK' BY <1>1, InvStep DEF SystemInv, JobsInv
    <3>2. TokensWereHandedOut' /\ MessagesTrue'
      <4>1. Msgs' \subseteq Msgs \cup {NoMsg} BY <2>3 DEF Msgs
      <4>. QED BY <1>1, <2>3, <4>1, NoNewMessage
    <3>3. SystemTypeOK' BY <2>1, <2>3, <3>1 DEF SystemInv, SystemTypeOK
    <3>. QED BY <2>3, <3>1, <3>2, <3>3 DEF SystemInv, ImportedIsComplete, apiVars
  <2>5. ~Executing' BY <2>1 DEF Executing, Waiting, Working
  <2>6. AcknowledgedIsCommitted' /\ MainThread'
    BY <2>1, <2>2, <2>3, <2>5 DEF AcknowledgedIsCommitted, MainThread, SystemInv, Waiting
  <2>. QED BY <2>4, <2>6 DEF SystemInv
<1>7. CASE ServeClaim BY <1>7, ServeClaimInv
<1>8. ASSUME NEW t \in Threads, ServeUpdate(t) \/ Timeout(t) PROVE SystemInv'
  BY <1>8, ServeUpdateInv, TimeoutInv
<1>9. ASSUME NEW m \in late, ServeLate(m) PROVE SystemInv'
  <2>1. m \in Messages /\ GoodMsg(m) BY MsgsGood DEF Msgs
  <2>2. ImportedIsComplete'
    <3>1. CASE Apply(m) BY <2>1, <3>1, ApplyImports
    <3>2. CASE ClaimNothing \/ \E j \in Jobs : ClaimJob(j) BY <3>2, NewJobsImportNothing
    <3>3. CASE UNCHANGED apiVars BY <3>3 DEF SystemInv, ImportedIsComplete, apiVars
    <3>. QED BY <1>9, <3>1, <3>2, <3>3 DEF ServeLate
  <2>. QED BY <1>1, <1>2, <1>9, <2>2, ServeInv DEF ServeLate, workerVars
<1>10. CASE Crash
  <2>1. late' \subseteq late \cup {req[t] : t \in Threads} BY <1>10 DEF Crash
  <2>2. faults' \in 0..MaxFaults
    BY <1>10, FaultsAssumption DEF Crash, SystemInv, SystemTypeOK
  <2>. QED BY <1>10, <2>1, <2>2, LeaveInv DEF Crash
<1>11. ASSUME NEW s \in Sources, ChangeFiles(s) PROVE SystemInv'
  <2>1. disk' \in [Sources -> Versions] /\ UNCHANGED <<apiVars, workerVars, netVars, faults>>
    BY <1>2, <1>11 DEF ChangeFiles
  <2>2. ImportedIsComplete' BY <2>1 DEF SystemInv, ImportedIsComplete, apiVars
  <2>. QED BY <1>1, <1>2, <2>1, <2>2, ServeInv DEF workerVars, netVars
<1>12. CASE UNCHANGED vars
  <2>1. ImportedIsComplete' BY <1>12 DEF vars, SystemInv, ImportedIsComplete, apiVars
  <2>. QED BY <1>1, <1>2, <1>12, <2>1, ServeInv DEF vars, workerVars, netVars
<1>. QED
  BY <1>3, <1>4, <1>5, <1>6, <1>7, <1>8, <1>9, <1>10, <1>11, <1>12 DEF SystemNext

LEMMA SystemInvAlways == SystemSpec => []SystemInv
BY SystemInvInit, SystemInvStep, PTL DEF SystemSpec

(***************************************************************************)
(* The theorems.                                                           *)
(***************************************************************************)

\* Every state of the composed system is of the declared types.
THEOREM SystemTypeCorrect == SystemSpec => []SystemTypeOK
<1>1. SystemInv => SystemTypeOK BY DEF SystemInv
<1>. QED BY <1>1, SystemInvAlways, PTL

\* A source shown as imported has every episode of its approved plan committed
\* with the approved contents, though the API only compares a count.
THEOREM ImportsAreComplete == SystemSpec => []ImportedIsComplete
<1>1. SystemInv => ImportedIsComplete BY DEF SystemInv
<1>. QED BY <1>1, SystemInvAlways, PTL

\* What the worker counts as committed is in the database.
THEOREM AcknowledgementsAreTrue == SystemSpec => []AcknowledgedIsCommitted
<1>1. SystemInv => AcknowledgedIsCommitted BY DEF SystemInv
<1>. QED BY <1>1, SystemInvAlways, PTL

\* No worker or message holds an attempt number that was not handed out.
THEOREM TokensAreGenuine == SystemSpec => []TokensWereHandedOut
<1>1. SystemInv => TokensWereHandedOut BY DEF SystemInv
<1>. QED BY <1>1, SystemInvAlways, PTL

\* The composed system implements the API with an arbitrary worker, so what is
\* proved of that holds here.
THEOREM SystemImplementsApi == SystemSpec => Spec
<1>1. SystemInit => Init BY DEF SystemInit
<1>2. SystemInv /\ [SystemNext]_vars => [Next]_apiVars BY SystemStepIsApiStep
<1>. QED BY <1>1, <1>2, SystemInvAlways, PTL DEF SystemSpec, Spec

(***************************************************************************)
(* The refinement: each step keeps the promise or leaves the catalog alone.*)
(***************************************************************************)

Kept == [Promise!Next]_(Promise!catalog)

LEMMA QuietKeeps ==
  ASSUME UNCHANGED catalogVars
  PROVE  Kept
BY DEF catalogVars, Kept, Promise!catalog

LEMMA RequestsKeep ==
  ASSUME Operator \/ Tick \/ Reconcile \/ ClaimNothing \/ \E j \in Jobs : ClaimJob(j)
  PROVE  Kept
<1>1. ASSUME NEW s \in Sources, AddSource(s) PROVE Kept
  <2>1. Promise!Register(s) BY <1>1 DEF AddSource, Promise!Register
  <2>. QED BY <2>1 DEF Kept, Promise!Next
<1>2. ASSUME ~\E s \in Sources : AddSource(s) PROVE UNCHANGED catalogVars
  BY <1>2 DEF Operator, RequestImport, RequestRead, Cancel, Retry, Tick, Reconcile,
              ClaimNothing, ClaimJob, ReconcileRest
<1>. QED BY <1>1, <1>2, QuietKeeps

LEMMA PublishKeeps ==
  ASSUME SystemInv, NEW j \in Jobs, NEW a, NEW e \in Episodes, NEW v, PublishEpisode(j, a, e, v)
  PROVE  Kept
<1>1. kind[j] = "import" /\ v # None /\ v = payload[j] /\ episodes[subject[j]][e] \in {None, v}
      /\ episodes' = [episodes EXCEPT ![subject[j]][e] = v]
      /\ UNCHANGED <<plan, sourceStatus, exported>>
  BY DEF PublishEpisode, CanPublish
<1>2. subject[j] \in Sources BY <1>1 DEF SystemInv, JobsInv, RowsFilled, TypeOK, Kinds
<1>3. v = plan[subject[j]]
  BY <1>1 DEF SystemInv, JobsInv, SnapshotIsApprovedPlan
<1>4. CASE episodes[subject[j]][e] = v
  <2>1. episodes' = episodes
    BY <1>1, <1>2, <1>4 DEF SystemInv, JobsInv, TypeOK
  <2>. QED BY <1>1, <2>1, QuietKeeps DEF catalogVars
<1>5. CASE episodes[subject[j]][e] = None
  <2>1. sourceStatus[subject[j]] \in {"ready", "imported"}
    BY <1>1, <1>2, <1>3 DEF SystemInv, JobsInv, OnePreflight
  <2>2. sourceStatus[subject[j]] # "imported"
    BY <1>1, <1>2, <1>3, <1>5 DEF SystemInv, ImportedIsComplete
  <2>3. Promise!Commit(subject[j], e)
    BY <1>1, <1>3, <1>5, <2>1, <2>2 DEF Promise!Commit
  <2>. QED BY <1>2, <2>3 DEF Kept, Promise!Next
<1>. QED BY <1>1, <1>4, <1>5

LEMMA CompleteKeeps ==
  ASSUME SystemInv, NEW m \in Messages, GoodMsg(m), m.type = "completed",
         m.job \in Jobs, Complete(m.job, m.attempt, m.found, m.episode)
  PROVE  Kept
<1>. DEFINE j == m.job
            s == subject[j]
<1>1. status[j] = "running" /\ s \in Sources
  BY DEF Complete, CanComplete, Accepts, SystemInv, JobsInv, RowsFilled
<1>2. CASE kind[j] = "preflight" /\ ApprovePlan(s, m.found)
  <2>1. m.found \in Versions
    BY <1>2 DEF Complete, CanComplete, Messages, OptVersions
  <2>2. sourceStatus[s] = "preflight"
    BY <1>1, <1>2 DEF SystemInv, JobsInv, OnePreflight, TypeOK
  <2>3. Promise!Approve(s, m.found) BY <1>2, <2>2 DEF ApprovePlan, Promise!Approve
  <2>. QED BY <1>1, <2>1, <2>3 DEF Kept, Promise!Next
<1>3. CASE kind[j] = "import" /\ FinishImport(s)
  <2>1. payload[j] = plan[s] /\ plan[s] # None
    BY <1>1, <1>3 DEF SystemInv, JobsInv, SnapshotIsApprovedPlan, RowsFilled
  <2>2. \A e \in Episodes : episodes[s][e] = plan[s]
    BY <1>3, <2>1 DEF GoodMsg, AllCommitted
  <2>3. sourceStatus[s] \in {"ready", "imported"}
    BY <1>1, <2>1 DEF SystemInv, JobsInv, OnePreflight
  <2>4. CASE sourceStatus[s] = "ready"
    <3>1. Promise!Imported(s) BY <1>3, <2>2, <2>4 DEF FinishImport, Promise!Imported
    <3>. QED BY <1>1, <3>1 DEF Kept, Promise!Next
  <2>5. CASE sourceStatus[s] = "imported"
    <3>1. sourceStatus' = sourceStatus
      BY <1>1, <1>3, <2>5 DEF FinishImport, SystemInv, JobsInv, TypeOK
    <3>. QED BY <1>3, <3>1, QuietKeeps DEF FinishImport, catalogVars
  <2>. QED BY <2>3, <2>4, <2>5
<1>4. CASE kind[j] = "export" /\ RegisterExport(j)
  <2>1. \E e \in Episodes : episodes[s][e] # None
    BY <1>4 DEF SystemInv, JobsInv, RowsFilled
  <2>2. CASE j \in exported
    <3>1. exported' = exported BY <1>4, <2>2 DEF RegisterExport
    <3>. QED BY <1>4, <3>1, QuietKeeps DEF RegisterExport, catalogVars
  <2>3. CASE j \notin exported
    <3>1. Promise!Export(j) BY <1>1, <1>4, <2>1, <2>3 DEF RegisterExport, Promise!Export
    <3>. QED BY <3>1 DEF Kept, Promise!Next
  <2>. QED BY <2>2, <2>3
<1>5. CASE UNCHANGED catalogVars BY <1>5, QuietKeeps
<1>. QED BY <1>2, <1>3, <1>4, <1>5 DEF Complete

LEMMA ApplyKeeps ==
  ASSUME SystemInv, NEW m \in Messages, GoodMsg(m), Apply(m)
  PROVE  Kept
<1>1. m.job \in Jobs BY ApplyIsUpdate
<1>2. CASE m.type = "episode" /\ PublishEpisode(m.job, m.attempt, m.episode, m.found)
  <2>1. m.episode \in Episodes
    BY <1>2, ConstantsAssumption DEF GoodMsg, Messages, Episodes
  <2>. QED BY <1>1, <1>2, <2>1, PublishKeeps
<1>3. CASE m.type = "completed" /\ Complete(m.job, m.attempt, m.found, m.episode)
  BY <1>1, <1>3, CompleteKeeps
<1>4. CASE Heartbeat(m.job, m.attempt) \/ Fail(m.job, m.attempt)
  BY <1>4, QuietKeeps DEF Heartbeat, Fail
<1>. QED BY <1>2, <1>3, <1>4 DEF Apply

LEMMA StepKeeps ==
  ASSUME SystemInv, [SystemNext]_vars
  PROVE  Kept
<1>1. CASE UNCHANGED apiVars BY <1>1, QuietKeeps DEF apiVars, catalogVars
<1>2. CASE ApiStep \/ ServeClaim BY <1>2, RequestsKeep DEF ApiStep, ServeClaim
<1>3. ASSUME NEW t \in Threads, ServeUpdate(t) PROVE Kept
  <2>1. req[t] \in Messages /\ GoodMsg(req[t]) BY MsgsGood DEF Msgs
  <2>. QED BY <1>1, <1>3, <2>1, ApplyKeeps DEF ServeUpdate
<1>4. ASSUME NEW m \in late, ServeLate(m) PROVE Kept
  <2>1. m \in Messages /\ GoodMsg(m) BY MsgsGood DEF Msgs
  <2>. QED BY <1>1, <1>4, <2>1, ApplyKeeps, RequestsKeep DEF ServeLate
<1>5. ASSUME Main PROVE UNCHANGED apiVars
  BY <1>5 DEF Main, Claim, Preflight, CompareFiles, AnnounceEpisode, InspectEpisode,
              FinishEpisodes, Read, Raise, ReportFailure, GiveUp, ReceiveJob,
              ReceiveNothing, ReceiveOk, ReceiveError, Send, Report, Leave, Resume
<1>6. ASSUME \/ Beat \/ BeatAnswered \/ Start \/ Crash \/ UNCHANGED vars
             \/ \E t \in Threads : Timeout(t)
             \/ \E s \in Sources : ChangeFiles(s)
      PROVE  UNCHANGED apiVars
  BY <1>6 DEF Beat, BeatAnswered, Start, Crash, Timeout, ChangeFiles, vars
<1>. QED BY <1>1, <1>2, <1>3, <1>4, <1>5, <1>6 DEF SystemNext

\* The service implements EvidenceCatalog: whatever crashes, expires, is retried,
\* repeated or served late, evidence is approved, committed and exported once.
THEOREM ServiceKeepsPromise == SystemSpec => KeepsPromise
<1>1. SystemInit => Promise!Init BY DEF SystemInit, Init, Promise!Init
<1>2. SystemInv /\ [SystemNext]_vars => [Promise!Next]_(Promise!catalog)
  BY StepKeeps DEF Kept
<1>. QED BY <1>1, <1>2, SystemInvAlways, PTL DEF SystemSpec, KeepsPromise, Promise!Spec
=============================================================================
