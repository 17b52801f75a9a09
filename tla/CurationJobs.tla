---------------------------- MODULE CurationJobs ----------------------------
(***************************************************************************)
(* The evidence-curation API seen from its database: the job table with    *)
(* its leases, and the catalog records (sources, episodes, export          *)
(* artifacts) that jobs publish.  One action per handler of                *)
(* gateway/curation/app.ts and gateway/curation/store.ts.  Every handler   *)
(* is one synchronous SQLite transaction of a single Node process, hence   *)
(* one atomic step; the database survives a restart of the API, so a crash *)
(* of the API only loses requests in flight (CurationSystem).              *)
(*                                                                         *)
(* In this module the worker is arbitrary: it may send any update at any   *)
(* time.  CurationSystem adds the real worker and the network.             *)
(***************************************************************************)
EXTENDS Integers, FiniteSets

CONSTANTS
  MaxJobs,       \* BOUND: number of job records ever created
  Sources,       \* identities of registered sources and source revisions
  NumEpisodes,   \* episodes selected by the plan of a source
  Versions,      \* distinguishable contents of a source's files
  None,          \* no plan, no episode record, no source
  QueueCap,      \* 16 in the code
  ExpiryLimit,   \* 3 in the code
  Lease,         \* lease length in clock ticks (60 s in the code)
  MaxAttempt     \* BOUND: a job that has had this many attempts is not retried

ASSUME ConstantsAssumption ==
  /\ MaxJobs \in Nat /\ NumEpisodes \in Nat
  /\ QueueCap \in Nat /\ ExpiryLimit \in Nat
  /\ Lease \in Nat /\ MaxAttempt \in Nat
  /\ None \notin Versions /\ None \notin Sources

Jobs == 1..MaxJobs              \* in rowid order, the order of creation
Episodes == 1..NumEpisodes      \* in the order of the plan
Kinds == {"preflight", "import", "preview", "export"}
Statuses == {"none", "queued", "running", "completed", "failed", "cancelled"}
OptVersions == Versions \cup {None}

VARIABLES
  kind,          \* job.kind
  subject,       \* the source a job's payload names
  payload,       \* the plan in the source snapshot of a job's payload
  status,        \* job.status, "none" before the record exists
  attempt,       \* job.attempt, the fencing token of a lease
  age,           \* ticks since updated_at of a running job, 0 otherwise
  expired,       \* number of lease-expired entries in job.history
  error,         \* job.error: absent, reported by the worker, or by the lease
  plan,          \* source.plan
  sourceStatus,  \* source.status, "none" before the record exists
  episodes,      \* contents recorded by the committed episode records
  exported       \* export jobs whose artifacts are registered

jobVars == <<kind, subject, payload, status, attempt, age, expired, error>>
catalogVars == <<plan, sourceStatus, episodes, exported>>
apiVars == <<kind, subject, payload, status, attempt, age, expired, error,
             plan, sourceStatus, episodes, exported>>

TypeOK ==
  /\ kind \in [Jobs -> Kinds \cup {"none"}]
  /\ subject \in [Jobs -> Sources \cup {None}]
  /\ payload \in [Jobs -> OptVersions]
  /\ status \in [Jobs -> Statuses]
  /\ attempt \in [Jobs -> Nat]
  /\ age \in [Jobs -> 0..(Lease + 1)]
  /\ expired \in [Jobs -> Nat]
  /\ error \in [Jobs -> {"none", "worker", "lease"}]
  /\ plan \in [Sources -> OptVersions]
  /\ sourceStatus \in [Sources -> {"none", "preflight", "ready", "imported"}]
  /\ episodes \in [Sources -> [Episodes -> OptVersions]]
  /\ exported \in SUBSET Jobs

Init ==
  /\ kind = [j \in Jobs |-> "none"]
  /\ subject = [j \in Jobs |-> None]
  /\ payload = [j \in Jobs |-> None]
  /\ status = [j \in Jobs |-> "none"]
  /\ attempt = [j \in Jobs |-> 0]
  /\ age = [j \in Jobs |-> 0]
  /\ expired = [j \in Jobs |-> 0]
  /\ error = [j \in Jobs |-> "none"]
  /\ plan = [s \in Sources |-> None]
  /\ sourceStatus = [s \in Sources |-> "none"]
  /\ episodes = [s \in Sources |-> [e \in Episodes |-> None]]
  /\ exported = {}

-----------------------------------------------------------------------------
(* Creating jobs: the operator's requests.                                 *)

ActiveJobs == {j \in Jobs : status[j] \in {"queued", "running"}}

\* j is the next free row of the job table.
NextRow(j) == status[j] = "none" /\ \A i \in 1..(j - 1) : status[i] # "none"

\* job(kind, payload): refused when the queue is full, otherwise a new record.
NewJob(k, s, p) ==
  /\ Cardinality(ActiveJobs) < QueueCap
  /\ \E j \in Jobs :
       /\ NextRow(j)
       /\ kind' = [kind EXCEPT ![j] = k]
       /\ subject' = [subject EXCEPT ![j] = s]
       /\ payload' = [payload EXCEPT ![j] = p]
       /\ status' = [status EXCEPT ![j] = "queued"]
  /\ UNCHANGED <<attempt, age, expired, error>>

\* Mutant of AddSource: an existing source is registered again.
AddSourceAgain(s) ==
  /\ NewJob("preflight", s, None)
  /\ sourceStatus' = [sourceStatus EXCEPT ![s] = "preflight"]
  /\ UNCHANGED <<plan, episodes, exported>>

\* A source, or a new revision of one, is recorded together with its preflight
\* job in one transaction.
AddSource(s) ==
  /\ sourceStatus[s] = "none"
  /\ NewJob("preflight", s, None)
  /\ sourceStatus' = [sourceStatus EXCEPT ![s] = "preflight"]
  /\ UNCHANGED <<plan, episodes, exported>>

ImportActive(s) ==
  \E j \in ActiveJobs : kind[j] = "import" /\ subject[j] = s

\* Mutant of RequestImport: the source may still be in preflight.
RequestImportEarly(s) ==
  /\ sourceStatus[s] # "none"
  /\ ~ImportActive(s)
  /\ NewJob("import", s, plan[s])
  /\ UNCHANGED catalogVars

\* An import needs an approved plan; while an import of the source is active
\* the handler returns that job and changes nothing.
RequestImport(s) ==
  /\ plan[s] # None
  /\ ~ImportActive(s)
  /\ NewJob("import", s, plan[s])
  /\ UNCHANGED catalogVars

\* Previews and exports read committed episodes of a source.
RequestRead(k, s) ==
  /\ \E e \in Episodes : episodes[s][e] # None
  /\ NewJob(k, s, None)
  /\ UNCHANGED catalogVars

Cancel(j) ==
  /\ j \in ActiveJobs
  /\ status' = [status EXCEPT ![j] = "cancelled"]
  /\ age' = [age EXCEPT ![j] = 0]
  /\ UNCHANGED <<kind, subject, payload, attempt, expired, error, catalogVars>>

\* Mutant of Retry: any job that is not active can be retried.
RetryCompleted(j) ==
  /\ status[j] \in {"failed", "cancelled", "completed"}
  /\ attempt[j] < MaxAttempt
  /\ status' = [status EXCEPT ![j] = "queued"]
  /\ error' = [error EXCEPT ![j] = "none"]
  /\ UNCHANGED <<kind, subject, payload, attempt, age, expired, catalogVars>>

\* The attempt number is kept, and the length of the queue is not looked at.
Retry(j) ==
  /\ status[j] \in {"failed", "cancelled"}
  /\ attempt[j] < MaxAttempt
  /\ status' = [status EXCEPT ![j] = "queued"]
  /\ error' = [error EXCEPT ![j] = "none"]
  /\ UNCHANGED <<kind, subject, payload, attempt, age, expired, catalogVars>>

-----------------------------------------------------------------------------
(* Leases.                                                                 *)

\* The clock; only the age of a running job is ever looked at.
Tick ==
  /\ \E j \in Jobs : status[j] = "running" /\ age[j] <= Lease
  /\ age' = [j \in Jobs |-> IF status[j] = "running" /\ age[j] <= Lease
                            THEN age[j] + 1 ELSE age[j]]
  /\ UNCHANGED <<kind, subject, payload, status, attempt, expired, error, catalogVars>>

Overdue(j) == status[j] = "running" /\ age[j] > Lease

\* The job table as reconcileJobs leaves it.
ReconciledStatus ==
  [j \in Jobs |-> IF ~Overdue(j) THEN status[j]
                  ELSE IF attempt[j] >= ExpiryLimit THEN "failed" ELSE "queued"]

ReconcileRest ==
  /\ expired' = [j \in Jobs |-> IF Overdue(j) THEN expired[j] + 1 ELSE expired[j]]
  /\ error' = [j \in Jobs |-> IF Overdue(j) /\ attempt[j] >= ExpiryLimit
                              THEN "lease" ELSE error[j]]
  /\ UNCHANGED <<kind, subject, payload, catalogVars>>

\* reconcileJobs on the API's own five-second timer.
Reconcile ==
  /\ \E j \in Jobs : Overdue(j)
  /\ status' = ReconciledStatus
  /\ age' = [j \in Jobs |-> IF Overdue(j) THEN 0 ELSE age[j]]
  /\ ReconcileRest
  /\ UNCHANGED attempt

\* Mutant of Claimable: a running job does not hold back the next one.
ClaimableBesides(j) ==
  /\ ReconciledStatus[j] = "queued"
  /\ \A i \in 1..(j - 1) : ReconciledStatus[i] # "queued"

\* The first queued job, when nothing runs once expired leases are reconciled.
Claimable(j) ==
  /\ \A i \in Jobs : ReconciledStatus[i] # "running"
  /\ ReconciledStatus[j] = "queued"
  /\ \A i \in 1..(j - 1) : ReconciledStatus[i] # "queued"

\* POST /internal/claim that hands out j under a new attempt number.
ClaimJob(j) ==
  /\ Claimable(j)
  /\ status' = [ReconciledStatus EXCEPT ![j] = "running"]
  /\ attempt' = [attempt EXCEPT ![j] = @ + 1]
  /\ age' = [i \in Jobs |-> IF Overdue(i) \/ i = j THEN 0 ELSE age[i]]
  /\ ReconcileRest

\* POST /internal/claim that answers 204.
ClaimNothing ==
  /\ \A j \in Jobs : ~Claimable(j)
  /\ status' = ReconciledStatus
  /\ age' = [j \in Jobs |-> IF Overdue(j) THEN 0 ELSE age[j]]
  /\ ReconcileRest
  /\ UNCHANGED attempt

-----------------------------------------------------------------------------
(* POST /internal/jobs/:id: updates from the worker, each carrying the     *)
(* attempt number it was given.  Everything below is one transaction; an   *)
(* update that is not accepted changes nothing.                            *)

Accepts(j, a) == status[j] = "running" /\ attempt[j] = a

\* updated_at is refreshed by every accepted update, whatever the lease's age.
Refresh(j) == age' = [age EXCEPT ![j] = 0]

\* A heartbeat, or a stage and progress report.
Heartbeat(j, a) ==
  /\ Accepts(j, a)
  /\ Refresh(j)
  /\ UNCHANGED <<kind, subject, payload, status, attempt, expired, error, catalogVars>>

\* Mutant of CanPublish: the artifacts are not compared with the plan.
CanPublishUnplanned(j, a, e, v) ==
  /\ Accepts(j, a)
  /\ kind[j] = "import"
  /\ v # None
  /\ episodes[subject[j]][e] \in {None, v}

\* An episode of an import: its files must match the approved plan, and an
\* earlier record of the same episode must show the same evidence.
CanPublish(j, a, e, v) ==
  /\ Accepts(j, a)
  /\ kind[j] = "import"
  /\ v # None /\ v = payload[j]
  /\ episodes[subject[j]][e] \in {None, v}

PublishEpisode(j, a, e, v) ==
  /\ CanPublish(j, a, e, v)
  /\ episodes' = [episodes EXCEPT ![subject[j]][e] = v]
  /\ Refresh(j)
  /\ UNCHANGED <<kind, subject, payload, status, attempt, expired, error,
                 plan, sourceStatus, exported>>

Fail(j, a) ==
  /\ Accepts(j, a)
  /\ status' = [status EXCEPT ![j] = "failed"]
  /\ error' = [error EXCEPT ![j] = "worker"]
  /\ Refresh(j)
  /\ UNCHANGED <<kind, subject, payload, attempt, expired, catalogVars>>

\* The result of a preflight is a manifest (the contents it found), that of an
\* import a number of episodes.  A manifest that differs from an approved one
\* makes put throw, which rolls the whole update back.
CanComplete(j, a, manifest, count) ==
  /\ Accepts(j, a)
  /\ kind[j] = "preflight" => manifest # None /\ plan[subject[j]] \in {None, manifest}
  /\ kind[j] = "import" => count = NumEpisodes

\* What each kind of job leaves in the catalog when it completes.
ApprovePlan(s, manifest) ==
  /\ plan' = [plan EXCEPT ![s] = manifest]
  /\ sourceStatus' = [sourceStatus EXCEPT ![s] = "ready"]
  /\ UNCHANGED <<episodes, exported>>

FinishImport(s) ==
  /\ sourceStatus' = [sourceStatus EXCEPT ![s] = "imported"]
  /\ UNCHANGED <<plan, episodes, exported>>

RegisterExport(j) ==
  /\ exported' = exported \cup {j}
  /\ UNCHANGED <<plan, sourceStatus, episodes>>

Complete(j, a, manifest, count) ==
  /\ CanComplete(j, a, manifest, count)
  /\ status' = [status EXCEPT ![j] = "completed"]
  /\ Refresh(j)
  /\ UNCHANGED <<kind, subject, payload, attempt, expired, error>>
  /\ \/ kind[j] = "preflight" /\ ApprovePlan(subject[j], manifest)
     \/ kind[j] = "import" /\ FinishImport(subject[j])
     \/ kind[j] = "export" /\ RegisterExport(j)
     \/ kind[j] = "preview" /\ UNCHANGED catalogVars

-----------------------------------------------------------------------------
Operator ==
  \/ \E s \in Sources : AddSource(s) \/ RequestImport(s)
  \/ \E s \in Sources, k \in {"preview", "export"} : RequestRead(k, s)
  \/ \E j \in Jobs : Cancel(j) \/ Retry(j)

\* Whoever holds an attempt number may use it, in any order and at any time.
Update(j, a) ==
  \/ Heartbeat(j, a)
  \/ \E e \in Episodes, v \in Versions : PublishEpisode(j, a, e, v)
  \/ Fail(j, a)
  \/ \E v \in OptVersions, n \in 0..NumEpisodes : Complete(j, a, v, n)

Next ==
  \/ Operator
  \/ Tick
  \/ Reconcile
  \/ ClaimNothing
  \/ \E j \in Jobs : ClaimJob(j)
  \/ \E j \in Jobs : \E a \in 1..attempt[j] : Update(j, a)

Spec == Init /\ [][Next]_apiVars

-----------------------------------------------------------------------------
(* Properties.                                                             *)

\* One background job at a time: a claim hands out a job only after every
\* lease has been given up, whatever was cancelled, retried or expired before.
OneRunning ==
  \A i, j \in Jobs : status[i] = "running" /\ status[j] = "running" => i = j

\* The source snapshot an import job carries is taken when the import is
\* requested and trusted when the job is retried or completed, perhaps long
\* after: it still is the source's approved plan.
SnapshotIsApprovedPlan ==
  \A j \in Jobs : kind[j] = "import" => payload[j] = plan[subject[j]]

\* Every committed episode shows the contents that were approved, and the
\* approval came first.
EvidenceIsApproved ==
  \A s \in Sources : \A e \in Episodes : episodes[s][e] \in {None, plan[s]}

\* A source leaves preflight exactly when its one preflight job completes.
PreflightDecides ==
  \A s \in Sources :
    sourceStatus[s] \in {"ready", "imported"}
      <=> \E j \in Jobs : /\ kind[j] = "preflight" /\ subject[j] = s
                          /\ status[j] = "completed"

\* The inductive strengthening of the four above.  A row without a record is
\* blank, a record is about a source, an import is requested with a plan in
\* hand, a read with a committed episode ...
RowsFilled ==
  \A j \in Jobs :
    /\ status[j] = "none" => kind[j] = "none" /\ attempt[j] = 0
    /\ status[j] # "none" => kind[j] \in Kinds /\ subject[j] \in Sources
    /\ kind[j] = "import" => payload[j] # None
    /\ kind[j] \in {"preview", "export"} => \E e \in Episodes : episodes[subject[j]][e] # None

\* ... and each source has one preflight job, which completes when the plan
\* appears and the source leaves preflight.
OnePreflight ==
  /\ \A i, j \in Jobs :
       kind[i] = "preflight" /\ kind[j] = "preflight" /\ subject[i] = subject[j] => i = j
  /\ \A j \in Jobs : kind[j] = "preflight" =>
       /\ sourceStatus[subject[j]] # "none"
       /\ status[j] = "completed" <=> plan[subject[j]] # None
  /\ \A s \in Sources :
       /\ plan[s] # None <=> sourceStatus[s] \in {"ready", "imported"}
       /\ sourceStatus[s] # "none" => \E j \in Jobs : kind[j] = "preflight" /\ subject[j] = s

JobsInv ==
  /\ TypeOK /\ OneRunning /\ RowsFilled
  /\ SnapshotIsApprovedPlan /\ EvidenceIsApproved /\ OnePreflight

\* A plan once approved and an episode once committed never change or vanish,
\* and a source never goes back to an earlier stage.
Stage == [none |-> 0, preflight |-> 1, ready |-> 2, imported |-> 3]
CatalogGrows ==
  \A s \in Sources :
    /\ plan[s] # None => plan'[s] = plan[s]
    /\ \A e \in Episodes : episodes[s][e] # None => episodes'[s][e] = episodes[s][e]
    /\ Stage[sourceStatus[s]] <= Stage[sourceStatus'[s]]
Durable == [][CatalogGrows]_apiVars
=============================================================================
