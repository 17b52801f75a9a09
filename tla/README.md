# A TLA+ model of Astralignment

Astralignment is two programs in one repository. The *curation service* takes
recorded robot episodes in, has an operator approve, review and select them, and
exports frozen selections. The *workbench* runs a simulated robot, captures a
failed run, lets a language model search for and repair a policy in a sandbox,
and compares the outcomes. This directory models both: the service with its
leases, approvals and frozen versions; the core of the workbench, where results
must belong to the world they are shown with; its spending and its archive on
disk; and the browser pages, which see all of it late.

Everything here is translated from the code; `PROJECT.json` gives, for each
definition, the lines it stands for.

## 1. The system

| Component | State it keeps | Operations | Talks to | What is hard |
|---|---|---|---|---|
| Curation API (`gateway/curation/app.ts`, `store.ts`) | jobs with leases; sources, episodes, artifacts; collections, reviews, versions; search entries, all in SQLite | register and revise sources, import, preview, export, cancel, retry; claim and update by the worker; reconcile expired leases; review, edit, freeze | worker and browsers over HTTP | several actors over one table; retries of old work; checks against snapshots taken long before |
| Curation worker (`worker/curation.py`) | the job it executes, what was acknowledged, whether its lease is lost | claim, preflight, import episode by episode, preview, export; a heartbeat thread beside it | API over HTTP, files | timeouts whose request is still served later; crashes in the middle; files that change under it |
| Data-directory lock (`store.ts` constructor, `close`) | the file `curation.lock` | read, check owner, remove stale, create, write, release | operating system | several processes between the steps; deaths |
| Native supervisor (`supervisor.ts`, `server.ts`) | child, restart timer, failure count | start, close, scheduled restart, operator restart, stop | worker process, lock | exits, timers and signals in any order |
| Collections in the browser (`web/src/curation`) | a copy of the collection | load, edit, freeze | API | acting on stale copies, lost answers |
| Artifacts (`artifacts.ts`) | verification queue, result cache | verify a file once, serve it | files | bounds, eviction |
| Export storage, backup (`worker/curation.py`, `storage.py`, `backup.py`) | staged and published directories, quota | stage, publish by rename, verify, copy while stopped | files, lock | crashes between steps |
| Media and metrics (`worker/media.py`, `metrics.py`) | none | decode and measure | | numeric only |
| Simulation service (`sim/server.py`, `world.py`, `evaluator.py`) | scene epoch, episode, checkpoints, branches, evaluation slots | reset, run, step, checkpoint, fork, evaluate | gateway | work that outlives the scene it began in |
| Workbench gateway (`gateway/index.ts`, `sim-client.ts`, `evidence.ts`) | current job, captured failure, artifacts | observe, search, repair, replay, held-out runs, calibration | simulation, browser, model | state read again after an await |
| Repair loop and budget (`astra.ts`, `store.ts`) | reserved and spent money, artifacts | reserve, call, settle, persist | model, sandbox | crash between reserve and settle |
| Policy sandbox (`policy.ts`, `policy-worker.mjs`) | pending calls of a worker thread | start, call, time out, close | gateway | answers that race timeouts |
| Experiment archive (`recordings.ts`) | write chain, quota | publish by rename | files | a failed write among queued ones |
| Camera pairing (`camera.ts`, `web/src/camera`) | a session with two sockets | pair, replace, expire, calibrate | phones, browser | replacement and close in any order |
| Perception (`perception/`, `gateway/perception.ts`) | session, last frame, request in flight | start, frame, expire | camera, gateway | late and repeated frames |
| DimOS bridge (`sim/dimos_bridge.py`) | granted control | command, revoke | simulation | state read before the guard |
| Dashboard (`web/src/App.tsx`, `product/useWorkspace.ts`, `viewer`) | snapshot, model, repair and results on display, requests under way | refresh, poll, restore, repair, held-out runs | gateway over HTTP and two sockets | answers that were overtaken, lost events, tasks of minutes |
| Access, authentication, deployment (`access.ts`, `auth.ts`, compose files) | none | check a request | | stateless |

Every handler of the API is synchronous code over SQLite in one Node process, so
it is one atomic step; that is what makes the models small. What can interleave
are whole requests, the steps of the worker's two threads, the timers and the
processes themselves.

What must hold of each part, in words:

* **Jobs.** One job runs at a time. The right to report a result is a job's
  attempt number: an old attempt changes nothing. Every job ends or is cancelled.
* **Evidence.** The contents of a source are approved once; every episode shows
  the approved contents; a source counts as imported when all its episodes are
  there; nothing is taken back.
* **Ownership.** One API has the data directory, and no worker works on a
  directory whose API has given it back.
* **Collections.** No edit undoes one its author has not seen; a frozen version
  is what its author saw; of the reviews of an interval one is current.
* **Simulation service.** A result is about the scene that is live when it is
  given; every branch belongs to that scene; no evaluation slot is lost.
* **Workbench.** At most one job runs; what is captured, promoted, replayed or
  returned was measured with the source and on the world it is about; aborted
  measurements leave nothing behind.
* **Budget.** What may be charged is on disk and within the limit; nothing stays
  reserved that no call uses.
* **Archive.** A record that can be read is whole; one reported as saved stays,
  over crashes and, where directories can be synced, over power failures.
* **Dashboard.** Late answers do not set the display back; a model, a result and a
  repair are shown with the world and the source they belong to; the page catches
  up with what it missed.
* **Camera.** The late close of a replaced socket takes nothing from its successor;
  a phone and a viewer that stay come together.

## 2. The modules

| Module | Models | State | Actions |
|---|---|---|---|
| `EvidenceCatalog` | what the service promises of its evidence | plan, stage and episodes of each source, exports | register, approve, commit, imported, export |
| `CurationJobs` | `app.ts`, `store.ts`: job table and catalog; an arbitrary worker | the job records by column, the source and episode records | one per handler: `AddSource`, `RequestImport`, `RequestRead`, `Cancel`, `Retry`, `ClaimJob`, `ClaimNothing`, `Heartbeat`, `PublishEpisode`, `Fail`, `Complete`, `Reconcile`, and the clock `Tick` |
| `CurationSystem` | the above with the real worker and the network | where the main thread is, its lease, what it saw acknowledged, the request of each thread, late requests, the files | the worker's steps, the heartbeat thread, serving, late serving, timeouts, crashes, changing files |
| `StoreLock` | the ownership lock | whose file is at the path, which files are written, where each process is | one per file operation, and death |
| `CurationHost` | `server.ts`, `supervisor.ts` over `StoreLock` | worker, status, failures and timer of each API process, whether a client is connected | serve, spawned, closed, timer, operator restart, client connects or leaves, signal, stopped, drained, crash |
| `CollectionDraft` | what editors of one collection may rely on | draft, revision, reviews, versions | one per edit, review, freeze |
| `CurationCollections` | the collection handlers and the browsers | the records, each client's copy, the requests on their way | load, edit, freeze, abandon, serve, refuse, review, import |
| `SimService` | `sim/server.py`, `world.py`: whatever its clients ask | live world, checkpoints, branches, slots, and the request of each client with the branch it works on | one per request served under the lock (`Look`, `Reset`, `Invalidate`, `Capture`, `Delete`), two for those that leave it (`ForkBegins`/`ForkEnds`, `EvaluateBegins`/`EvaluateEnds`, `BranchBegins`/`BranchEnds`), `Restart` |
| `Gateway` | `gateway/index.ts`, `sim()`: jobs, search, edits | captured failure, calibration, job and its abort signal, artifacts, and each handler's place and locals | one per stretch between two awaits: `StartSearch`, `SearchReset`, `SearchReread`, ..., `ApplyEdit`, `ConfirmEdit`, `StartCalibrate`, `Cancel` |
| `Repair` | `astra.ts`, `sim-client.ts`, `evidence.ts`, replay and held-out runs of `index.ts` | the same | `BeginRepair`, `Candidate`, `Forked`, `Stepped`, `MeasureResult`, `Cleaned`, `Promote`, `BeginReplay`, `HeldOutRechecked`, ... |
| `Workbench` | browsers, gateway, service and disturbances together | and three history variables | `BrowserStep`, `HandlerStep`, `ServiceStep`, `Disturb` |
| `AstraBudget` | `store.ts`, the calls of `observe.ts` and `astra.ts` | the budget in memory and in `state.json`, the chained saves, each call, what may be charged | `ReserveCall`, `RefuseCall`, `Ask`, `Settle`, `Serialise`, `Rename`, `WriteFails`, crash, power failure |
| `RecordBook` | what the archive promises | the readable, the durable and the acknowledged records | enter, fasten, acknowledge, lose |
| `ExperimentArchive` | `recordExperiment()` of `recordings.ts` | each record's file and name, the write chain | `Submit`, `Admit`, `Open`, `Flush`, `Publish`, `SyncDirectory`, `Acknowledge`, `Fail`, crash, power failure |
| `GatewayDisk` | both on one disk, under repairs, looks and measurements | both, and which repairs died with their process | `Request`, `DiskStep`, `Fault` |
| `LiveView` | what the dashboard may rely on of the world on display | live and shown world | replace, show |
| `Workspace` | `useWorkspace.ts`: snapshots and models | the live world, the frame on its way, each request and model request, which requests were not overtaken, what is shown | `Reset`, `SendFrame`, `Serve`, `Frame`, `TakeModel`, `Refresh(ed)`, `Watch(ed)`, `Fault`, `Connect` |
| `Dashboard` | `useWorkspace.ts`: repairs; `App.tsx`: repair and held-out tasks | the gateway's repairs with their present source, its job, events on their way, requests, the page's task, what is shown | `RepairGoesOn` for the gateway (each candidate, verdict, saving and error a step), and one per event, answer, click and effect: `Event`, `Hydrated`, `Poll`, `Saved`, `AskRepair`, `ShowResult`, `AskHeldOut`, `HeldOutDone`, `Conclude`, ... |
| `CameraSession` | `camera.ts`, `web/src/camera`, `web/src/phone` | the session's two places, each socket at both ends with what is on its way, peer connections, pages | `Upgrade`, `Relay`, `ServerClosed`, `Expire`; `Open`, `Connect`, `Message`, `ClientClosed`, `Stop`, `MediaFailed`, `Drop` |
| `*_proofs` | theorems of the module of that name; `CurationSystem_proofs` has those of `CurationJobs` too, `Workbench_proofs` those of `SimService` | | |
| `MC*` | finite instances for TLC | | |

`Workbench` extends `Repair`, which extends `Gateway`, which extends `SimService`:
a handler is a client of the service, and awaiting an answer is having a request
there. `CurationSystem` extends `CurationJobs`, `CurationHost` extends `StoreLock`: the
composed module adds conjuncts to the actions of the component and never changes
one. `GatewayDisk` extends `AstraBudget` and `ExperimentArchive`, and `Dashboard`
extends `LiveView`, whose steps are all it knows of the world on display.
Four modules are shown to implement an abstract one: `CurationSystem`
implements `EvidenceCatalog`, `CurationCollections` implements `CollectionDraft`,
`ExperimentArchive` implements `RecordBook`, and `Workspace` implements `LiveView`,
so that what `Dashboard` assumes of its display is what `Workspace` provides.

### Abstractions

* A source's files have *contents*, members of a small set; the plan, an episode
  record and the files on disk are compared as contents. A hash comparison is
  equality of contents.
* A job's payload is the source it names and the plan in its snapshot. Previews
  and exports read; what they compute is left out.
* Time is the age of the one running lease in ticks; `Lease` ticks are the 60
  seconds of the code. A lease that has aged `Lease + 1` ticks is overdue, and
  ages no further.
* A refused update (wrong attempt, quota, changed file) is an error answer
  without effect, as the transaction in the code makes it.
* A crash of the API loses no record (SQLite) and the requests in flight, which
  is a lost exchange; with the native worker it also ends the worker.
* A lock file is a process identity once it is written, and does not parse before.
  The operating system may say that a dead owner is alive, because the number was
  given to another process.
* A review is its episode, its span and the review it supersedes; the reason of an
  exclusion, names and texts are left out.

* Of a simulated world, only the identity is kept: scene, epoch, episode, whether
  it was invalidated; and the verdict of an evaluation is any. The clock, `run`,
  `pause`, `resume`, `step` and `commands` change none of these. Episode ids and
  handles (UUIDs in the code) are numbers never used again; epochs are numbers
  that start over with the service, as in the code.
* A scene is its measured floor, its obstacles and a seed that stands for all the
  rest. A generated scene is any other seed on the same stage; that generation
  may be refused for want of room is left out, as it changes nothing.
* One step of a handler runs from one await to the next. A request is answered by
  a step of the service; a lost reply means it was served and the handler sees an
  error. A response of the model asks for at most one tool; a repair's experiment
  records are among the things that may fail.
* On disk, a rename is atomic and is on disk once the directory was synced; a file is
  on disk once it was synced. A crash of the process loses neither; a power failure
  may undo any that is not on disk, and cuts off the end of a file that was not
  synced. `state.json` is synced by nobody, so a power failure may bring back its
  former contents (`former`); one rename back is enough to break any promise.
  `SyncsDirectories` is the platform: `recordings.ts:164` syncs the directory except on
  Windows, where a rename of an acknowledged record may be undone.
* `bill` is the most that can be charged: a call counts with its whole reserve from
  the moment it leaves until its usage is known, and for ever if it never is. The
  model is assumed to cost no more than was reserved (`Costs \subseteq 0..Reserve`):
  `store.ts` reserves $3 for any call and checks nothing afterwards. The token
  prices, an estimate in the code, are left out.
* A repair is composed with one model call and two records, the one before its
  first call and the one after; what lies between is `Repair`. A record's file
  name is a fresh UUID in the code; here a record is the submission it came from.
* For the dashboard, a world is its epoch and episode, numbered as they become
  live. `snapshotRevision` and `repairRevision` are the sets of requests that no
  accepted snapshot or published repair has overtaken (`fresh`). A repair's
  source is 0 before the model has given one, and then a number that each candidate
  may replace until there is a verdict (`astra.ts:68-71`); a hash is of the source alone, so
  two repairs may share one. The status `testing` is told both while a candidate is
  tested and after (`tested` in the model), and a verdict is reached before it is saved
  (`saving`). A refresh of `Dashboard` is one step, as its health request shows nothing
  that is kept.
* A client's connection to the curation API is one flag: whether any is open.
  `server.close` refuses new ones and closes idle ones; a request, a download or a slow
  reader keeps one open for as long as it likes.
* A camera socket is a queue in each direction that ends with a close carrying a
  code; either end may close first, and a connection may be lost with all that is
  on its way. The relay does not know which offer an answer is for; neither does
  a peer connection, which takes any answer while it waits for one. ICE
  candidates, tracks and the signals' text are left out: media flows when each
  side has the other's description.
* History variables, which no action reads: the episode of the last confirmed
  edit (`edited`), what last replaced the live scene (`placed`), and whether a
  reply was lost (`lost`).

## 3. The runs

Run with `tlc -workers 2 -config X.cfg M`. All are exhaustive.

| Run | Instance | Shows |
|---|---|---|
| `curation_jobs` | three jobs over two sources with two contents, queue of two, two expiries, three attempts | with a worker that may send anything: one lease at a time, approved evidence, a plan decided once, nothing taken back |
| `curation_system` | two jobs over one source of two episodes and two contents, one fault, one late request | with the real worker: imports are complete, acknowledgements true; implements `EvidenceCatalog` |
| `curation_liveness` | three jobs over one source, two faults, no late request | every job settles |
| `curation_host` | two API processes, two restarts, serial starts | the lock covers owner and worker; restarts are bounded; a signal ends everything unless a client holds the API open; a worker comes back or the supervisor says it gave up |
| `curation_collections` | two tabs, two episodes, two saves, two reviews, one version, two requests on their way | no lost edit, versions as seen, review chains, search entries |
| `workbench` | two handlers, one operator, two sources, two seeds, one obstacle; one checkpoint, branch and slot; two trials, two turns, one test, one branch step; four requests of which one may be a disturbance (lost reply, restart, cancel, reset, invalidation or evaluation by the operator) | nothing stale is captured, promoted, replayed, returned or answered; no branch or slot leaks |
| `gateway_disk` | one repair, two other calls, one measurement; room for two calls and two of three records; one crash or power failure, any number of failed writes; directories are synced | spending is covered and reserves released; records are whole and stay; charges are on record |
| `workspace` | three worlds, one fault | the model belongs to the world shown, late answers never set the page back, it catches up; implements `LiveView` |
| `dashboard` | two worlds, an earlier repair and one begun meanwhile, two candidates with two sources, one fault | held-out results are of the world and source shown; a repair does not stay unsettled |
| `camera` | one phone, two viewers, four events (opened, stopped, lost) | the place belongs to the successor; a pair that stays comes together |
| `lock_race`, `lost_edit` | small | the two disagreements of section 6 that a run exhibits |

Why the bounds are enough. A second attempt is what a stale one can be confused
with, so attempts go to two or three. One fault is enough for a request to be
lost, late or served twice in effect (served, then the answer lost, then the job
retried); `curation_liveness` has two so that a fault can hit the recovery from
a fault. Two contents are enough to tell approved from found. Two sources are
needed only where jobs of one could disturb the other, which is in
`curation_jobs`. Three jobs, one more than the queue, let a retried job meet a
full queue. A lease of length zero (one tick and it is overdue) has every order
of expiry and update that a longer one has. Two processes are enough for a
start to meet a dead owner; that the lock is safe for any number is proved. Two
saves are one that makes a copy stale and one that is made from it; two reviews
are one to be superseded and one to supersede it. In `workbench`, two handlers are
one that runs a job and one that edits or waits for it; four requests are a
search, a repair, what is done with the result, and one event that disturbs any
of the three, or two rounds of search with an edit between them. With one
checkpoint, branch and slot each limit is reached by two requests; one test and
two turns let a source be written that is no longer measured, two sources let it
differ from the measured one, and two trials have a gap between them. In
`gateway_disk` two calls exhaust the limit while a third is refused, and two
records fill the archive, by number or by size, while a third is refused. One
crash leaves a second process in which the rest is done over what the first left.
In `workspace` three worlds let an answer be two behind; a second fault adds
nothing but the loss of the model request of another world. In `dashboard` a
second world or source is what a result can wrongly be shown with, and two candidates
let a source be replaced between the click and the verdict. One fault loses an event,
or lets a poll fail, or ends the page's wait; the page's tasks can be repeated
without bound. In `camera` the second viewer is what replaces the first; four events are
the two openings that make a pair, and two that disturb it. `SYMMETRY` is used only in
runs without liveness, over sources, contents, clients, handlers and episodes,
none of which the modules order.

Deadlock is checked in the `CurationSystem` runs, where the worker always has
something left to do, and in `workspace` and `dashboard`, where the sockets, the poll
and the world on display go on for ever. Elsewhere the instance really stops: every record a bound
allows has been written, or all processes have ended.

### Fairness

`FairSpec` (CurationSystem) assumes weak fairness of the worker's main thread and
heartbeat (they loop over `request` and `time.sleep`), of the supervisor starting
a worker, of the API serving what reached it (an event loop with no starving
queue), of the clock and of the five-second reconcile timer. Faults, the
operator and file changes are not fair, so no property waits for them or for
their absence beyond the bound on faults. `JobsSettle` therefore rests on faults
being finitely many, which is what three attempts and an operator's retry assume
too.

`FairHostSpec` assumes weak fairness of an API process's own steps once it has
started, of a new child reporting spawn or failure, of timers, and of a killed
child closing. A worker that is up may run for ever, and nothing makes an
operator restart one. `Drained`, the callback of `server.close` (`server.ts:27`), is
fair once no connection is open; clients are not fair, so a connection may hold a
stopping API for ever, and `StopsCleanly` says only that nothing else can
(`HeldByClient`).

`Workspace` assumes that the server answers what it was asked, that the browser
delivers what arrives, and that the interval and the reconnect timers fire: these
are event loops and timers that nothing starves. `Dashboard` assumes less: that
the gateway goes on with its repair and ends its job (its model calls, tests and
measurements have timeouts), that the poll fires, and that the saved repairs it asks
for are served and taken. Events, their socket and the history are not counted on.
Resets, clicks, refreshes and faults are not fair.

`CameraSession` assumes weak fairness of each socket's next step at the gateway and
in the page, retries included. Its timing assumption is `Delivered`: the 1.5
seconds before a retry, and the time media takes to fail, are longer than a signal
is on its way. `Delivered` is stronger than that: it waits until nothing at all is
on its way in the session, and not only the signals of the two that retry. A lost
connection is told to its page at once (`Drop`). `PairConnects` is shown under these
two simplifications. How long the gateway takes to notice a lost connection is
not assumed. Without `Delivered` the run finds a pair that never comes together
although everything is fair: an answer to the first of two offers is taken for the
answer to the second, both sides find their media failing, and reconnect into the
same situation for ever.

## 4. The properties

`CurationJobs`: `OneRunning`; `SnapshotIsApprovedPlan` (the snapshot an import carries is
trusted with no second look when it is retried); `EvidenceIsApproved` (of the hash
the worker reported; what it decoded after hashing is in section 7);
`PreflightDecides`; `Durable` (an action property).
`CurationSystem`: `ImportedIsComplete` (the API checks a number only);
`AcknowledgedIsCommitted`; `KeepsPromise` (refinement); `JobsSettle` (liveness).
`CurationHost`: `OwnerHasLock`, `LockCoversWorker`, `BoundedRestarts`, and the liveness
properties `StopsCleanly` (a signalled API ends and leaves nothing behind, unless
it dies first or a client holds on) and `WorkerComesBack`.
`CurationCollections`: `RevisionIdentifiesDraft` (why comparing a number is enough),
`FrozenAsSeen`, `OneCurrentReview`, `IndexKnowsReviews`, `KeepsEdits` (refinement).
`SimService`, checked under the gateway: `SlotsAreRunning`, `AnswersAreCurrent` (an
action property: a reset during an evaluation or a branch step is never
overlooked).
`Workbench`: `NoStaleCapture` (a search that an obstacle edit aborted captures
nothing); `PromotedWasMeasured` and `ReplayOfOrigin` (the source and the
checkpoint are those of the artifact, though both are looked up again after
awaits and epochs repeat after a restart); `HeldOutOnOrigin`; `NoLeakedBranch`.
The run's four requests do not reach two worlds with one epoch after a restart, and
its one test leaves no earlier test to take a result from: for these two cases
`PromotedWasMeasured` and `HeldOutOnOrigin` rest on their theorems.
`NoStaleCapture` says nothing of a calibration: that drops the evidence before its
reset is served, so a search that starts in between may capture a failure of the
old stage. Every use of the failure compares it with the live state again.

`AstraBudget`: `SpendingCovered` (what may be charged is on disk, and within the limit,
unless the power has failed) and `NoReserveLost` (no reserve without its call,
unless the state file cannot be written any more; what happens then is in section
6, and no property speaks of it).
`ExperimentArchive`: `VisibleIsWhole`, over power failures too; `KeepsBook` (refinement):
quotas hold and acknowledged records stay. The book is `Durable` where directories are
synced: only then does a record have to be fast before it is acknowledged.
`GatewayDisk`: `ChargesAreOnRecord` relates the two files: a repair's call is never
charged without the record of what was to be repaired; over a power failure,
where directories are synced.
`Workspace`: `ModelOfShown`; `AnswersNeverSetBack` (an action property); `CatchesUp`
(liveness); `ShowsLiveWorlds` (refinement).
`Dashboard`: `HeldOutIsOfShown`: the world half, though the page compares the world of
the click with the display and never with the world of the measurement; the
source half, because it compares the measured hash with that of the click
(`policy_hash`, `App.tsx:149`): the repair may have had another source by the time it
was measured, and without that comparison TLC finds the wrong one shown.
`RepairSettles` (liveness).
`CameraSession`: `ReplacementStays`; `PairConnects` (liveness).

Each property comes with a plausible bug in the code (a definition marked
"Mutant of ...", listed in `PROJECT.json`) under which TLC finds it violated. Type
invariants and a few facts that others rest on (attempt numbers were handed out,
restarts follow a close, branches belong to the live scene) are proved and need
no run.

## 5. The proofs

The `_proofs` modules are checked by `tlapm`; they hold for every value of the
constants that satisfies the named assumptions in the modules (naturals for the
bounds, `None` and `Nobody` distinct from the values beside them, handlers and
operator distinct).

* **CurationJobs.** `JobsInv` is inductive. Beside the properties it says that a row is
  filled in as its status says (`RowsFilled`) and that each source has one
  preflight job, completed exactly when the plan is there (`OnePreflight`):
  without it an import's snapshot could be older than the plan.
* **CurationSystem.** `SystemInv` adds that messages on their way tell the truth
  (`MessagesTrue`: one that reports an import complete was sent after all its
  episodes were committed) and what the main thread waits for (`MainThread`).
  Since nothing in the catalog is taken back, a true message stays true however
  late it is served: this is why late requests are harmless. From it follow the
  safety theorems, that the system implements the API with an arbitrary worker
  (`SystemImplementsApi`), and the refinement `ServiceKeepsPromise`.
* **StoreLock, CurationHost.** With serial starts `LockInv` is inductive: a starting process
  that is about to remove a file has seen it with its owner dead, and nobody else
  has the directory. `HostUsesLock` carries this over to the host processes, and
  `SupervisorInv` adds what the supervisor's variables say in each phase. The
  theorems `SerialStartsExclude` and `WorkersAreCovered` are stated under
  `Serial`; run `lock_race` shows why.
* **CurationCollections.** `CollectionInv`: a request is one edit of the copy it was composed
  from, a copy with the current revision is the draft, and the current review of
  an interval is its latest. The refinement follows: a save that passes the
  revision check was composed from the draft as it is.

* **SimService.** For any number of clients and any requests. `Epochs`: within one run
  of the service an epoch stands for one scene and episode, so a world that still
  carries the live epoch is the live one, unless it was made for an explicit
  scene and has an episode of its own. `Handles`: a handle is issued once, so a
  branch still registered is the one a step began with. Without the second the
  answer of a step could be about another branch than the one looked up again.
  `AnswersStayCurrent`, `BranchesStayLive` and `EpochsIdentify` follow; `SlotsAreNotLost`
  is inductive with the types. `SimTypeCorrect` needs it: a slot that is given back
  was taken.

* **GatewayDisk.** For any number of calls, repairs, writes, crashes and power failures.
  `DiskInv` has three parts. `Covered` says that the memory, the write in progress
  and the file each cover what was charged plus the reserves of the calls that may
  leave without further saving: a call may leave when its save was renamed, and
  every write serialised since its reservation contains it. Only the file's part is
  the property; the other two make it inductive, as the chain renames what was
  serialised earlier. `Chained` says which calls wait in the chain, so that a
  failed write rejects exactly these. `ArchiveInv` has `Lined` (only the head of the
  chain is at work, each record is queued once), `Progress` (what file and name
  look like in each phase) and `SavedShown` (an acknowledged record is readable, and
  fast if directories are synced). From it follow `VisibleIsWhole`, `SavedIsReadable` and
  the refinement `ArchiveKeepsBook`: publishing enters a record, syncing the directory
  fastens the book, and a power failure loses only what was not fastened.
  `OnRecord`, over both files, gives `RepairsAreOnRecord`. The theorems are for
  either value of `SyncsDirectories`. Where it is FALSE they promise an acknowledged
  record, and the record of a charge, only until the power fails.
* **Workspace.** `ViewInv`: every frame, answer and model on its way is of a world
  that is or was live, and an answer that is still fresh is no older than the
  display. The second is why the revision counter is enough.
* **Dashboard.** `DashInv`: every copy of a repair, in an event, in an answer or on
  display, names the world of that repair (`CopiesGood`); its source may long have been
  replaced. A held-out request was made in the world of its repair (`PostGood`).
  The gateway measures held-out runs only while that world is live, so the
  results are of the request's world, though the page never compares the two; of
  the source nothing of the kind holds, and there the page's comparison of
  hashes is what the proof rests on (`HeldOutBelongs`).

* **Workbench.** For any number of handlers, sources, obstacles, trials and faults. The
  first step is the refinement `WorkbenchUsesService`: gateway and operator are
  clients of the service like any others, so its theorems hold here
  (`WorkbenchKeepsService`). The invariant has parts that build on each other:
  * `Base`: the types, and where each handler may be: which stages its kind goes
    through, which request each stage awaits, which stages hold the exclusive job
    (`Control`). It is what makes every answer one to the question asked.
  * `Dates`: no checkpoint, branch or work under way is of a later world than the live
    one. The pair of episode and epoch orders worlds, over restarts too, where the
    epoch alone repeats.
  * `FreshInv` gives `NoStaleCaptures`. A search that is not aborted holds nothing older
    than the last edit; it has to be said of the answer on its way to the search
    and of the context it evaluates and records, for the abort may come at each.
  * `CtxInv`: the context of a failure is that of its checkpoint, and no two contexts
    share an episode. It is why replay is right to fork the checkpoint of the last
    failure once `assertArtifactOrigin` has compared episode and epoch.
  * `MeasureInv` gives `PromotedWereMeasured`, `ReplaysOfOrigin` and `HeldOutsOnOrigin`. For
    a handler that measures it says what the fork it asks for, the branch it holds
    and the result it has are about (`Measures`), which of these its artifact may rely
    on at this stage (`Mine`), and that no repair writes an artifact whose held-out
    results are being returned (`Apart`). For held-out trials this is a disjunction: the scene is that of the
    artifact, or the artifact's world has been replaced, in which case the check of
    the live state after the measurement fails.
  * `LeakInv` gives `NoLeakedBranches`: every branch has a handler that will delete it,
    and a branch whose deletion was answered is gone. Like the property it stops at
    the first lost reply; the operator may ask for anything but forks, for nobody
    would delete those (the theorem's only hypothesis, met by run `workbench`).
* **CameraSession.** `Places`: a socket is open at the gateway only from its upgrade until it
  closes, the session expires or another takes its place, and a place is cleared
  only for the socket that has it. `ReplacementsStay` follows.

Every invariant, action property and refinement of the passing runs is proved. Only
model-checked are the liveness properties (`JobsSettle`, `StopsCleanly`,
`WorkerComesBack`, `CatchesUp`, `RepairSettles`, `PairConnects`), which are outside what the
prover does, and the two violated claims of section 6.

## 6. Where the code and its documents disagree

Shown by a run:

* `lock_race`: two processes that start over the lock of a dead one can both
  find it stale; the second removes the lock the first has just created. Both
  then own the directory, of which `docs/CURATION_IMPLEMENTATION.md:147` says that
  one API owns it.
* `lost_edit`: a search sends the reset of its next trial; an obstacle edit is
  served first; the search's reset follows and restores the stage without the
  obstacle, with no expected epoch to refuse it. The human is then told that the
  obstacle is in place. The failure is not captured, but the scene stays wrong.

Also visible in the model, without a run of their own:

* Retrying a job does not look at the length of the queue (`app.ts:237`), so more
  jobs can be pending than the cap of 16 in `docs/CURATION_IMPLEMENTATION.md:148`:
  fill the queue, cancel one, add another, retry the first.
* The attempt number stands in for the number of expiries (`curation/store.ts:54`)
  and a retry keeps it: a job cancelled or failed twice and retried is declared
  "expired three times" after its first expiry.
* A controller submitted after a test that threw has no evaluation and gets the
  status `failed` (`astra.ts:96`), with which `evidence.ts` admits it to replays and
  held-out runs as "independently evaluated source".
* A process that dies between creating its lock file and writing it leaves a file
  that does not parse and that every later start refuses; a dead owner's process
  number in use by another program has the same effect.
* A replay whose failure is dropped by an edit while it runs ends in an error, as
  recording it reads the failure again.
* After one failed write of `state.json` every later save of the process is rejected
  (`gateway/store.ts:13`): no call is made any more, and those under way stay
  reserved. That is on the safe side, but only a restart ends it.
* A power failure may bring back a `state.json` without the last reservation, since
  neither the file nor the rename is synced: `SpendingCovered` excludes it. The
  comment at `gateway/store.ts:23` speaks of a process crash only.
* The request for a new world's model is made once (`useWorkspace.ts:49`); if it
  fails, the page shows that world without its model until something is refreshed.
* A frame of the state socket is taken as it comes, so one that was overtaken by
  the answer to a request sets the display back until the next frame.
* While a repair is awaited, an earlier repair that settles late, restored by the
  history or by another page, is taken for its outcome (`App.tsx:187`) if it is not
  the one that was on display at the click; the real answer is then not looked at.
* The signals of a replaced camera page are still relayed until its socket has
  closed (`camera.ts:92`), a `stop` among them: the page that replaced it and its
  peer may be stopped by one that is gone.

* On Windows, which `src/README.md:233` supports, the archive acknowledges a record
  without syncing its directory, as the comment at `recordings.ts:163` says Node cannot.
  `src/README.md:177` calls the archive local durable storage. There a power failure
  may take an acknowledged record with it.
* A client that keeps a connection open holds up an API that was told to stop,
  and every further signal is ignored (`server.ts:27`): its worker is gone, its lock
  stays, and only killing it helps.
* A repair whose first record cannot be written stays `generating` for ever, as the
  record is outside of the `try` (`astra.ts:39`); the job ends, and no event tells.
* The camera phone's Stop does nothing while its connection is being made, as
  `connection.current` is still null (`PhoneApp.tsx:18`): the page goes on to connect.

## 7. Not modelled

* Media decoding, metrics, geometry, physics, inference and perception's projection
  are numeric.
* Export storage, backup and the verification of downloads; the policy sandbox; the
  frame queue of perception; the DimOS bridge: each a component of its own with
  few ties to the rest, and listed with its hazard in `PROJECT.json`.
* Access checks, authentication and configuration are stateless.
* The text and ranking of queries, page offsets, compare, display; replays, the
  scrubber and search results on the dashboard.
* What an import decodes after it has hashed a file: the worker hashes, then opens
  the file again (`worker/curation.py:152`, `161`, `177-194`, `203-214`), and
  `InspectEpisode` takes one value for all of these. The models tie the hash that is
  reported to the plan; a file replaced between hashing and decoding would give an
  episode whose data are not those of its hash.
* Awaits that are merged into one step, where no property depends on it:
  `EvaluateBegins` takes the slot and makes the branch (`server.py:457`, `460`); `StartSearch`
  leaves out the `/pause` it awaits (`index.ts:148`); `MakesOffer` is the two awaits of
  `peer.ts:21-22` with the flag around them.
* A phone page started a second time while it is still opening its first
  connection. The recorded frames of a repair that failed: only those of one that
  ended with a verdict are told apart from an event's copy.
* Sizes: the 8 MiB record limit and the metadata quota appear as refusals only.

## 8. What could follow

1. **PolicySandbox** (calls, timeouts, close) under `Repair`, **ExportPublish** and **Backup**
   (with `StoreLock`), **ArtifactVerifier**.
2. **PerceptionEngine** and **DimosBridge**.
