------------------------------ MODULE Gateway ------------------------------
(***************************************************************************)
(* The workbench gateway (gateway/index.ts) over the simulation service.   *)
(* Its handlers run on one event loop, so each action runs from one await  *)
(* to the next; what they await is mostly an HTTP request to SimService,   *)
(* and meanwhile other handlers run and the operator talks to the service  *)
(* directly through the /api/sim proxy.  Here are the state of the         *)
(* gateway, its one job at a time, the search for a counterexample, and    *)
(* the edits of the stage, which abort the job and drop what it captured.  *)
(***************************************************************************)
EXTENDS SimService

CONSTANTS
  Handlers,          \* HTTP handlers that run at the same time
  Operator,          \* whoever uses the proxy
  OperatorRequests,  \* what the operator asks through it
  Floors, Obstacles, Seeds, DefaultFloor, DefaultSeed,
  Sources,           \* controllers the model may write
  MaxTurns,          \* 6 in the code
  MaxTests,          \* 3 in the code
  MaxTrials,         \* trials of a search or of a held-out run
  MaxSteps,          \* branch steps of one evaluation, 150 in the code
  MaxMishaps,        \* bound: lost replies, restarts of the service, requests
                     \* through the proxy, and cancellations
  MaxRequests        \* bound: requests of browsers and mishaps together

\* A scene is its measured floor, the obstacles on it, and a seed for the rest.
GatewayScenes == [floor : Floors, props : SUBSET Obstacles, seed : Seeds]
Bare(floor) == [floor |-> floor, props |-> {}, seed |-> DefaultSeed]

ASSUME GatewayAssumption ==
  /\ Clients = Handlers \cup {Operator} /\ Operator \notin Handlers /\ None \notin Handlers
  /\ DefaultFloor \in Floors /\ DefaultSeed \in Seeds
  /\ Scenes = GatewayScenes /\ DefaultScene = Bare(DefaultFloor)
  /\ OperatorRequests \subseteq Request
  /\ {MaxTurns, MaxTests, MaxTrials, MaxSteps} \subseteq Nat \ {0}

VARIABLES
  failure,      \* the captured counterexample
  calibration,  \* the measured floor
  job,          \* the handler of the exclusive job
  aborted,      \* the job's abort signal
  artifacts,    \* repairs, in the order they were begun
  handler,      \* where each handler is, and its local variables
  edited,       \* history: the episode of the last confirmed obstacle edit
  placed,       \* history: what last replaced the live scene
  lost,         \* history: the reply to some request of a handler was lost
  requests,     \* counts the requests of browsers and what disturbs them
  mishaps       \* counts what disturbs them

gatewayRest == <<failure, calibration, job, aborted, artifacts>>
gatewayVars == <<gatewayRest, handler>>
history == <<edited, placed, lost>>
bounds == <<requests, mishaps>>
vars == <<simVars, gatewayVars, history, bounds>>

\* What a handler keeps between its steps.
Quiet ==
  [at |-> "idle", kind |-> "none", scene |-> DefaultScene, start |-> DefaultScene, context |-> None,
   count |-> 0, passed |-> FALSE,                                                  \* of a search
   artifact |-> 0, tests |-> 0, submit |-> FALSE,                                  \* of a repair
   branch |-> NoHandle, steps |-> 0, result |-> None, measured |-> {},             \* of a measurement
   obstacle |-> None, epoch |-> 0, episode |-> 0]                                  \* of an edit

GatewayInit ==
  /\ SimInit
  /\ failure = None
  /\ calibration = None
  /\ job = None
  /\ aborted = FALSE
  /\ artifacts = <<>>
  /\ handler = [h \in Handlers |-> Quiet]
  /\ edited = 0
  /\ placed = "start" /\ lost = FALSE
  /\ requests = 0 /\ mishaps = 0

-----------------------------------------------------------------------------
(* Awaiting the simulation service.                                        *)

At(h, kind, step) == handler[h].kind = kind /\ handler[h].at = step
Answered(h) == call[h].stage = "answered"
Refused(h) == call[h].stage = "refused"
Told(h) == call[h].reply.about

\* The service does nothing in a step of the gateway, except that the handler
\* may send it a request.
serverVars == <<world, checkpoints, branches, slots, episodes, handles>>

\* Handler h goes on with the locals l, awaiting the answer to a request.
Await(h, l, request) ==
  /\ handler' = [handler EXCEPT ![h] = l]
  /\ SendRequest(h, request)
  /\ UNCHANGED serverVars

\* Handler h goes on with the locals l, awaiting something else.
Continue(h, l) ==
  /\ handler' = [handler EXCEPT ![h] = l]
  /\ Free(h)
  /\ Settle(h, Idle)
  /\ UNCHANGED serverVars

\* The handler responds or throws.
End(h) == Continue(h, Quiet)

LookAt(what) == [op |-> what]
ResetTo(scene, epoch, episode) == [op |-> "reset", scene |-> scene, epoch |-> epoch, episode |-> episode]
FromCheckpoint(op, checkpoint) == [op |-> op, scene |-> Same, checkpoint |-> checkpoint]
FromScene(scene) == [op |-> "fork", scene |-> scene, checkpoint |-> NoHandle]
OnBranch(op, branch) == [op |-> op, branch |-> branch]

-----------------------------------------------------------------------------
(* exclusive(): one job at a time.                                         *)

Acquire(h) == job = None /\ job' = h /\ aborted' = FALSE

Release == job' = None /\ aborted' = FALSE

\* The job ends, with or without a result.
EndJob(h) == Release /\ End(h)

\* Aborting without a job does nothing.
Abort == aborted' = (job # None) /\ UNCHANGED job

\* POST /api/cancel.
Cancel == Abort /\ ~aborted /\ job # None /\ UNCHANGED <<simVars, failure, calibration, artifacts, handler>>

-----------------------------------------------------------------------------
(* POST /api/search: try starts of the stage until one fails.              *)

searchKeeps == <<calibration, artifacts>>

StartSearch(h) ==
  /\ handler[h].at = "idle"
  /\ Acquire(h)
  /\ failure' = None
  /\ Await(h, [Quiet EXCEPT !.kind = "search", !.at = "original"], LookAt("scene"))
  /\ UNCHANGED searchKeeps

\* The scenes a trial may start from: the original, then other seeds.
TrialScenes(scene, trial) ==
  IF trial = 1 THEN {scene} ELSE {s \in Scenes : s = [scene EXCEPT !.seed = s.seed] /\ s # scene}

\* The top of the loop: throw when aborted, else reset the stage.
NextTrial(h, l) ==
  IF aborted
  THEN EndJob(h)
  ELSE /\ \E s \in TrialScenes(l.scene, l.count) :
            Await(h, [l EXCEPT !.at = "resetting"], ResetTo(s, Anything, Anything))
       /\ UNCHANGED <<job, aborted>>

SearchOriginal(h) ==
  /\ At(h, "search", "original") /\ Answered(h)
  /\ NextTrial(h, [handler[h] EXCEPT !.scene = Told(h).scene, !.count = 1])
  /\ UNCHANGED <<failure, searchKeeps>>

\* After the reset the scene, the checkpoint and the evaluation are requests of
\* their own.
SearchReset(h) ==
  /\ At(h, "search", "resetting") /\ Answered(h)
  /\ Await(h, [handler[h] EXCEPT !.at = "rereading"], LookAt("scene"))
  /\ UNCHANGED <<failure, job, aborted, searchKeeps>>

SearchReread(h) ==
  /\ At(h, "search", "rereading") /\ Answered(h)
  /\ Await(h, [handler[h] EXCEPT !.at = "capturing", !.start = Told(h).scene], LookAt("checkpoint"))
  /\ UNCHANGED <<failure, job, aborted, searchKeeps>>

SearchCaptured(h) ==
  /\ At(h, "search", "capturing") /\ Answered(h)
  /\ LET captured == [scene |-> handler[h].start, checkpoint |-> call[h].reply.handle,
                      epoch |-> Told(h).epoch, episode |-> Told(h).episode]
     IN  Await(h, [handler[h] EXCEPT !.at = "evaluating", !.context = captured],
               FromCheckpoint("evaluate", captured.checkpoint))
  /\ UNCHANGED <<failure, job, aborted, searchKeeps>>

SearchEvaluated(h) ==
  /\ At(h, "search", "evaluating") /\ Answered(h)
  /\ Continue(h, [handler[h] EXCEPT !.at = "recording", !.passed = call[h].reply.passed])
  /\ UNCHANGED <<failure, job, aborted, searchKeeps>>

\* A measured failure is captured; otherwise the next trial, if there is one.
Conclude(h, l) ==
  IF ~l.passed THEN failure' = l.context /\ EndJob(h)
  ELSE /\ IF l.count < MaxTrials THEN NextTrial(h, [l EXCEPT !.count = @ + 1]) ELSE EndJob(h)
       /\ UNCHANGED failure

\* Mutant of SearchRecorded: the abort signal is not looked at again.
SearchRecordedAnyway(h) ==
  /\ At(h, "search", "recording")
  /\ Conclude(h, handler[h])
  /\ UNCHANGED searchKeeps

\* The experiment is in the archive.
SearchRecorded(h) ==
  /\ At(h, "search", "recording")
  /\ IF aborted THEN EndJob(h) /\ UNCHANGED failure ELSE Conclude(h, handler[h])
  /\ UNCHANGED searchKeeps

\* A request is refused, or the archive is full: the search throws.
SearchThrows(h) ==
  /\ handler[h].kind = "search" /\ (Refused(h) \/ handler[h].at = "recording")
  /\ EndJob(h)
  /\ UNCHANGED <<failure, searchKeeps>>

-----------------------------------------------------------------------------
(* Edits of the stage.                                                     *)

\* The running job is aborted and the captured failure dropped.
DropEvidence == Abort /\ failure' = None

\* POST /api/world/obstacles and .../remove: the browser sends the identity of
\* the world it shows.  Adding needs the calibration it was drawn on.
StartEdit(h, kind, obstacle) ==
  /\ handler[h].at = "idle"
  /\ kind = "add" => calibration # None
  /\ Await(h, [Quiet EXCEPT !.kind = kind, !.at = "editing", !.obstacle = obstacle,
                           !.epoch = world.epoch, !.episode = world.episode], LookAt("scene"))
  /\ UNCHANGED gatewayRest

\* The edited scene, and whether the edit still fits the scene read.
Edit(l, scene) ==
  [scene EXCEPT !.props = IF l.kind = "add" THEN @ \cup {l.obstacle} ELSE @ \ {l.obstacle}]
Fits(l, scene) == IF l.kind = "add" THEN scene.floor = calibration ELSE l.obstacle \in scene.props

ApplyEdit(h) ==
  /\ handler[h].at = "editing" /\ Answered(h)
  /\ LET l == handler[h]
     IN  /\ Fits(l, Told(h).scene)
         /\ Await(h, [l EXCEPT !.at = "applying"], ResetTo(Edit(l, Told(h).scene), l.epoch, l.episode))
  /\ UNCHANGED gatewayRest

RefuseEdit(h) ==
  /\ \/ handler[h].at = "editing" /\ Answered(h) /\ ~Fits(handler[h], Told(h).scene)
     \/ handler[h].at \in {"editing", "applying"} /\ Refused(h)
  /\ End(h)
  /\ UNCHANGED gatewayRest

\* The reset was accepted: the human is told so.
ConfirmEdit(h) ==
  /\ handler[h].kind \in {"add", "remove"} /\ handler[h].at = "applying" /\ Answered(h)
  /\ DropEvidence
  /\ End(h)
  /\ UNCHANGED <<calibration, artifacts>>

\* onCalibration: the evidence is dropped first, the stage is reset, and only
\* then is the calibration accepted.
StartCalibrate(h, floor) ==
  /\ handler[h].at = "idle"
  /\ DropEvidence
  /\ Await(h, [Quiet EXCEPT !.kind = "calibrate", !.at = "applying", !.scene = Bare(floor)],
           ResetTo(Bare(floor), Anything, Anything))
  /\ UNCHANGED <<calibration, artifacts>>

\* The measured floor holds from here on.
ConfirmCalibration(h) ==
  /\ At(h, "calibrate", "applying") /\ Answered(h)
  /\ calibration' = handler[h].scene.floor
  /\ End(h)
  /\ UNCHANGED <<failure, job, aborted, artifacts>>
=============================================================================
