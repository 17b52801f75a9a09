----------------------------- MODULE Workbench -----------------------------
(***************************************************************************)
(* The workbench as a whole: browsers, the gateway, the simulation service *)
(* and what disturbs them, and what can be relied on.                      *)
(***************************************************************************)
EXTENDS Repair

\* A browser asks the gateway for something.
StartRequest(h) ==
  \/ StartSearch(h) \/ StartRepair(h) \/ Select(h, "replay") \/ Select(h, "heldout")
  \/ \E o \in Obstacles : StartEdit(h, "add", o) \/ StartEdit(h, "remove", o)
  \/ \E f \in Floors : StartCalibrate(h, f)

JobStep(h) ==
  \/ SearchOriginal(h) \/ SearchReset(h) \/ SearchReread(h) \/ SearchCaptured(h)
  \/ SearchEvaluated(h) \/ SearchRecorded(h) \/ SearchThrows(h)
  \/ Refuse(h) \/ BeginRepair(h) \/ Inspect(h)
  \/ \E source \in Sources, submit \in BOOLEAN : Candidate(h, source, submit)
  \/ RepairMeasured(h) \/ Promote(h) \/ Promoted(h) \/ RepairThrows(h)
  \/ BeginReplay(h) \/ Replayed(h)
  \/ BeginHeldOut(h) \/ HeldOutTemplate(h) \/ HeldOutRechecked(h)
  \/ HeldOutSampled(h) \/ HeldOutMeasured(h) \/ HeldOutReturns(h) \/ HeldOutResponds(h) \/ HeldOutThrows(h)
  \/ Forked(h) \/ Stepped(h) \/ MeasureResult(h) \/ MeasureThrows(h) \/ Cleaned(h)

EditStep(h) ==
  \/ ApplyEdit(h) \/ RefuseEdit(h) \/ ConfirmCalibration(h)

\* What last replaced the scene, if the service just did.
Placer(c) == IF c = Operator THEN "operator" ELSE handler[c].kind

ServiceStep ==
  \E c \in Clients :
    /\ Serve(c)
    /\ placed' = IF world'.episode # world.episode THEN Placer(c) ELSE placed
    /\ UNCHANGED <<gatewayVars, edited, lost, bounds>>

BrowserStep ==
  \E h \in Handlers :
    /\ requests < MaxRequests /\ requests' = requests + 1
    /\ StartRequest(h)
    /\ UNCHANGED <<history, mishaps>>

HandlerStep ==
  \E h \in Handlers :
    \/ (JobStep(h) \/ EditStep(h)) /\ UNCHANGED <<history, bounds>>
    \/ ConfirmEdit(h) /\ edited' = Told(h).episode /\ UNCHANGED <<placed, lost, bounds>>

\* The operator's requests are served like any other; a restart needs nobody.
Disturb ==
  /\ mishaps < MaxMishaps /\ mishaps' = mishaps + 1
  /\ requests < MaxRequests /\ requests' = requests + 1
  /\ \/ Cancel /\ UNCHANGED history
     \/ /\ \E request \in OperatorRequests : SendRequest(Operator, request)
        /\ UNCHANGED <<serverVars, gatewayVars, history>>
     \/ /\ \E h \in Handlers : LoseReply(h)
        /\ lost' = TRUE
        /\ UNCHANGED <<gatewayVars, edited, placed>>
     \/ /\ Restart
        /\ placed' = "start"
        /\ UNCHANGED <<gatewayVars, edited, lost>>

Next == BrowserStep \/ HandlerStep \/ ServiceStep \/ Disturb

Spec == GatewayInit /\ [][Next]_vars

-----------------------------------------------------------------------------
(* Properties.                                                             *)

\* Once an obstacle edit is confirmed, no failure captured before it is or
\* becomes the captured one, also not by a search that was already past its
\* evaluation when the edit came.
NoStaleCapture == failure # None => failure.episode >= edited

\* An artifact that passed did so with its own source, on the checkpoint of
\* its failure, in that world: not with a source measured before, and not in
\* a world that has been replaced.
PromotedWasMeasured ==
  \A a \in 1..Len(artifacts) :
    artifacts[a].status = "passed" =>
      LET artifact == artifacts[a] IN
      /\ artifact.evaluation # None
      /\ artifact.evaluation.passed /\ artifact.evaluation.source = artifact.source
      /\ artifact.evaluation.about.origin = artifact.context.checkpoint
      /\ artifact.evaluation.about.epoch = artifact.context.epoch
      /\ artifact.evaluation.about.episode = artifact.context.episode

\* A replay measures its artifact's source on the very checkpoint the artifact
\* was repaired for, though it takes the checkpoint from the failure captured
\* last.
ReplayOfOrigin ==
  \A h \in Handlers :
    At(h, "replay", "measured") /\ handler[h].result # None =>
      LET result == handler[h].result
          artifact == artifacts[handler[h].artifact]
      IN  result.source = artifact.source /\ result.about.origin = artifact.context.checkpoint

\* Held-out results that are returned were all measured with the artifact's
\* source under the scene epoch it was repaired in, and on the stage it was
\* measured on: no edit between two trials, or within one, is overlooked.
HeldOutOnOrigin ==
  \A h \in Handlers :
    At(h, "heldout", "responding") =>
      LET artifact == artifacts[handler[h].artifact] IN
      \A r \in handler[h].measured :
        /\ r.source = artifact.source /\ r.about.epoch = artifact.context.epoch
        /\ artifact.evaluation # None =>
             /\ r.about.scene.floor = artifact.evaluation.about.scene.floor
             /\ r.about.scene.props = artifact.evaluation.about.scene.props

\* Every branch is one that a handler is still measuring on and will delete,
\* as long as no reply is lost and the operator forks none: aborts, failed
\* steps and replaced scenes leak no branch.
NoLeakedBranch ==
  ~lost =>
    \A b \in DOMAIN branches : \E h \in Handlers :
      \/ handler[h].at = "forking" /\ Answered(h) /\ call[h].reply.handle = b
      \/ handler[h].at \in {"stepping", "resulting", "deleting"} /\ handler[h].branch = b

\* "Human-confirmed ... grounded in the measured floor" (gateway/index.ts):
\* when an obstacle is confirmed, the live scene has it, or something other
\* than a search has replaced the scene since.
ObstacleIsGrounded ==
  [][\A h \in Handlers :
       At(h, "add", "applying") /\ Answered(h) /\ handler'[h].at = "idle" =>
         handler[h].obstacle \in world.scene.props \/ placed # "search"]_vars
=============================================================================
