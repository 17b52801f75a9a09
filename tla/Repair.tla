------------------------------- MODULE Repair -------------------------------
(***************************************************************************)
(* What the gateway does with a captured failure: the repair, in which the *)
(* model writes controllers and has them measured on the checkpoint of the *)
(* failure (gateway/astra.ts), the replay of a repaired controller on that *)
(* checkpoint, and held-out runs on other starts of the stage              *)
(* (gateway/index.ts), all through evaluateSource (gateway/sim-client.ts). *)
(***************************************************************************)
EXTENDS Gateway

-----------------------------------------------------------------------------
(* evaluateSource() of sim-client.ts: a branch and a sandbox of its own.   *)

\* Handler h begins to measure its artifact's source on a fork.
Measure(h, l, fork) ==
  Await(h, [l EXCEPT !.at = "forking", !.steps = 0, !.branch = NoHandle, !.result = None], fork)

\* Mutant of CleanUp: a branch is deleted only after a complete measurement.
CleanUpResult(h, l) ==
  IF l.branch = NoHandle \/ l.result = None THEN Continue(h, [l EXCEPT !.at = "measured"])
  ELSE Await(h, [l EXCEPT !.at = "deleting"], OnBranch("delete", l.branch))

\* finally: the branch, if there is one, is deleted.
CleanUp(h, l) ==
  IF l.branch = NoHandle THEN Continue(h, [l EXCEPT !.at = "measured"])
  ELSE Await(h, [l EXCEPT !.at = "deleting"], OnBranch("delete", l.branch))

\* The loop: throw when aborted or when the sandbox fails, ask for the next
\* step, or for the result once the run is over.
MeasureLoop(h, l) ==
  \/ CleanUp(h, l)
  \/ /\ ~aborted /\ l.steps < MaxSteps
     /\ Await(h, [l EXCEPT !.at = "stepping", !.steps = @ + 1], OnBranch("step", l.branch))
  \/ Await(h, [l EXCEPT !.at = "resulting"], OnBranch("result", l.branch))

Forked(h) ==
  /\ handler[h].at = "forking" /\ Answered(h)
  /\ MeasureLoop(h, [handler[h] EXCEPT !.branch = call[h].reply.handle])
  /\ UNCHANGED gatewayRest

Stepped(h) ==
  /\ handler[h].at = "stepping" /\ Answered(h)
  /\ MeasureLoop(h, handler[h])
  /\ UNCHANGED gatewayRest

\* The verdict is about the controller that ran.
MeasureResult(h) ==
  /\ handler[h].at = "resulting" /\ Answered(h)
  /\ LET l == handler[h]
     IN  CleanUp(h, [l EXCEPT !.result = [about |-> Told(h), source |-> artifacts[l.artifact].source,
                                          passed |-> call[h].reply.passed]])
  /\ UNCHANGED gatewayRest

\* A refused fork, step or result is the error of the measurement.
MeasureThrows(h) ==
  /\ handler[h].at \in {"forking", "stepping", "resulting"} /\ Refused(h)
  /\ CleanUp(h, handler[h])
  /\ UNCHANGED gatewayRest

\* Whether the branch could be deleted is not looked at.
Cleaned(h) ==
  /\ handler[h].at = "deleting" /\ (Answered(h) \/ Refused(h))
  /\ Continue(h, [handler[h] EXCEPT !.at = "measured"])
  /\ UNCHANGED gatewayRest

-----------------------------------------------------------------------------
(* POST /api/repair: repairFailure() of astra.ts.                          *)

repairKeeps == <<failure, calibration>>

StartRepair(h) ==
  /\ handler[h].at = "idle" /\ failure # None
  /\ Await(h, [Quiet EXCEPT !.kind = "repair", !.at = "origin"], LookAt("state"))
  /\ UNCHANGED gatewayRest

\* The failure is that of the world w.
FailureOf(w) == failure # None /\ failure.epoch = w.epoch /\ failure.episode = w.episode

NewArtifact(context) ==
  [status |-> "generating", context |-> context, source |-> None, evaluation |-> None]

\* The failure is read again after the await.  The artifact exists from here
\* on, even if the first experiment record fails.
BeginRepair(h) ==
  /\ At(h, "repair", "origin") /\ Answered(h)
  /\ FailureOf(Told(h)) /\ job = None
  /\ artifacts' = Append(artifacts, NewArtifact(failure))
  /\ \/ Acquire(h) /\ Continue(h, [handler[h] EXCEPT !.at = "thinking", !.context = failure,
                                     !.artifact = Len(artifacts) + 1, !.count = 1])
     \/ End(h) /\ UNCHANGED <<job, aborted>>
  /\ UNCHANGED repairKeeps

\* The model inspects the failure, or an answer was used up: the next turn.
NextTurn(h, l) == Continue(h, [l EXCEPT !.at = "thinking", !.count = @ + 1, !.submit = FALSE])

Inspect(h) ==
  /\ At(h, "repair", "thinking") /\ handler[h].count <= MaxTurns
  /\ NextTurn(h, handler[h])
  /\ UNCHANGED gatewayRest

Write(a, fields) == artifacts' = [artifacts EXCEPT ![a] = fields]

\* Mutant of Tested: the cache is not keyed by the source.
TestedAny(l, source) == l.measured

\* An evaluation of this source among those already measured.
Tested(l, source) == {e \in l.measured : e.source = source}

\* Asked to test or submit a source: it replaces the artifact's, whatever
\* comes of it.  A source measured before is not measured again, and a new one
\* only while tests are left; without one the turn is over.
Candidate(h, source, submit) ==
  /\ At(h, "repair", "thinking") /\ handler[h].count <= MaxTurns
  /\ LET l == [handler[h] EXCEPT !.submit = submit]
         written == [artifacts[l.artifact] EXCEPT !.source = source, !.status = "testing"]
     IN  \/ /\ Tested(l, source) # {}
            /\ Write(l.artifact, written)
            /\ \E e \in Tested(l, source) : Continue(h, [l EXCEPT !.at = "measured", !.result = e])
         \/ /\ Tested(l, source) = {} /\ l.tests < MaxTests
            /\ Write(l.artifact, written)
            /\ Measure(h, [l EXCEPT !.tests = @ + 1], FromCheckpoint("fork", l.context.checkpoint))
         \/ /\ Tested(l, source) = {} /\ l.tests = MaxTests
            /\ Write(l.artifact, written)
            /\ NextTurn(h, l)
  /\ UNCHANGED <<job, aborted, repairKeeps>>

\* The artifact takes the result of its source, or none.
Judge(artifact, result) == [artifact EXCEPT !.evaluation = result]

\* The candidate is recorded, and submitted if it is the final one; a record
\* that cannot be written ends the repair.
RepairMeasured(h) ==
  /\ At(h, "repair", "measured")
  /\ LET l == [handler[h] EXCEPT !.measured = @ \cup ({handler[h].result} \ {None}),
                                !.result = None, !.branch = NoHandle, !.steps = 0]
         judged == Judge(artifacts[l.artifact], handler[h].result)
     IN  \/ /\ Write(l.artifact, judged)
            /\ IF l.submit THEN Await(h, [l EXCEPT !.at = "live"], LookAt("state")) ELSE NextTurn(h, l)
            /\ UNCHANGED <<job, aborted>>
         \/ Write(l.artifact, [judged EXCEPT !.status = "error"]) /\ EndJob(h)
  /\ UNCHANGED repairKeeps

\* A submission passes if the last measurement of its source did.
Verdict(artifact) ==
  [artifact EXCEPT !.status = IF artifact.evaluation # None /\ artifact.evaluation.passed
                              THEN "passed" ELSE "failed"]

\* submit_controller: the world must still be that of the failure.
Promote(h) ==
  /\ At(h, "repair", "live") /\ Answered(h)
  /\ LET l == handler[h]
     IN  /\ Told(h).epoch = l.context.epoch /\ Told(h).episode = l.context.episode
         /\ Write(l.artifact, Verdict(artifacts[l.artifact]))
         /\ Continue(h, [l EXCEPT !.at = "saving"])
  /\ UNCHANGED <<job, aborted, repairKeeps>>

Promoted(h) ==
  /\ At(h, "repair", "saving")
  /\ EndJob(h)
  /\ UNCHANGED <<artifacts, repairKeeps>>

\* Whatever is thrown inside the loop makes the artifact an error: an abort,
\* no budget, a failed or useless model call, a failed write of a record or of
\* the state file, a stale world, or too many turns.
RepairThrows(h) ==
  /\ handler[h].kind = "repair"
  /\ \/ handler[h].at \in {"thinking", "saving"}
     \/ handler[h].at = "live" /\ Refused(h)
     \/ /\ handler[h].at = "live" /\ Answered(h)
        /\ \/ Told(h).epoch # handler[h].context.epoch
           \/ Told(h).episode # handler[h].context.episode
  /\ Write(handler[h].artifact, [artifacts[handler[h].artifact] EXCEPT !.status = "error"])
  /\ EndJob(h)
  /\ UNCHANGED repairKeeps

-----------------------------------------------------------------------------
(* POST /api/replay and /api/heldout.                                      *)

\* assertArtifactOrigin() of evidence.ts.
OfOrigin(artifact, w) ==
  /\ artifact.context.epoch = w.epoch /\ artifact.context.episode = w.episode
  /\ artifact.status \in {"passed", "failed"}

\* selectedArtifact(): any artifact with a source.
Select(h, kind) ==
  /\ handler[h].at = "idle"
  /\ \E a \in 1..Len(artifacts) :
       /\ artifacts[a].source # None
       /\ Await(h, [Quiet EXCEPT !.kind = kind, !.at = "origin", !.artifact = a], LookAt("state"))
  /\ UNCHANGED gatewayRest

\* Mutant of Replayable: any captured failure will do.
ReplayableAnyway(h) ==
  artifacts[handler[h].artifact].status \in {"passed", "failed"} /\ failure # None

Replayable(h) ==
  /\ OfOrigin(artifacts[handler[h].artifact], Told(h))
  /\ FailureOf([epoch |-> artifacts[handler[h].artifact].context.epoch,
                episode |-> artifacts[handler[h].artifact].context.episode])

BeginReplay(h) ==
  /\ At(h, "replay", "origin") /\ Answered(h)
  /\ Replayable(h)
  /\ Acquire(h)
  /\ Measure(h, [handler[h] EXCEPT !.context = failure], FromCheckpoint("fork", failure.checkpoint))
  /\ UNCHANGED <<failure, calibration, artifacts>>

\* The result is recorded and returned, unless the measurement threw or the
\* failure it would be recorded with is gone.
Replayed(h) ==
  /\ At(h, "replay", "measured")
  /\ EndJob(h)
  /\ UNCHANGED <<failure, calibration, artifacts>>

BeginHeldOut(h) ==
  /\ At(h, "heldout", "origin") /\ Answered(h)
  /\ OfOrigin(artifacts[handler[h].artifact], Told(h))
  /\ Acquire(h)
  /\ Await(h, [handler[h] EXCEPT !.at = "template"], LookAt("scene"))
  /\ UNCHANGED <<failure, calibration, artifacts>>

\* The top of the loop, and what follows it.
NextHeldOut(h, l) ==
  \/ l.count < MaxTrials /\ ~aborted /\ Await(h, [l EXCEPT !.at = "rechecking", !.count = @ + 1], LookAt("state"))
  \/ l.count > 0 /\ Await(h, [l EXCEPT !.at = "final"], LookAt("state"))

\* The answer to the first look at the world: the repair, replay or held-out run
\* may begin unless its origin is stale.
Eligible(h) ==
  \/ handler[h].kind = "repair" /\ FailureOf(Told(h))
  \/ handler[h].kind = "replay" /\ Replayable(h)
  \/ handler[h].kind = "heldout" /\ OfOrigin(artifacts[handler[h].artifact], Told(h))

\* Stale, gone, or another job runs: nothing begins.
Refuse(h) ==
  /\ handler[h].at = "origin"
  /\ Refused(h) \/ (Answered(h) /\ (~Eligible(h) \/ job # None))
  /\ End(h)
  /\ UNCHANGED gatewayRest

HeldOutTemplate(h) ==
  /\ At(h, "heldout", "template") /\ Answered(h)
  /\ NextHeldOut(h, [handler[h] EXCEPT !.scene = Told(h).scene])
  /\ UNCHANGED gatewayRest

HeldOutRechecked(h) ==
  /\ At(h, "heldout", "rechecking") /\ Answered(h)
  /\ OfOrigin(artifacts[handler[h].artifact], Told(h))
  /\ Await(h, [handler[h] EXCEPT !.at = "sampling"], LookAt("scene"))
  /\ UNCHANGED gatewayRest

\* GET /random-scene: the live stage under a seed derived from the template.
HeldOutSampled(h) ==
  /\ At(h, "heldout", "sampling") /\ Answered(h)
  /\ \E seed \in Seeds \ {handler[h].scene.seed} :
       Measure(h, handler[h], FromScene([Told(h).scene EXCEPT !.seed = seed]))
  /\ UNCHANGED gatewayRest

HeldOutMeasured(h) ==
  /\ At(h, "heldout", "measured") /\ handler[h].result # None
  /\ NextHeldOut(h, [handler[h] EXCEPT !.measured = @ \cup {handler[h].result}, !.result = None,
                                       !.branch = NoHandle, !.steps = 0])
  /\ UNCHANGED gatewayRest

\* Mutant of HeldOutReturns: the origin is not checked after the last trial.
HeldOutReturnsUnchecked(h) ==
  /\ At(h, "heldout", "final") /\ Answered(h)
  /\ Release
  /\ Continue(h, [handler[h] EXCEPT !.at = "responding"])
  /\ UNCHANGED <<failure, calibration, artifacts>>

\* The last check of the origin: the results are returned.
HeldOutReturns(h) ==
  /\ At(h, "heldout", "final") /\ Answered(h)
  /\ OfOrigin(artifacts[handler[h].artifact], Told(h))
  /\ Release
  /\ Continue(h, [handler[h] EXCEPT !.at = "responding"])
  /\ UNCHANGED <<failure, calibration, artifacts>>

HeldOutResponds(h) == At(h, "heldout", "responding") /\ End(h) /\ UNCHANGED gatewayRest

\* An abort, a refused request, a stale origin, a failed measurement or record.
HeldOutThrows(h) ==
  /\ handler[h].kind = "heldout"
  /\ \/ handler[h].at = "template" /\ (Refused(h) \/ aborted)
     \/ handler[h].at = "measured"
     \/ handler[h].at = "sampling" /\ Refused(h)
     \/ /\ handler[h].at \in {"rechecking", "final"}
        /\ Refused(h) \/ (Answered(h) /\ ~OfOrigin(artifacts[handler[h].artifact], Told(h)))
  /\ EndJob(h)
  /\ UNCHANGED <<failure, calibration, artifacts>>
=============================================================================
