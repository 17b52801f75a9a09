----------------------------- MODULE SimService -----------------------------
(***************************************************************************)
(* The simulation service (sim/server.py): one live world with its scene   *)
(* epoch and episode, the checkpoints captured from it, and the branches   *)
(* and evaluations forked from either.  Requests run in threads.  Each     *)
(* looks at the service under one lock, but a fork, an evaluation and a    *)
(* branch step leave the lock while they simulate, and look again          *)
(* afterwards: the scene may have been replaced meanwhile.  The physics and *)
(* its clock are left out; what remains of a world is which scene, epoch   *)
(* and episode it belongs to, and whether it was invalidated.              *)
(***************************************************************************)
EXTENDS Naturals, Sequences, FiniteSets

CONSTANTS
  None,            \* stands for what is absent
  Clients,         \* who sends requests, one at a time each
  Scenes,          \* scene configurations
  DefaultScene,    \* the scene of a started service
  MaxCheckpoints,  \* 16 in the code
  MaxBranches,     \* 12 in the code
  MaxSlots         \* 2 in the code: evaluations at a time

ASSUME SimAssumption ==
  /\ IsFiniteSet(Clients)
  /\ DefaultScene \in Scenes /\ None \notin Scenes
  /\ MaxCheckpoints \in Nat \ {0} /\ MaxBranches \in Nat \ {0} /\ MaxSlots \in Nat \ {0}

VARIABLES
  world,        \* the live world
  checkpoints,  \* captured worlds by age, each with its handle
  branches,     \* the worlds of the branches, by handle
  slots,        \* evaluation slots taken
  episodes,     \* episodes begun, over all restarts: episode ids are fresh
  handles,      \* checkpoint and branch handles issued, fresh as well
  call          \* what each client's request has come to

simVars == <<world, checkpoints, branches, slots, episodes, handles, call>>

NoHandle == 0
\* The episode of a branch forked from an explicit scene: no other world's.
OwnEpisode == 0
Same == None
Anything == 0              \* no expected epoch or episode

World == [epoch : Nat \ {0}, episode : Nat, scene : Scenes, invalidated : BOOLEAN]
\* A branch is a world that knows which checkpoint it was restored from.
Branch == [epoch : Nat \ {0}, episode : Nat, scene : Scenes, invalidated : BOOLEAN, origin : Nat]
Checkpoint == [id : Nat \ {0}, world : World]

Request ==
  [op : {"state", "scene", "pause", "invalidate", "checkpoint"}]
    \cup [op : {"reset"}, scene : Scenes \cup {Same}, epoch : Nat, episode : Nat]
    \cup [op : {"fork", "evaluate"}, scene : Scenes \cup {Same}, checkpoint : Nat]
    \cup [op : {"step", "result", "delete"}, branch : Nat]

\* What a reply tells: the world or branch it is about, the handle it
\* issues or used, and the verdict of an evaluation.
Reply == [about : Branch, handle : Nat, passed : BOOLEAN]

Idle == [stage |-> "idle"]
Ask(request) == [stage |-> "asked", request |-> request]
Work(request, branch) == [stage |-> "working", request |-> request, branch |-> branch]
Answer(reply) == [stage |-> "answered", reply |-> reply]
Refusal == [stage |-> "refused"]

Call ==
  {Idle, Refusal}
    \cup [stage : {"asked"}, request : Request]
    \cup [stage : {"working"}, request : Request, branch : Branch]
    \cup [stage : {"answered"}, reply : Reply]

SimTypeOK ==
  /\ world \in World
  /\ checkpoints \in Seq(Checkpoint)
  /\ DOMAIN branches \subseteq Nat \ {0} /\ \A b \in DOMAIN branches : branches[b] \in Branch
  /\ slots \in Nat
  /\ episodes \in Nat /\ handles \in Nat
  /\ call \in [Clients -> Call]

\* __init__ of a world: valid, with an episode of its own.
NewWorld(scene, epoch, episode) ==
  [epoch |-> epoch, episode |-> episode, scene |-> scene, invalidated |-> FALSE]

NoBranches == [b \in {} |-> NoHandle]

SimInit ==
  /\ world = NewWorld(DefaultScene, 1, 1)
  /\ checkpoints = <<>>
  /\ branches = NoBranches
  /\ slots = 0
  /\ episodes = 1
  /\ handles = 0
  /\ call = [c \in Clients |-> Idle]

-----------------------------------------------------------------------------
(* One request at a time per client.                                       *)

Asked(c, op) == call[c].stage = "asked" /\ call[c].request.op = op
Working(c, op) == call[c].stage = "working" /\ call[c].request.op = op

\* A branch with the identity of world w, restored from checkpoint origin.
Copy(w, origin) ==
  [epoch |-> w.epoch, episode |-> w.episode, scene |-> w.scene, invalidated |-> w.invalidated, origin |-> origin]

Tell(w, handle) == Answer([about |-> Copy(w, NoHandle), handle |-> handle, passed |-> FALSE])
Settle(c, outcome) == call' = [call EXCEPT ![c] = outcome]

\* No request of this client is under way.
Free(c) == call[c].stage \in {"idle", "answered", "refused"}

SendRequest(c, request) ==
  /\ Free(c)
  /\ Settle(c, Ask(request))

\* The connection breaks or times out after the service has done its part.
LoseReply(c) ==
  /\ call[c].stage = "answered"
  /\ Settle(c, Refusal)
  /\ UNCHANGED <<world, checkpoints, branches, slots, episodes, handles>>

-----------------------------------------------------------------------------
(* Requests served under one lock.                                         *)

\* GET /state and /scene, and what only starts or stops the clock: POST /pause,
\* /run and /resume.
Look(c) ==
  /\ Asked(c, "state") \/ Asked(c, "scene") \/ Asked(c, "pause")
  /\ Settle(c, Tell(world, NoHandle))
  /\ UNCHANGED <<world, checkpoints, branches, slots, episodes, handles>>

\* A new scene or new evidence: no branch of the old one stays.
Expected(request) ==
  /\ request.epoch \in {Anything, world.epoch}
  /\ request.episode \in {Anything, world.episode}

ReplaceWorld(scene) ==
  /\ episodes' = episodes + 1
  /\ world' = NewWorld(scene, world.epoch + 1, episodes + 1)
  /\ branches' = NoBranches

\* POST /reset.
Reset(c) ==
  /\ Asked(c, "reset")
  /\ LET request == call[c].request
     IN  IF Expected(request)
         THEN /\ ReplaceWorld(IF request.scene = Same THEN world.scene ELSE request.scene)
              /\ Settle(c, Tell(world', NoHandle))
         ELSE Settle(c, Refusal) /\ UNCHANGED <<world, branches, episodes>>
  /\ UNCHANGED <<checkpoints, slots, handles>>

\* POST /invalidate: the episode stays, its epoch does not.
Invalidated(w) == [epoch |-> w.epoch + 1, episode |-> w.episode, scene |-> w.scene, invalidated |-> TRUE]

Invalidate(c) ==
  /\ Asked(c, "invalidate")
  /\ world' = Invalidated(world)
  /\ branches' = NoBranches
  /\ Settle(c, Tell(world', NoHandle))
  /\ UNCHANGED <<checkpoints, slots, episodes, handles>>

\* POST /checkpoint: the oldest one makes room.
Newest(s) == IF Len(s) > MaxCheckpoints THEN Tail(s) ELSE s

Capture(c) ==
  /\ Asked(c, "checkpoint")
  /\ handles' = handles + 1
  /\ checkpoints' = Newest(Append(checkpoints, [id |-> handles + 1, world |-> world]))
  /\ Settle(c, Tell(world, handles + 1))
  /\ UNCHANGED <<world, branches, slots, episodes>>

\* DELETE /branch/{id}: deleting one that is gone is no error.
Delete(c) ==
  /\ Asked(c, "delete")
  /\ branches' = [b \in DOMAIN branches \ {call[c].request.branch} |-> branches[b]]
  /\ Settle(c, Tell(world, NoHandle))
  /\ UNCHANGED <<world, checkpoints, slots, episodes, handles>>

-----------------------------------------------------------------------------
(* Forks, evaluations and branch steps: look, simulate, look again.        *)

\* The checkpoint with a handle, if it was not evicted.
Kept(handle) == {k \in 1..Len(checkpoints) : checkpoints[k].id = handle}

\* branch(): an explicit scene comes first, then a checkpoint of this epoch,
\* then the live world.
Forkable(request) ==
  \/ request.scene # Same
  \/ request.checkpoint = NoHandle
  \/ \E k \in Kept(request.checkpoint) : checkpoints[k].world.epoch = world.epoch

ForkOf(request) ==
  IF request.scene # Same
  THEN Copy(NewWorld(request.scene, world.epoch, OwnEpisode), NoHandle)
  ELSE IF request.checkpoint = NoHandle
       THEN Copy(world, NoHandle)
       ELSE LET k == CHOOSE k \in Kept(request.checkpoint) : TRUE
            IN  Copy(checkpoints[k].world, request.checkpoint)

ForkBegins(c) ==
  /\ Asked(c, "fork")
  /\ LET request == call[c].request
     IN  Settle(c, IF Forkable(request) THEN Work(request, ForkOf(request)) ELSE Refusal)
  /\ UNCHANGED <<world, checkpoints, branches, slots, episodes, handles>>

\* The new branch is registered if there is room and its scene is still the
\* live one.
Admitted(branch) ==
  /\ Cardinality(DOMAIN branches) < MaxBranches
  /\ branch.epoch = world.epoch

ForkEnds(c) ==
  /\ Working(c, "fork")
  /\ LET branch == call[c].branch
     IN  IF Admitted(branch)
         THEN /\ handles' = handles + 1
              /\ branches' = [b \in DOMAIN branches \cup {handles + 1} |->
                               IF b = handles + 1 THEN branch ELSE branches[b]]
              /\ Settle(c, Answer([about |-> branch, handle |-> handles + 1, passed |-> FALSE]))
         ELSE Settle(c, Refusal) /\ UNCHANGED <<branches, handles>>
  /\ UNCHANGED <<world, checkpoints, slots, episodes>>

\* POST /evaluate: a slot, then a fork of its own.  Without a fork the slot is
\* free again at once.
EvaluateBegins(c) ==
  /\ Asked(c, "evaluate")
  /\ LET request == call[c].request
     IN  IF slots < MaxSlots /\ Forkable(request)
         THEN slots' = slots + 1 /\ Settle(c, Work(request, ForkOf(request)))
         ELSE Settle(c, Refusal) /\ UNCHANGED slots
  /\ UNCHANGED <<world, checkpoints, branches, episodes, handles>>

\* Mutant of EvaluateOutcome: the result is returned whatever happened since.
EvaluateOutcomeAnyway(branch, passed) ==
  IF branch.invalidated THEN Refusal
  ELSE Answer([about |-> branch, handle |-> branch.origin, passed |-> passed])

\* An invalidated world cannot be stepped; a result for a scene that has been
\* replaced is refused.
EvaluateOutcome(branch, passed) ==
  IF branch.invalidated \/ branch.epoch # world.epoch THEN Refusal
  ELSE Answer([about |-> branch, handle |-> branch.origin, passed |-> passed])

\* Mutant of EvaluateEnds: a failed evaluation keeps its slot.
EvaluateEndsHolding(c) ==
  /\ Working(c, "evaluate")
  /\ slots' = IF call[c].branch.invalidated THEN slots ELSE slots - 1
  /\ \E passed \in BOOLEAN : Settle(c, EvaluateOutcome(call[c].branch, passed))
  /\ UNCHANGED <<world, checkpoints, branches, episodes, handles>>

\* The slot is released whether or not the evaluation raised.
EvaluateEnds(c) ==
  /\ Working(c, "evaluate")
  /\ slots' = slots - 1
  /\ \E passed \in BOOLEAN : Settle(c, EvaluateOutcome(call[c].branch, passed))
  /\ UNCHANGED <<world, checkpoints, branches, episodes, handles>>

\* get_branch().
Gettable(b) == b \in DOMAIN branches /\ branches[b].epoch = world.epoch

\* POST /branch/{id}/step and GET /branch/{id}/result.
BranchBegins(c) ==
  /\ Asked(c, "step") \/ Asked(c, "result")
  /\ LET request == call[c].request
     IN  Settle(c, IF Gettable(request.branch) THEN Work(request, branches[request.branch]) ELSE Refusal)
  /\ UNCHANGED <<world, checkpoints, branches, slots, episodes, handles>>

BranchOutcome(request, branch, passed) ==
  IF (request.op = "step" /\ branch.invalidated) \/ ~Gettable(request.branch) THEN Refusal
  ELSE Answer([about |-> branch, handle |-> request.branch, passed |-> passed])

BranchEnds(c) ==
  /\ Working(c, "step") \/ Working(c, "result")
  /\ \E passed \in BOOLEAN :
       /\ Working(c, "step") => ~passed
       /\ Settle(c, BranchOutcome(call[c].request, call[c].branch, passed))
  /\ UNCHANGED <<world, checkpoints, branches, slots, episodes, handles>>

-----------------------------------------------------------------------------
(* The service itself.                                                     *)

\* The process ends and starts again: everything is lost, epochs count from
\* one again, and every request under way fails.
Restarted(epoch) ==
  /\ episodes' = episodes + 1
  /\ world' = NewWorld(DefaultScene, epoch, episodes + 1)
  /\ checkpoints' = <<>>
  /\ branches' = NoBranches
  /\ slots' = 0
  /\ call' = [c \in Clients |-> IF call[c].stage \in {"asked", "working"} THEN Refusal ELSE call[c]]
  /\ UNCHANGED handles

Restart == Restarted(1)

Serve(c) ==
  \/ Look(c) \/ Reset(c) \/ Invalidate(c) \/ Capture(c) \/ Delete(c)
  \/ ForkBegins(c) \/ ForkEnds(c)
  \/ EvaluateBegins(c) \/ EvaluateEnds(c)
  \/ BranchBegins(c) \/ BranchEnds(c)

Send(c) ==
  /\ \E request \in Request : SendRequest(c, request)
  /\ UNCHANGED <<world, checkpoints, branches, slots, episodes, handles>>

\* A client forgets a reply it has read.
Forget(c) ==
  /\ Free(c)
  /\ Settle(c, Idle)
  /\ UNCHANGED <<world, checkpoints, branches, slots, episodes, handles>>

SimNext ==
  \/ \E c \in Clients : Send(c) \/ Serve(c) \/ LoseReply(c) \/ Forget(c)
  \/ Restart

SimSpec == SimInit /\ [][SimNext]_simVars

-----------------------------------------------------------------------------
(* Properties of the service, whatever its clients ask.                    *)

\* Within a run of the service the epoch number stands for one scene and one
\* episode: every checkpoint that still carries the live epoch was taken from
\* the live world, and nothing carries a later one.
EpochIdentifiesWorld ==
  \A k \in 1..Len(checkpoints) :
    /\ checkpoints[k].world.epoch <= world.epoch
    /\ checkpoints[k].world.epoch = world.epoch =>
         /\ checkpoints[k].world.episode = world.episode
         /\ checkpoints[k].world.scene = world.scene

\* Every registered branch belongs to the live scene, also one whose world was
\* built while the scene was being replaced.
BranchesOfLiveScene ==
  \A b \in DOMAIN branches :
    /\ branches[b].epoch = world.epoch
    /\ branches[b].episode # OwnEpisode =>
         branches[b].episode = world.episode /\ branches[b].scene = world.scene

\* The slots taken are exactly the evaluations that run: none is lost by an
\* evaluation that raises, is refused, or dies with the service.
SlotsAreRunning ==
  /\ slots = Cardinality({c \in Clients : Working(c, "evaluate")})
  /\ slots <= MaxSlots

\* An evaluation, branch step or result that is answered is about the scene
\* that is live at that moment, and one restored from a checkpoint about the
\* live episode: a reset or invalidation while it ran is never overlooked.
AnswersAreCurrent ==
  [][\A c \in Clients :
       call[c].stage = "working" /\ call'[c].stage = "answered" =>
         LET about == call'[c].reply.about
         IN  /\ about.epoch = world.epoch
             /\ about.origin # NoHandle => about.episode = world.episode /\ about.scene = world.scene]_simVars
=============================================================================
