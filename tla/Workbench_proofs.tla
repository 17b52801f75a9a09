--------------------------- MODULE Workbench_proofs ---------------------------
(***************************************************************************)
(* Proofs about the simulation service and about the workbench, for any    *)
(* number of handlers, sources, obstacles and faults.                      *)
(*                                                                         *)
(* The service, whatever its clients ask of it and however its threads     *)
(* interleave: within one run of it the epoch number stands for one scene  *)
(* and one episode, so that a world that still carries the live epoch is   *)
(* the live world or one made for an explicit scene; and a handle stands   *)
(* for one branch, so that a branch that is still registered is the one    *)
(* the request began with.                                                 *)
(*                                                                         *)
(* The workbench: every step of it is a step of the service or leaves it   *)
(* alone.  The invariant says where each handler may be and what it awaits *)
(* (Base), that nothing the service keeps is of a later world than the     *)
(* live one (Dates), that a captured failure has its checkpoint and its    *)
(* episode to itself (CtxInv), that what is measured or will be is what    *)
(* its artifact was made for (MeasureInv), that what a search holds is not *)
(* older than the last edit (FreshInv), and that every branch has an owner *)
(* (LeakInv).                                                              *)
(***************************************************************************)
EXTENDS Workbench, FiniteSetTheorems, TLAPS

-----------------------------------------------------------------------------
(* Types.                                                                  *)

\* A handle is issued only once, also over restarts.
HandlesAreIssued ==
  /\ \A b \in DOMAIN branches : b <= handles
  /\ \A k \in 1..Len(checkpoints) : checkpoints[k].id <= handles

LEMMA CopyIsBranch ==
  ASSUME NEW w \in World, NEW origin \in Nat
  PROVE  Copy(w, origin) \in Branch
BY DEF Copy, World, Branch

LEMMA NewWorldIsWorld ==
  ASSUME NEW scene \in Scenes, NEW epoch \in Nat \ {0}, NEW episode \in Nat
  PROVE  NewWorld(scene, epoch, episode) \in World
BY DEF NewWorld, World

LEMMA CallsOfTypes ==
  /\ Idle \in Call /\ Refusal \in Call
  /\ \A request \in Request : Ask(request) \in Call
  /\ \A request \in Request, branch \in Branch : Work(request, branch) \in Call
  /\ \A branch \in Branch, handle \in Nat, passed \in BOOLEAN :
       Answer([about |-> branch, handle |-> handle, passed |-> passed]) \in Call
BY DEF Call, Idle, Refusal, Ask, Work, Answer, Reply

LEMMA TellIsCall ==
  ASSUME NEW w \in World, NEW handle \in Nat
  PROVE  Tell(w, handle) \in Call
<1>1. Copy(w, NoHandle) \in Branch
  BY CopyIsBranch DEF NoHandle
<1> QED
  BY <1>1, CallsOfTypes DEF Tell

\* What a request under way carries.
LEMMA AskedHasRequest ==
  ASSUME NEW x \in Call
  PROVE  /\ x.stage = "asked" => x.request \in Request
         /\ x.stage = "working" => x.request \in Request /\ x.branch \in Branch
<1>1. CASE x \in {Idle, Refusal}
  BY <1>1 DEF Idle, Refusal
<1>2. CASE x \in [stage : {"asked"}, request : Request]
  BY <1>2
<1>3. CASE x \in [stage : {"working"}, request : Request, branch : Branch]
  BY <1>3
<1>4. CASE x \in [stage : {"answered"}, reply : Reply]
  BY <1>4
<1> QED
  BY <1>1, <1>2, <1>3, <1>4 DEF Call

LEMMA RequestFields ==
  ASSUME NEW r \in Request
  PROVE  /\ r.op = "reset" => r.scene \in Scenes \cup {Same}
         /\ r.op \in {"fork", "evaluate"} => r.scene \in Scenes \cup {Same} /\ r.checkpoint \in Nat
         /\ r.op \in {"step", "result", "delete"} => r.branch \in Nat
<1>1. CASE r \in [op : {"state", "scene", "pause", "invalidate", "checkpoint"}]
  BY <1>1
<1>2. CASE r \in [op : {"reset"}, scene : Scenes \cup {Same}, epoch : Nat, episode : Nat]
  BY <1>2
<1>3. CASE r \in [op : {"fork", "evaluate"}, scene : Scenes \cup {Same}, checkpoint : Nat]
  BY <1>3
<1>4. CASE r \in [op : {"step", "result", "delete"}, branch : Nat]
  BY <1>4
<1> QED
  BY <1>1, <1>2, <1>3, <1>4 DEF Request

LEMMA SettleType ==
  ASSUME NEW c \in Clients, NEW outcome \in Call, call \in [Clients -> Call], Settle(c, outcome)
  PROVE  call' \in [Clients -> Call]
BY DEF Settle

LEMMA KeptHandle ==
  ASSUME SimTypeOK, NEW handle \in Nat, NEW k \in Kept(handle)
  PROVE  k \in 1..Len(checkpoints) /\ checkpoints[k].world \in World /\ checkpoints[k].id = handle
<1>1. k \in 1..Len(checkpoints) /\ checkpoints[k].id = handle
  BY DEF Kept
<1>2. checkpoints[k] \in Checkpoint
  BY <1>1 DEF SimTypeOK
<1> QED
  BY <1>1, <1>2 DEF Checkpoint

\* A fork is of an explicit scene, of the live world, or of a kept checkpoint
\* that carries the live epoch or comes with others of its handle.
LEMMA ForkOfCases ==
  ASSUME SimTypeOK, NEW r \in Request, r.op \in {"fork", "evaluate"}, Forkable(r)
  PROVE  \/ r.scene \in Scenes /\ ForkOf(r) = Copy(NewWorld(r.scene, world.epoch, OwnEpisode), NoHandle)
         \/ ForkOf(r) = Copy(world, NoHandle)
         \/ \E k \in 1..Len(checkpoints) :
              checkpoints[k].world \in World /\ ForkOf(r) = Copy(checkpoints[k].world, r.checkpoint)
<1>1. CASE r.scene # Same
  BY <1>1, RequestFields DEF ForkOf
<1>2. CASE r.scene = Same /\ r.checkpoint = NoHandle
  BY <1>2 DEF ForkOf
<1>3. CASE r.scene = Same /\ r.checkpoint # NoHandle
  <2> DEFINE k == CHOOSE k \in Kept(r.checkpoint) : TRUE
  <2>1. Kept(r.checkpoint) # {}
    BY <1>3 DEF Forkable
  <2>2. k \in Kept(r.checkpoint)
    BY <2>1
  <2>3. ForkOf(r) = Copy(checkpoints[k].world, r.checkpoint)
    BY <1>3 DEF ForkOf
  <2>4. r.checkpoint \in Nat
    BY RequestFields
  <2>5. k \in 1..Len(checkpoints) /\ checkpoints[k].world \in World
    BY <2>2, <2>4, KeptHandle
  <2> HIDE DEF k
  <2> QED
    BY <2>3, <2>5
<1> QED
  BY <1>1, <1>2, <1>3

LEMMA ForkOfIsBranch ==
  ASSUME SimTypeOK, NEW r \in Request, r.op \in {"fork", "evaluate"}, Forkable(r)
  PROVE  ForkOf(r) \in Branch
<1>1. world \in World /\ world.epoch \in Nat \ {0} /\ OwnEpisode \in Nat /\ NoHandle \in Nat /\ r.checkpoint \in Nat
  BY RequestFields DEF SimTypeOK, World, OwnEpisode, NoHandle
<1>2. CASE r.scene \in Scenes /\ ForkOf(r) = Copy(NewWorld(r.scene, world.epoch, OwnEpisode), NoHandle)
  BY <1>1, <1>2, NewWorldIsWorld, CopyIsBranch
<1>3. CASE ForkOf(r) = Copy(world, NoHandle)
  BY <1>1, <1>3, CopyIsBranch
<1>4. CASE \E k \in 1..Len(checkpoints) :
              checkpoints[k].world \in World /\ ForkOf(r) = Copy(checkpoints[k].world, r.checkpoint)
  BY <1>1, <1>4, CopyIsBranch
<1> QED
  BY <1>2, <1>3, <1>4, ForkOfCases

\* The checkpoints kept are old ones and the one just captured.
LEMMA NewestKeeps ==
  ASSUME NEW S, NEW s \in Seq(S), NEW e \in S
  PROVE  /\ Newest(Append(s, e)) \in Seq(S)
         /\ \A k \in 1..Len(Newest(Append(s, e))) :
              \/ Newest(Append(s, e))[k] = e
              \/ \E j \in 1..Len(s) : Newest(Append(s, e))[k] = s[j]
<1> DEFINE t == Append(s, e)
<1>1. t \in Seq(S) /\ Len(t) = Len(s) + 1
  OBVIOUS
<1>2. \A k \in 1..Len(t) : t[k] = e \/ \E j \in 1..Len(s) : t[k] = s[j]
  <2> TAKE k \in 1..Len(t)
  <2>1. CASE k = Len(s) + 1
    BY <2>1
  <2>2. CASE k \in 1..Len(s)
    BY <2>2
  <2>3. k \in 1..(Len(s) + 1)
    BY <1>1
  <2> QED
    BY <2>1, <2>2, <2>3
<1>3. t # <<>>
  <2>1. Len(t) # 0 /\ Len(<<>>) = 0
    BY <1>1
  <2> HIDE DEF t
  <2> QED
    BY <2>1
<1> HIDE DEF t
<1>4. Tail(t) \in Seq(S) /\ Len(Tail(t)) = Len(t) - 1 /\ \A k \in 1..Len(Tail(t)) : Tail(t)[k] = t[k + 1]
  BY <1>1, <1>3
<1>5. \A k \in 1..Len(Tail(t)) : Tail(t)[k] = e \/ \E j \in 1..Len(s) : Tail(t)[k] = s[j]
  <2> TAKE k \in 1..Len(Tail(t))
  <2>1. k + 1 \in 1..Len(t) /\ Tail(t)[k] = t[k + 1]
    BY <1>1, <1>4
  <2> QED
    BY <2>1, <1>2
<1>6. Newest(t) = Tail(t) \/ Newest(t) = t
  BY DEF Newest
<1>7. Newest(t) \in Seq(S) /\
      \A k \in 1..Len(Newest(t)) : Newest(t)[k] = e \/ \E j \in 1..Len(s) : Newest(t)[k] = s[j]
  BY <1>1, <1>2, <1>4, <1>5, <1>6
<1> QED
  BY <1>7 DEF t

LEMMA InitTypes == SimInit => SimTypeOK /\ HandlesAreIssued
<1> SUFFICES ASSUME SimInit PROVE SimTypeOK /\ HandlesAreIssued
  OBVIOUS
<1>1. world \in World
  BY SimAssumption, NewWorldIsWorld DEF SimInit
<1>2. checkpoints \in Seq(Checkpoint) /\ checkpoints = <<>>
  BY DEF SimInit
<1>3. DOMAIN branches = {} /\ slots \in Nat /\ episodes \in Nat /\ handles \in Nat
  BY DEF SimInit, NoBranches
<1>4. call \in [Clients -> Call]
  BY CallsOfTypes DEF SimInit
<1> QED
  BY <1>1, <1>2, <1>3, <1>4 DEF SimTypeOK, HandlesAreIssued

\* Settling a call is all the served requests do to calls: it is enough to
\* type the outcome.
LEMMA OutcomeTypes ==
  ASSUME SimTypeOK, NEW c \in Clients
  PROVE  /\ call[c].stage = "asked" => call[c].request \in Request
         /\ call[c].stage = "working" => call[c].request \in Request /\ call[c].branch \in Branch
         /\ Tell(world, NoHandle) \in Call
         /\ Tell(world, handles + 1) \in Call
         /\ \A branch \in Branch, passed \in BOOLEAN : EvaluateOutcome(branch, passed) \in Call
         /\ \A branch \in Branch, passed \in BOOLEAN, request \in Request :
              request.op \in {"step", "result"} => BranchOutcome(request, branch, passed) \in Call
<1>1. call[c] \in Call /\ world \in World /\ handles \in Nat /\ NoHandle \in Nat
  BY DEF SimTypeOK, NoHandle
<1>2. \A branch \in Branch, passed \in BOOLEAN : EvaluateOutcome(branch, passed) \in Call
  BY CallsOfTypes DEF EvaluateOutcome, Branch
<1>3. \A branch \in Branch, passed \in BOOLEAN, request \in Request :
        request.op \in {"step", "result"} => BranchOutcome(request, branch, passed) \in Call
  <2> TAKE branch \in Branch, passed \in BOOLEAN, request \in Request
  <2> HAVE request.op \in {"step", "result"}
  <2>1. request.branch \in Nat
    BY RequestFields
  <2> QED
    BY <2>1, CallsOfTypes DEF BranchOutcome
<1> QED
  BY <1>1, <1>2, <1>3, AskedHasRequest, TellIsCall

\* The new world of a reset, an invalidation or a restart.
LEMMA ReplacedWorld ==
  ASSUME SimTypeOK, NEW scene \in Scenes
  PROVE  /\ NewWorld(scene, world.epoch + 1, episodes + 1) \in World
         /\ NewWorld(scene, 1, episodes + 1) \in World
         /\ Invalidated(world) \in World
         /\ world.scene \in Scenes
<1>1. world.epoch + 1 \in Nat \ {0} /\ 1 \in Nat \ {0} /\ episodes + 1 \in Nat
  BY DEF SimTypeOK, World
<1>2. Invalidated(world) \in World /\ world.scene \in Scenes
  BY DEF SimTypeOK, World, Invalidated
<1> QED
  BY <1>1, <1>2, NewWorldIsWorld

Types == SimTypeOK /\ HandlesAreIssued

LEMMA KeptCheckpoints ==
  ASSUME Types
  PROVE  \A k \in 1..Len(checkpoints) :
           /\ checkpoints[k].world \in World
           /\ checkpoints[k].id \in Nat /\ checkpoints[k].id <= handles
<1> TAKE k \in 1..Len(checkpoints)
<1>1. checkpoints[k] \in Checkpoint
  BY DEF Types, SimTypeOK
<1>2. checkpoints[k].id <= handles
  BY DEF Types, HandlesAreIssued
<1> QED
  BY <1>1, <1>2 DEF Checkpoint

\* A running evaluation holds one of the slots.
LEMMA RunningHoldsSlot ==
  ASSUME SimTypeOK, SlotsAreRunning, NEW c \in Clients, Working(c, "evaluate")
  PROVE  slots - 1 \in Nat
<1> DEFINE R == {d \in Clients : Working(d, "evaluate")}
<1>1. IsFiniteSet(R)
  BY SimAssumption, FS_Subset
<1>2. Cardinality(R) \in Nat /\ Cardinality(R) # 0
  BY <1>1, FS_EmptySet, FS_CardinalityType
<1>3. slots = Cardinality(R)
  BY DEF SlotsAreRunning
<1> HIDE DEF R
<1> QED
  BY <1>2, <1>3

\* One step per action; each action disturbs the types it assigns.
LEMMA TypesStep ==
  ASSUME Types, SlotsAreRunning, [SimNext]_simVars
  PROVE  Types'
<1>0. SimTypeOK /\ HandlesAreIssued /\ \A k \in 1..Len(checkpoints) : checkpoints[k].id \in Nat /\
      checkpoints[k].id <= handles
  BY KeptCheckpoints DEF Types
<1> USE <1>0 DEF Types
<1>1. ASSUME NEW c \in Clients, Send(c) PROVE Types'
  <2>1. call' \in [Clients -> Call]
    BY <1>1, CallsOfTypes, SettleType DEF Send, SendRequest, SimTypeOK
  <2> QED
    BY <1>1, <2>1 DEF Send, SimTypeOK, HandlesAreIssued
<1>2. ASSUME NEW c \in Clients, LoseReply(c) \/ Forget(c) PROVE Types'
  <2>1. call' \in [Clients -> Call]
    BY <1>2, CallsOfTypes, SettleType DEF LoseReply, Forget, SimTypeOK
  <2> QED
    BY <1>2, <2>1 DEF LoseReply, Forget, SimTypeOK, HandlesAreIssued
<1>3. ASSUME NEW c \in Clients, Look(c) PROVE Types'
  <2>1. call' \in [Clients -> Call]
    BY <1>3, OutcomeTypes, SettleType DEF Look, SimTypeOK
  <2> QED
    BY <1>3, <2>1 DEF Look, SimTypeOK, HandlesAreIssued
<1>4. ASSUME NEW c \in Clients, Reset(c) PROVE Types'
  <2> DEFINE r == call[c].request
  <2>1. r \in Request /\ r.op = "reset"
    BY <1>4, OutcomeTypes DEF Reset, Asked
  <2>2. CASE Expected(r)
    <3> DEFINE scene == IF r.scene = Same THEN world.scene ELSE r.scene
    <3>1. scene \in Scenes
      BY <2>1, RequestFields, ReplacedWorld, SimAssumption
    <3>2. world' = NewWorld(scene, world.epoch + 1, episodes + 1) /\ branches' = NoBranches
          /\ episodes' = episodes + 1
      BY <1>4, <2>2 DEF Reset, ReplaceWorld
    <3>3. world' \in World
      BY <3>1, <3>2, ReplacedWorld
    <3>4. call' \in [Clients -> Call]
      <4>1. Tell(world', NoHandle) \in Call
        BY <3>3, TellIsCall DEF NoHandle
      <4>2. Settle(c, Tell(world', NoHandle))
        BY <1>4, <2>2 DEF Reset
      <4> QED
        BY <4>1, <4>2 DEF Settle, SimTypeOK
    <3>5. UNCHANGED <<checkpoints, slots, handles>>
      BY <1>4 DEF Reset
    <3> QED
      BY <3>2, <3>3, <3>4, <3>5 DEF SimTypeOK, HandlesAreIssued, NoBranches
  <2>3. CASE ~Expected(r)
    <3>1. call' \in [Clients -> Call]
      BY <1>4, <2>3, CallsOfTypes, SettleType DEF Reset, SimTypeOK
    <3> QED
      BY <1>4, <2>3, <3>1 DEF Reset, SimTypeOK, HandlesAreIssued
  <2> QED
    BY <2>2, <2>3
<1>5. ASSUME NEW c \in Clients, Invalidate(c) PROVE Types'
  <2>1. world' \in World
    BY <1>5, ReplacedWorld, SimAssumption DEF Invalidate
  <2>2. call' \in [Clients -> Call]
    <3>1. Tell(world', NoHandle) \in Call
      BY <2>1, TellIsCall DEF NoHandle
    <3> QED
      BY <1>5, <3>1 DEF Invalidate, Settle, SimTypeOK
  <2> QED
    BY <1>5, <2>1, <2>2 DEF Invalidate, SimTypeOK, HandlesAreIssued, NoBranches
<1>6. ASSUME NEW c \in Clients, Capture(c) PROVE Types'
  <2> DEFINE e == [id |-> handles + 1, world |-> world]
  <2>1. e \in Checkpoint /\ e.id = handles + 1
    BY DEF Checkpoint, SimTypeOK
  <2>2. checkpoints' = Newest(Append(checkpoints, e)) /\ handles' = handles + 1
    BY <1>6 DEF Capture
  <2> HIDE DEF e
  <2>3. checkpoints \in Seq(Checkpoint) /\ handles \in Nat
    BY DEF SimTypeOK
  <2>9. /\ Newest(Append(checkpoints, e)) \in Seq(Checkpoint)
        /\ \A k \in 1..Len(Newest(Append(checkpoints, e))) :
             \/ Newest(Append(checkpoints, e))[k] = e
             \/ \E j \in 1..Len(checkpoints) : Newest(Append(checkpoints, e))[k] = checkpoints[j]
    BY <2>1, <2>3, NewestKeeps
  <2>4. /\ checkpoints' \in Seq(Checkpoint)
        /\ \A k \in 1..Len(checkpoints') : checkpoints'[k] = e \/ \E j \in 1..Len(checkpoints) : checkpoints'[k] = checkpoints[j]
    BY <2>2, <2>9
  <2>5. \A k \in 1..Len(checkpoints') : checkpoints'[k].id <= handles'
    <3> TAKE k \in 1..Len(checkpoints')
    <3>1. CASE checkpoints'[k] = e
      BY <2>1, <2>2, <2>3, <3>1
    <3>2. CASE \E j \in 1..Len(checkpoints) : checkpoints'[k] = checkpoints[j]
      BY <2>2, <2>3, <3>2
    <3> QED
      BY <2>4, <3>1, <3>2
  <2>6. call' \in [Clients -> Call]
    BY <1>6, OutcomeTypes, SettleType DEF Capture, SimTypeOK
  <2>7. DOMAIN branches \subseteq Nat \ {0} /\ \A b \in DOMAIN branches : b <= handles
    BY DEF SimTypeOK, HandlesAreIssued
  <2>8. \A b \in DOMAIN branches : b <= handles'
    BY <2>2, <2>3, <2>7
  <2> QED
    BY <1>6, <2>2, <2>4, <2>5, <2>6, <2>8 DEF Capture, SimTypeOK, HandlesAreIssued
<1>7. ASSUME NEW c \in Clients, Delete(c) PROVE Types'
  <2>1. call' \in [Clients -> Call]
    BY <1>7, OutcomeTypes, SettleType DEF Delete, SimTypeOK
  <2>2. DOMAIN branches' \subseteq DOMAIN branches /\ \A b \in DOMAIN branches' : branches'[b] = branches[b]
    BY <1>7 DEF Delete
  <2> QED
    BY <1>7, <2>1, <2>2 DEF Delete, SimTypeOK, HandlesAreIssued
<1>8. ASSUME NEW c \in Clients, ForkBegins(c) \/ EvaluateBegins(c) PROVE Types'
  <2> DEFINE r == call[c].request
  <2>1. r \in Request /\ r.op \in {"fork", "evaluate"}
    BY <1>8, OutcomeTypes DEF ForkBegins, EvaluateBegins, Asked
  <2>2. Forkable(r) => Work(r, ForkOf(r)) \in Call
    BY <2>1, ForkOfIsBranch, CallsOfTypes
  <2>3. call' \in [Clients -> Call]
    BY <1>8, <2>2, CallsOfTypes, SettleType DEF ForkBegins, EvaluateBegins, SimTypeOK
  <2>4. slots' \in Nat
    BY <1>8 DEF ForkBegins, EvaluateBegins, SimTypeOK
  <2> QED
    BY <1>8, <2>3, <2>4 DEF ForkBegins, EvaluateBegins, SimTypeOK, HandlesAreIssued
<1>9. ASSUME NEW c \in Clients, ForkEnds(c) PROVE Types'
  <2> DEFINE x == call[c].branch
  <2>1. x \in Branch
    BY <1>9, OutcomeTypes DEF ForkEnds, Working
  <2>2. CASE Admitted(x)
    <3>1. /\ handles \in Nat /\ handles' = handles + 1
          /\ DOMAIN branches' = DOMAIN branches \cup {handles + 1}
          /\ \A b \in DOMAIN branches' : branches'[b] = IF b = handles + 1 THEN x ELSE branches[b]
      BY <1>9, <2>2 DEF ForkEnds, SimTypeOK
    <3>2. DOMAIN branches \subseteq Nat \ {0} /\ \A b \in DOMAIN branches : b <= handles /\ branches[b] \in Branch
      BY DEF SimTypeOK, HandlesAreIssued
    <3>3. DOMAIN branches' \subseteq Nat \ {0} /\ \A b \in DOMAIN branches' : b <= handles' /\ branches'[b] \in Branch
      BY <2>1, <3>1, <3>2
    <3>4. call' \in [Clients -> Call]
      <4>2. handles + 1 \in Nat /\ FALSE \in BOOLEAN
        BY <3>1
      <4>1. Answer([about |-> x, handle |-> handles + 1, passed |-> FALSE]) \in Call
        BY <2>1, <4>2, CallsOfTypes
      <4> QED
        BY <1>9, <2>2, <4>1, SettleType DEF ForkEnds, SimTypeOK
    <3>5. \A k \in 1..Len(checkpoints) : checkpoints[k].id <= handles'
      BY <3>1
    <3> QED
      BY <1>9, <3>1, <3>3, <3>4, <3>5 DEF ForkEnds, SimTypeOK, HandlesAreIssued
  <2>3. CASE ~Admitted(x)
    <3>1. call' \in [Clients -> Call]
      BY <1>9, <2>3, CallsOfTypes, SettleType DEF ForkEnds, SimTypeOK
    <3> QED
      BY <1>9, <2>3, <3>1 DEF ForkEnds, SimTypeOK, HandlesAreIssued
  <2> QED
    BY <2>2, <2>3
<1>10. ASSUME NEW c \in Clients, EvaluateEnds(c) PROVE Types'
  <2>1. call[c].branch \in Branch /\ slots - 1 \in Nat
    BY <1>10, OutcomeTypes, RunningHoldsSlot DEF EvaluateEnds, Working
  <2>2. call' \in [Clients -> Call]
    BY <1>10, <2>1, OutcomeTypes, SettleType DEF EvaluateEnds, SimTypeOK
  <2> QED
    BY <1>10, <2>1, <2>2 DEF EvaluateEnds, SimTypeOK, HandlesAreIssued
<1>11. ASSUME NEW c \in Clients, BranchBegins(c) \/ BranchEnds(c) PROVE Types'
  <2> DEFINE r == call[c].request
  <2>1. r \in Request /\ r.op \in {"step", "result"}
    BY <1>11, OutcomeTypes DEF BranchBegins, BranchEnds, Asked, Working
  <2>2. call' \in [Clients -> Call]
    <3>1. CASE BranchBegins(c)
      <4>1. Gettable(r.branch) => Work(r, branches[r.branch]) \in Call
        BY <2>1, CallsOfTypes DEF Gettable, SimTypeOK
      <4> QED
        BY <3>1, <4>1, CallsOfTypes, SettleType DEF BranchBegins, SimTypeOK
    <3>2. CASE BranchEnds(c)
      <4>1. call[c].branch \in Branch
        BY <3>2, OutcomeTypes DEF BranchEnds, Working
      <4>2. \A passed \in BOOLEAN : BranchOutcome(r, call[c].branch, passed) \in Call
        BY <2>1, <4>1, OutcomeTypes
      <4> QED
        BY <3>2, <4>2, SettleType DEF BranchEnds, SimTypeOK
    <3> QED
      BY <1>11, <3>1, <3>2
  <2> QED
    BY <1>11, <2>2 DEF BranchBegins, BranchEnds, SimTypeOK, HandlesAreIssued
<1>12. ASSUME Restart PROVE Types'
  <2>1. world' \in World
    BY <1>12, ReplacedWorld, SimAssumption DEF Restart, Restarted
  <2>2. call' \in [Clients -> Call]
    BY <1>12, CallsOfTypes DEF Restart, Restarted, SimTypeOK
  <2>3. checkpoints' = <<>> /\ checkpoints' \in Seq(Checkpoint)
    BY <1>12 DEF Restart, Restarted
  <2> QED
    BY <1>12, <2>1, <2>2, <2>3 DEF Restart, Restarted, SimTypeOK, HandlesAreIssued, NoBranches
<1>13. ASSUME UNCHANGED simVars PROVE Types'
  BY <1>13 DEF simVars, SimTypeOK, HandlesAreIssued
<1> QED
  BY <1>1, <1>2, <1>3, <1>4, <1>5, <1>6, <1>7, <1>8, <1>9, <1>10, <1>11, <1>12, <1>13 DEF SimNext, Serve

-----------------------------------------------------------------------------
(* Evaluation slots.                                                       *)

Running == {c \in Clients : Working(c, "evaluate")}

\* A request that neither was a running evaluation nor becomes one.
LEMMA SameRunning ==
  ASSUME SimTypeOK, NEW c \in Clients, NEW outcome, Settle(c, outcome), ~Working(c, "evaluate"),
         outcome.stage # "working" \/ outcome.request.op # "evaluate"
  PROVE  Running' = Running
<1>1. \A d \in Clients : call'[d] = IF d = c THEN outcome ELSE call[d]
  BY DEF Settle, SimTypeOK
<1> QED
  BY <1>1 DEF Running, Working

LEMMA StagesOfCalls ==
  /\ Idle.stage = "idle" /\ Refusal.stage = "refused"
  /\ \A request : Ask(request).stage = "asked"
  /\ \A request, branch : Work(request, branch).stage = "working" /\ Work(request, branch).request = request
                          /\ Work(request, branch).branch = branch
  /\ \A reply : Answer(reply).stage = "answered" /\ Answer(reply).reply = reply
  /\ \A w, handle : Tell(w, handle).stage = "answered"
  /\ \A branch, passed : EvaluateOutcome(branch, passed).stage \in {"refused", "answered"}
  /\ \A request, branch, passed : BranchOutcome(request, branch, passed).stage \in {"refused", "answered"}
BY DEF Idle, Refusal, Ask, Work, Answer, Tell, EvaluateOutcome, BranchOutcome

\* All requests but the start and end of an evaluation leave the slots alone.
LEMMA OthersKeepSlots ==
  ASSUME SimTypeOK, NEW c \in Clients,
         Send(c) \/ LoseReply(c) \/ Forget(c) \/ Look(c) \/ Reset(c) \/ Invalidate(c) \/ Capture(c) \/ Delete(c)
           \/ ForkBegins(c) \/ ForkEnds(c) \/ BranchBegins(c) \/ BranchEnds(c)
  PROVE  Running' = Running /\ UNCHANGED slots
<1>1. UNCHANGED slots
  BY DEF Send, LoseReply, Forget, Look, Reset, Invalidate, Capture, Delete, ForkBegins, ForkEnds,
     BranchBegins, BranchEnds
<1>2. CASE Send(c) \/ LoseReply(c) \/ Forget(c)
  <2>1. call[c].stage # "working"
    BY <1>2 DEF Send, SendRequest, LoseReply, Forget, Free
  <2>2. \E outcome : Settle(c, outcome) /\ outcome.stage # "working"
    BY <1>2, StagesOfCalls DEF Send, SendRequest, LoseReply, Forget
  <2> QED
    BY <1>1, <2>1, <2>2, SameRunning DEF Working
<1>3. CASE Look(c) \/ Reset(c) \/ Invalidate(c) \/ Capture(c) \/ Delete(c)
  <2>1. call[c].stage # "working"
    BY <1>3 DEF Look, Reset, Invalidate, Capture, Delete, Asked
  <2>2. \E outcome : Settle(c, outcome) /\ outcome.stage # "working"
    BY <1>3, StagesOfCalls DEF Look, Reset, Invalidate, Capture, Delete
  <2> QED
    BY <1>1, <2>1, <2>2, SameRunning DEF Working
<1>4. CASE ForkBegins(c) \/ BranchBegins(c)
  <2>1. call[c].stage # "working" /\ call[c].request.op # "evaluate"
    BY <1>4 DEF ForkBegins, BranchBegins, Asked
  <2>2. \E outcome : Settle(c, outcome) /\ (outcome.stage # "working" \/ outcome.request = call[c].request)
    BY <1>4, StagesOfCalls DEF ForkBegins, BranchBegins
  <2> QED
    BY <1>1, <2>1, <2>2, SameRunning DEF Working
<1>5. CASE ForkEnds(c) \/ BranchEnds(c)
  <2>1. call[c].request.op # "evaluate"
    BY <1>5 DEF ForkEnds, BranchEnds, Working
  <2>2. \E outcome : Settle(c, outcome) /\ outcome.stage # "working"
    BY <1>5, StagesOfCalls DEF ForkEnds, BranchEnds
  <2> QED
    BY <1>1, <2>1, <2>2, SameRunning DEF Working
<1> QED
  BY <1>2, <1>3, <1>4, <1>5

LEMMA RunningIsFinite ==
  /\ IsFiniteSet(Running) /\ Cardinality(Running) \in Nat
  /\ SlotsAreRunning <=> slots = Cardinality(Running) /\ slots <= MaxSlots
<1>1. IsFiniteSet(Running)
  BY SimAssumption, FS_Subset DEF Running
<1> QED
  BY <1>1, FS_CardinalityType DEF SlotsAreRunning, Running

LEMMA SlotsStep ==
  ASSUME SimTypeOK, SlotsAreRunning, [SimNext]_simVars
  PROVE  SlotsAreRunning'
<1>0. slots = Cardinality(Running) /\ slots <= MaxSlots /\ IsFiniteSet(Running) /\ MaxSlots \in Nat \ {0} /\
      slots \in Nat
  BY RunningIsFinite, SimAssumption DEF SimTypeOK
<1> SUFFICES slots' = Cardinality(Running') /\ slots' <= MaxSlots
  BY DEF SlotsAreRunning, Running
<1>1. ASSUME NEW c \in Clients,
         Send(c) \/ LoseReply(c) \/ Forget(c) \/ Look(c) \/ Reset(c) \/ Invalidate(c) \/ Capture(c) \/ Delete(c)
           \/ ForkBegins(c) \/ ForkEnds(c) \/ BranchBegins(c) \/ BranchEnds(c)
      PROVE slots' = Cardinality(Running') /\ slots' <= MaxSlots
  BY <1>0, <1>1, OthersKeepSlots
<1>2. ASSUME NEW c \in Clients, EvaluateBegins(c)
      PROVE slots' = Cardinality(Running') /\ slots' <= MaxSlots
  <2>1. call[c].stage = "asked" /\ call[c].request.op = "evaluate" /\ c \notin Running
    BY <1>2 DEF EvaluateBegins, Asked, Working, Running
  <2>2. CASE slots < MaxSlots /\ Forkable(call[c].request)
    <3>1. slots' = slots + 1 /\ Settle(c, Work(call[c].request, ForkOf(call[c].request)))
      BY <1>2, <2>2 DEF EvaluateBegins
    <3>2. \A d \in Clients : call'[d] = IF d = c THEN Work(call[c].request, ForkOf(call[c].request)) ELSE call[d]
      BY <3>1 DEF Settle, SimTypeOK
    <3>3. Running' = Running \cup {c}
      BY <2>1, <3>2, StagesOfCalls DEF Running, Working
    <3>4. Cardinality(Running \cup {c}) = Cardinality(Running) + 1
      BY <1>0, <2>1, FS_AddElement
    <3> QED
      BY <1>0, <2>2, <3>1, <3>3, <3>4
  <2>3. CASE ~(slots < MaxSlots /\ Forkable(call[c].request))
    <3>1. slots' = slots /\ Settle(c, Refusal)
      BY <1>2, <2>3 DEF EvaluateBegins
    <3>2. Running' = Running
      BY <2>1, <3>1, SameRunning, StagesOfCalls DEF Working
    <3> QED
      BY <1>0, <3>1, <3>2
  <2> QED
    BY <2>2, <2>3
<1>3. ASSUME NEW c \in Clients, EvaluateEnds(c)
      PROVE slots' = Cardinality(Running') /\ slots' <= MaxSlots
  <2>1. slots' = slots - 1 /\ c \in Running
    BY <1>3 DEF EvaluateEnds, Running
  <2>2. PICK outcome : Settle(c, outcome) /\ outcome.stage # "working"
    BY <1>3, StagesOfCalls DEF EvaluateEnds
  <2>3. \A d \in Clients : call'[d] = IF d = c THEN outcome ELSE call[d]
    BY <2>2 DEF Settle, SimTypeOK
  <2>4. Running' = Running \ {c}
    BY <2>2, <2>3 DEF Running, Working
  <2>5. Cardinality(Running \ {c}) = Cardinality(Running) - 1
    BY <1>0, <2>1, FS_RemoveElement
  <2> QED
    BY <1>0, <2>1, <2>4, <2>5
<1>4. ASSUME Restart PROVE slots' = Cardinality(Running') /\ slots' <= MaxSlots
  <2>1. slots' = 0 /\ call' = [c \in Clients |-> IF call[c].stage \in {"asked", "working"} THEN Refusal ELSE call[c]]
    BY <1>4 DEF Restart, Restarted
  <2>2. \A c \in Clients : call'[c].stage # "working"
    BY <2>1, StagesOfCalls
  <2>3. Running' = {}
    BY <2>2 DEF Running, Working
  <2> QED
    BY <1>0, <2>1, <2>3, FS_EmptySet
<1>5. ASSUME UNCHANGED simVars PROVE slots' = Cardinality(Running') /\ slots' <= MaxSlots
  BY <1>0, <1>5 DEF simVars, Running, Working
<1> QED
  BY <1>1, <1>2, <1>3, <1>4, <1>5 DEF SimNext, Serve

LEMMA InitSlots == SimInit => SlotsAreRunning
<1> SUFFICES ASSUME SimInit PROVE SlotsAreRunning
  OBVIOUS
<1>1. \A c \in Clients : call[c].stage = "idle"
  BY StagesOfCalls DEF SimInit
<1>2. Running = {} /\ slots = 0
  BY <1>1 DEF SimInit, Running, Working
<1> QED
  BY <1>2, RunningIsFinite, FS_EmptySet, SimAssumption

\* The types and the slots together are inductive.
LEMMA Inductive == SimSpec => [](Types /\ SlotsAreRunning)
<1>1. SimInit => Types /\ SlotsAreRunning
  BY InitTypes, InitSlots DEF Types
<1>2. Types /\ SlotsAreRunning /\ [SimNext]_simVars => Types' /\ SlotsAreRunning'
  <2>1. Types => SimTypeOK
    BY DEF Types
  <2> QED
    BY <2>1, TypesStep, SlotsStep
<1> QED
  BY <1>1, <1>2, PTL DEF SimSpec

\* Every state of the service is of the declared types, whatever is asked of it.
THEOREM SimTypeCorrect == SimSpec => []SimTypeOK
<1>1. Types => SimTypeOK
  BY DEF Types
<1> QED
  BY <1>1, Inductive, PTL

\* No evaluation slot is ever lost or used twice, for any number of clients and
\* over restarts of the service.
THEOREM SlotsAreNotLost == SimSpec => []SlotsAreRunning
BY Inductive, PTL

-----------------------------------------------------------------------------
(* Epochs.                                                                 *)

\* World or branch w belongs to the run of the live world v: unless it has an
\* episode of its own, it is v as long as it carries the epoch of v.
OfRun(w, v) ==
  /\ w.epoch <= v.epoch
  /\ w.epoch = v.epoch /\ w.episode # OwnEpisode => w.episode = v.episode /\ w.scene = v.scene

\* Only a fork from an explicit scene has an episode of its own.
Restored(branch) == branch.origin # NoHandle => branch.episode # OwnEpisode

Epochs ==
  /\ world.episode # OwnEpisode
  /\ \A k \in 1..Len(checkpoints) : OfRun(checkpoints[k].world, world) /\ checkpoints[k].world.episode # OwnEpisode
  /\ \A b \in DOMAIN branches :
       OfRun(branches[b], world) /\ Restored(branches[b]) /\ branches[b].epoch = world.epoch
  /\ \A c \in Clients :
       call[c].stage = "working" => OfRun(call[c].branch, world) /\ Restored(call[c].branch)

\* A newer world takes nothing's place.
LEMMA OfLaterRun ==
  ASSUME NEW w, NEW v, NEW v2, w.epoch \in Nat, v.epoch \in Nat, v2.epoch \in Nat, OfRun(w, v), v.epoch < v2.epoch
  PROVE  OfRun(w, v2)
BY DEF OfRun

LEMMA ForkOfRun ==
  ASSUME Types, Epochs, NEW r \in Request, r.op \in {"fork", "evaluate"}, Forkable(r)
  PROVE  OfRun(ForkOf(r), world) /\ Restored(ForkOf(r))
<1>1. world.epoch \in Nat /\ world.epoch <= world.epoch
  BY DEF Types, SimTypeOK, World
<1>2. CASE r.scene \in Scenes /\ ForkOf(r) = Copy(NewWorld(r.scene, world.epoch, OwnEpisode), NoHandle)
  BY <1>1, <1>2 DEF Copy, NewWorld, OfRun, Restored
<1>3. CASE ForkOf(r) = Copy(world, NoHandle)
  BY <1>1, <1>3 DEF Copy, OfRun, Restored
<1>4. CASE \E k \in 1..Len(checkpoints) :
              checkpoints[k].world \in World /\ ForkOf(r) = Copy(checkpoints[k].world, r.checkpoint)
  BY <1>4 DEF Copy, OfRun, Restored, Epochs
<1> QED
  BY <1>2, <1>3, <1>4, ForkOfCases DEF Types

\* The work under way when the world stays.
LEMMA WorkKept ==
  ASSUME Types, Epochs, NEW c \in Clients, NEW outcome, Settle(c, outcome), UNCHANGED world,
         outcome.stage = "working" => OfRun(outcome.branch, world) /\ Restored(outcome.branch)
  PROVE  \A d \in Clients : call'[d].stage = "working" => OfRun(call'[d].branch, world') /\ Restored(call'[d].branch)
<1>1. \A d \in Clients : call'[d] = IF d = c THEN outcome ELSE call[d]
  BY DEF Settle, Types, SimTypeOK
<1> QED
  BY <1>1 DEF Epochs

LEMMA EpochsOfWork ==
  ASSUME Types
  PROVE  /\ world.epoch \in Nat
         /\ \A k \in 1..Len(checkpoints) : checkpoints[k].world.epoch \in Nat
         /\ \A c \in Clients : call[c].stage = "working" => call[c].branch.epoch \in Nat
<1>1. world.epoch \in Nat
  BY DEF Types, SimTypeOK, World
<1>2. \A k \in 1..Len(checkpoints) : checkpoints[k].world.epoch \in Nat
  BY KeptCheckpoints DEF World
<1>3. \A c \in Clients : call[c].stage = "working" => call[c].branch.epoch \in Nat
  BY OutcomeTypes DEF Types, Branch
<1> QED
  BY <1>1, <1>2, <1>3

\* Nothing but the new world carries the new epoch.
LEMMA EpochsOfNewer ==
  ASSUME Types, Epochs, NEW c \in Clients, NEW outcome, Settle(c, outcome), outcome.stage # "working",
         world'.epoch = world.epoch + 1, world'.episode # OwnEpisode, branches' = NoBranches, UNCHANGED checkpoints
  PROVE  Epochs'
<1>1. \A d \in Clients : call'[d] = IF d = c THEN outcome ELSE call[d]
  BY DEF Settle, Types, SimTypeOK
<1>2. world.epoch \in Nat /\ world'.epoch \in Nat /\ world.epoch < world'.epoch
  BY EpochsOfWork
<1>3. \A k \in 1..Len(checkpoints) : OfRun(checkpoints[k].world, world') /\ checkpoints[k].world.episode # OwnEpisode
  BY <1>2, EpochsOfWork, OfLaterRun DEF Epochs
<1>4. \A d \in Clients : call'[d].stage = "working" => OfRun(call'[d].branch, world') /\ Restored(call'[d].branch)
  BY <1>1, <1>2, EpochsOfWork, OfLaterRun DEF Epochs
<1>5. DOMAIN branches' = {}
  BY DEF NoBranches
<1> QED
  BY <1>3, <1>4, <1>5 DEF Epochs

LEMMA EpochsStep ==
  ASSUME Types, Epochs, [SimNext]_simVars
  PROVE  Epochs'
<1>1. ASSUME NEW c \in Clients, Send(c) \/ LoseReply(c) \/ Forget(c) \/ Look(c) \/ Delete(c) \/ BranchEnds(c) \/ EvaluateEnds(c)
      PROVE Epochs'
  <2>1. \E outcome : Settle(c, outcome) /\ outcome.stage # "working"
    BY <1>1, StagesOfCalls DEF Send, SendRequest, LoseReply, Forget, Look, Delete, BranchEnds, EvaluateEnds
  <2>2. UNCHANGED <<world, checkpoints>>
    BY <1>1 DEF Send, LoseReply, Forget, Look, Delete, BranchEnds, EvaluateEnds
  <2>3. DOMAIN branches' \subseteq DOMAIN branches /\ \A b \in DOMAIN branches' : branches'[b] = branches[b]
    BY <1>1 DEF Send, LoseReply, Forget, Look, Delete, BranchEnds, EvaluateEnds
  <2>4. \A d \in Clients : call'[d].stage = "working" => OfRun(call'[d].branch, world') /\ Restored(call'[d].branch)
    BY <2>1, <2>2, WorkKept
  <2> QED
    BY <2>2, <2>3, <2>4 DEF Epochs
<1>2. ASSUME NEW c \in Clients, ForkBegins(c) \/ EvaluateBegins(c) \/ BranchBegins(c)
      PROVE Epochs'
  <2>1. PICK outcome :
          /\ Settle(c, outcome)
          /\ outcome.stage = "working" => OfRun(outcome.branch, world) /\ Restored(outcome.branch)
    <3>1. CASE ForkBegins(c) \/ EvaluateBegins(c)
      <4>1. call[c].request \in Request /\ call[c].request.op \in {"fork", "evaluate"}
        BY <3>1, OutcomeTypes DEF ForkBegins, EvaluateBegins, Asked, Types
      <4>2. \/ Settle(c, Refusal)
            \/ Forkable(call[c].request) /\ Settle(c, Work(call[c].request, ForkOf(call[c].request)))
        BY <3>1 DEF ForkBegins, EvaluateBegins
      <4> QED
        BY <4>1, <4>2, ForkOfRun, StagesOfCalls
    <3>2. CASE BranchBegins(c)
      <4> DEFINE b == call[c].request.branch
      <4>1. \/ Settle(c, Refusal)
            \/ b \in DOMAIN branches /\ Settle(c, Work(call[c].request, branches[b]))
        BY <3>2 DEF BranchBegins, Gettable
      <4> QED
        BY <4>1, StagesOfCalls DEF Epochs
    <3> QED
      BY <1>2, <3>1, <3>2
  <2>2. UNCHANGED <<world, checkpoints, branches>>
    BY <1>2 DEF ForkBegins, EvaluateBegins, BranchBegins
  <2>3. \A d \in Clients : call'[d].stage = "working" => OfRun(call'[d].branch, world') /\ Restored(call'[d].branch)
    BY <2>1, <2>2, WorkKept
  <2> QED
    BY <2>2, <2>3 DEF Epochs
<1>3. ASSUME NEW c \in Clients, ForkEnds(c) PROVE Epochs'
  <2> DEFINE x == call[c].branch
  <2>1. OfRun(x, world) /\ Restored(x)
    BY <1>3 DEF ForkEnds, Working, Epochs
  <2>2. UNCHANGED <<world, checkpoints>>
    BY <1>3 DEF ForkEnds
  <2>3. \A b \in DOMAIN branches' :
          \/ branches'[b] = x /\ x.epoch = world.epoch
          \/ b \in DOMAIN branches /\ branches'[b] = branches[b]
    BY <1>3 DEF ForkEnds, Admitted
  <2>4. \E outcome : Settle(c, outcome) /\ outcome.stage # "working"
    BY <1>3, StagesOfCalls DEF ForkEnds
  <2>5. \A d \in Clients : call'[d].stage = "working" => OfRun(call'[d].branch, world') /\ Restored(call'[d].branch)
    BY <2>2, <2>4, WorkKept
  <2>6. \A b \in DOMAIN branches' :
          OfRun(branches'[b], world) /\ Restored(branches'[b]) /\ branches'[b].epoch = world.epoch
    BY <2>1, <2>3 DEF Epochs
  <2> QED
    BY <2>2, <2>5, <2>6 DEF Epochs
<1>4. ASSUME NEW c \in Clients, Capture(c) PROVE Epochs'
  <2> DEFINE e == [id |-> handles + 1, world |-> world]
  <2>1. checkpoints \in Seq(Checkpoint) /\ e \in Checkpoint /\ e.world = world
    BY DEF Checkpoint, Types, SimTypeOK
  <2>2. checkpoints' = Newest(Append(checkpoints, e)) /\ UNCHANGED <<world, branches>>
    BY <1>4 DEF Capture
  <2> HIDE DEF e
  <2>3. \A k \in 1..Len(Newest(Append(checkpoints, e))) :
             \/ Newest(Append(checkpoints, e))[k] = e
             \/ \E j \in 1..Len(checkpoints) : Newest(Append(checkpoints, e))[k] = checkpoints[j]
    BY <2>1, NewestKeeps
  <2>4. OfRun(e.world, world) /\ e.world.episode # OwnEpisode
    BY <2>1, EpochsOfWork DEF OfRun, Epochs
  <2>5. \A k \in 1..Len(checkpoints') : OfRun(checkpoints'[k].world, world) /\
        checkpoints'[k].world.episode # OwnEpisode
    BY <2>2, <2>3, <2>4 DEF Epochs
  <2>6. \E outcome : Settle(c, outcome) /\ outcome.stage # "working"
    BY <1>4, StagesOfCalls DEF Capture
  <2>7. \A d \in Clients : call'[d].stage = "working" => OfRun(call'[d].branch, world') /\ Restored(call'[d].branch)
    BY <2>2, <2>6, WorkKept
  <2> QED
    BY <2>2, <2>5, <2>7 DEF Epochs
<1>5. ASSUME NEW c \in Clients, Reset(c) PROVE Epochs'
  <2>1. CASE Expected(call[c].request)
    <3>1. world'.epoch = world.epoch + 1 /\ world'.episode = episodes + 1 /\ branches' = NoBranches /\
          UNCHANGED checkpoints
      BY <1>5, <2>1 DEF Reset, ReplaceWorld, NewWorld
    <3>2. world'.episode # OwnEpisode
      BY <3>1 DEF Types, SimTypeOK, OwnEpisode
    <3>3. \E outcome : Settle(c, outcome) /\ outcome.stage # "working"
      BY <1>5, <2>1, StagesOfCalls DEF Reset
    <3> QED
      BY <3>1, <3>2, <3>3, EpochsOfNewer
  <2>2. CASE ~Expected(call[c].request)
    <3>1. UNCHANGED <<world, checkpoints, branches>> /\ Settle(c, Refusal)
      BY <1>5, <2>2 DEF Reset
    <3>2. \A d \in Clients : call'[d].stage = "working" => OfRun(call'[d].branch, world') /\ Restored(call'[d].branch)
      BY <3>1, WorkKept, StagesOfCalls
    <3> QED
      BY <3>1, <3>2 DEF Epochs
  <2> QED
    BY <2>1, <2>2
<1>6. ASSUME NEW c \in Clients, Invalidate(c) PROVE Epochs'
  <2>1. world'.epoch = world.epoch + 1 /\ world'.episode = world.episode /\ branches' = NoBranches /\
        UNCHANGED checkpoints
    BY <1>6 DEF Invalidate, Invalidated
  <2>2. \E outcome : Settle(c, outcome) /\ outcome.stage # "working"
    BY <1>6, StagesOfCalls DEF Invalidate
  <2> QED
    BY <2>1, <2>2, EpochsOfNewer DEF Epochs
<1>7. ASSUME Restart PROVE Epochs'
  <2>1. world'.episode = episodes + 1 /\ checkpoints' = <<>> /\ DOMAIN branches' = {}
    BY <1>7 DEF Restart, Restarted, NewWorld, NoBranches
  <2>2. world'.episode # OwnEpisode
    BY <2>1 DEF Types, SimTypeOK, OwnEpisode
  <2>3. \A d \in Clients : call'[d].stage # "working"
    BY <1>7, StagesOfCalls DEF Restart, Restarted
  <2> QED
    BY <2>1, <2>2, <2>3 DEF Epochs
<1>8. ASSUME UNCHANGED simVars PROVE Epochs'
  BY <1>8 DEF simVars, Epochs
<1> QED
  BY <1>1, <1>2, <1>3, <1>4, <1>5, <1>6, <1>7, <1>8 DEF SimNext, Serve

LEMMA InitEpochs == SimInit => Epochs
BY StagesOfCalls DEF SimInit, Epochs, NewWorld, OwnEpisode, NoBranches

-----------------------------------------------------------------------------
(* Handles.                                                                *)

\* A branch step or result under way works on the branch of its handle, as
\* long as that is registered: no other branch ever gets the handle.
HandleOfWork(c) ==
  Working(c, "step") \/ Working(c, "result") =>
    LET b == call[c].request.branch
    IN  b <= handles /\ (b \in DOMAIN branches => branches[b] = call[c].branch)

Handles == \A c \in Clients : HandleOfWork(c)

\* The handles when no branch is registered and no work on one begins.
LEMMA HandlesKept ==
  ASSUME Types, Handles, NEW c \in Clients, NEW outcome, Settle(c, outcome),
         outcome.stage # "working" \/ outcome.request.op \notin {"step", "result"},
         handles' \in Nat, handles <= handles',
         \A b \in DOMAIN branches' : b \in DOMAIN branches /\ branches'[b] = branches[b]
  PROVE  Handles'
<1> SUFFICES ASSUME NEW d \in Clients PROVE HandleOfWork(d)'
  BY DEF Handles
<1>1. call'[d] = IF d = c THEN outcome ELSE call[d]
  BY DEF Settle, Types, SimTypeOK
<1>2. CASE d = c
  BY <1>1, <1>2 DEF HandleOfWork, Working
<1>3. CASE d # c
  <2> SUFFICES ASSUME Working(d, "step") \/ Working(d, "result")
               PROVE  LET b == call[d].request.branch
                      IN  b <= handles' /\ (b \in DOMAIN branches' => branches'[b] = call[d].branch)
    BY <1>1, <1>3 DEF HandleOfWork, Working
  <2>1. call[d].request.branch \in Nat /\ handles \in Nat
    BY OutcomeTypes, RequestFields DEF Working, Types, SimTypeOK
  <2>2. LET b == call[d].request.branch
        IN  b <= handles /\ (b \in DOMAIN branches => branches[b] = call[d].branch)
    BY DEF Handles, HandleOfWork
  <2> QED
    BY <2>1, <2>2
<1> QED
  BY <1>2, <1>3

LEMMA HandlesStep ==
  ASSUME Types, Handles, [SimNext]_simVars
  PROVE  Handles'
<1>0. handles \in Nat /\ handles + 1 \in Nat /\ handles <= handles + 1 /\ handles <= handles
  BY DEF Types, SimTypeOK
<1>1. ASSUME NEW c \in Clients, Send(c) \/ LoseReply(c) \/ Forget(c) \/ Look(c) \/ Delete(c) \/ BranchEnds(c) \/ EvaluateEnds(c)
                                 \/ Reset(c) \/ Invalidate(c) \/ Capture(c)
      PROVE Handles'
  <2>1. \E outcome : Settle(c, outcome) /\ outcome.stage # "working"
    BY <1>1, StagesOfCalls DEF Send, SendRequest, LoseReply, Forget, Look, Delete, BranchEnds, EvaluateEnds,
       Reset, Invalidate, Capture
  <2>2. handles' \in {handles, handles + 1}
    BY <1>1 DEF Send, LoseReply, Forget, Look, Delete, BranchEnds, EvaluateEnds, Reset, Invalidate, Capture
  <2>3. \A b \in DOMAIN branches' : b \in DOMAIN branches /\ branches'[b] = branches[b]
    BY <1>1 DEF Send, LoseReply, Forget, Look, Delete, BranchEnds, EvaluateEnds, Reset, Invalidate, Capture,
       ReplaceWorld, NoBranches
  <2> QED
    BY <1>0, <2>1, <2>2, <2>3, HandlesKept
<1>2. ASSUME NEW c \in Clients, ForkBegins(c) \/ EvaluateBegins(c) PROVE Handles'
  <2>1. \E outcome : Settle(c, outcome) /\ (outcome.stage # "working" \/ outcome.request.op \notin {"step", "result"})
    BY <1>2, StagesOfCalls DEF ForkBegins, EvaluateBegins, Asked
  <2>2. UNCHANGED <<handles, branches>>
    BY <1>2 DEF ForkBegins, EvaluateBegins
  <2> QED
    BY <1>0, <2>1, <2>2, HandlesKept
<1>3. ASSUME NEW c \in Clients, BranchBegins(c) PROVE Handles'
  <2> DEFINE b == call[c].request.branch
  <2>1. UNCHANGED <<handles, branches>>
    BY <1>3 DEF BranchBegins
  <2>2. CASE Gettable(b)
    <3>1. b \in DOMAIN branches /\ b <= handles
      BY <2>2 DEF Gettable, Types, HandlesAreIssued
    <3>2. Settle(c, Work(call[c].request, branches[b]))
      BY <1>3, <2>2 DEF BranchBegins
    <3>3. \A d \in Clients : call'[d] = IF d = c THEN Work(call[c].request, branches[b]) ELSE call[d]
      BY <3>2 DEF Settle, Types, SimTypeOK
    <3>4. ASSUME NEW d \in Clients PROVE HandleOfWork(d)'
      <4>1. CASE d = c
        BY <2>1, <3>1, <3>3, <4>1, StagesOfCalls DEF HandleOfWork, Working
      <4>2. CASE d # c
        BY <2>1, <3>3, <4>2 DEF Handles, HandleOfWork, Working
      <4> QED
        BY <4>1, <4>2
    <3> QED
      BY <3>4 DEF Handles
  <2>3. CASE ~Gettable(b)
    <3>1. Settle(c, Refusal)
      BY <1>3, <2>3 DEF BranchBegins
    <3> QED
      BY <1>0, <2>1, <3>1, HandlesKept, StagesOfCalls
  <2> QED
    BY <2>2, <2>3
<1>4. ASSUME NEW c \in Clients, ForkEnds(c) PROVE Handles'
  <2>1. CASE Admitted(call[c].branch)
    <3>1. /\ handles' = handles + 1
          /\ \A b \in DOMAIN branches' : b = handles + 1 \/ (b \in DOMAIN branches /\ branches'[b] = branches[b])
      BY <1>4, <2>1 DEF ForkEnds
    <3>2. PICK outcome : Settle(c, outcome) /\ outcome.stage # "working"
      BY <1>4, StagesOfCalls DEF ForkEnds
    <3>3. \A d \in Clients : call'[d] = IF d = c THEN outcome ELSE call[d]
      BY <3>2 DEF Settle, Types, SimTypeOK
    <3>4. ASSUME NEW d \in Clients, call'[d] = call[d], Working(d, "step") \/ Working(d, "result")
          PROVE  LET b == call[d].request.branch
                 IN  b <= handles' /\ (b \in DOMAIN branches' => branches'[b] = call[d].branch)
      <4>1. call[d].request.branch \in Nat
        BY <3>4, OutcomeTypes, RequestFields DEF Working, Types
      <4>2. LET b == call[d].request.branch
            IN  b <= handles /\ (b \in DOMAIN branches => branches[b] = call[d].branch)
        BY <3>4 DEF Handles, HandleOfWork
      <4> QED
        BY <1>0, <3>1, <4>1, <4>2
    <3>5. ASSUME NEW d \in Clients PROVE HandleOfWork(d)'
      <4>1. CASE d = c
        BY <3>2, <3>3, <4>1 DEF HandleOfWork, Working
      <4>2. CASE d # c
        BY <3>3, <3>4, <4>2 DEF HandleOfWork, Working
      <4> QED
        BY <4>1, <4>2
    <3> QED
      BY <3>5 DEF Handles
  <2>2. CASE ~Admitted(call[c].branch)
    <3>1. Settle(c, Refusal) /\ UNCHANGED <<handles, branches>>
      BY <1>4, <2>2 DEF ForkEnds
    <3> QED
      BY <1>0, <3>1, HandlesKept, StagesOfCalls
  <2> QED
    BY <2>1, <2>2
<1>5. ASSUME Restart PROVE Handles'
  <2>1. \A d \in Clients : call'[d].stage # "working"
    BY <1>5, StagesOfCalls DEF Restart, Restarted
  <2> QED
    BY <2>1 DEF Handles, HandleOfWork, Working
<1>6. ASSUME UNCHANGED simVars PROVE Handles'
  BY <1>6 DEF simVars, Handles, HandleOfWork, Working
<1> QED
  BY <1>1, <1>2, <1>3, <1>4, <1>5, <1>6 DEF SimNext, Serve

LEMMA InitHandles == SimInit => Handles
BY StagesOfCalls DEF SimInit, Handles, HandleOfWork, Working

-----------------------------------------------------------------------------
(* What the service promises.                                              *)

Coherent == Types /\ SlotsAreRunning /\ Epochs /\ Handles

LEMMA CoherentAlways == SimSpec => []Coherent
<1>1. SimInit => Coherent
  BY InitTypes, InitSlots, InitEpochs, InitHandles DEF Coherent, Types
<1>2. Coherent /\ [SimNext]_simVars => Coherent'
  <2>1. Types => SimTypeOK
    BY DEF Types
  <2> QED
    BY <2>1, TypesStep, SlotsStep, EpochsStep, HandlesStep DEF Coherent
<1> QED
  BY <1>1, <1>2, PTL DEF SimSpec

\* A checkpoint that still carries the live epoch is of the live world, for any
\* number of resets, invalidations and restarts.
THEOREM EpochsIdentify == SimSpec => []EpochIdentifiesWorld
<1>1. Coherent => EpochIdentifiesWorld
  BY DEF Coherent, Epochs, OfRun, EpochIdentifiesWorld
<1> QED
  BY <1>1, CoherentAlways, PTL

\* Every registered branch belongs to the live scene, however requests
\* interleave.
THEOREM BranchesStayLive == SimSpec => []BranchesOfLiveScene
<1>1. Coherent => BranchesOfLiveScene
  BY DEF Coherent, Epochs, OfRun, BranchesOfLiveScene
<1> QED
  BY <1>1, CoherentAlways, PTL

\* What a request that ends at this step may tell.
Current(about) ==
  /\ about.epoch = world.epoch
  /\ about.origin # NoHandle => about.episode = world.episode /\ about.scene = world.scene

\* An answer is about the branch the request worked on, in the live epoch.
LEMMA CurrentOutcome ==
  ASSUME Coherent, NEW c \in Clients, call[c].stage = "working", call[c].branch.epoch = world.epoch
  PROVE  Current(call[c].branch)
<1>1. OfRun(call[c].branch, world) /\ Restored(call[c].branch)
  BY DEF Coherent, Epochs
<1> QED
  BY <1>1 DEF OfRun, Restored, Current

LEMMA AnswerIsCurrent ==
  ASSUME Coherent, SimNext, NEW c \in Clients, call[c].stage = "working", call'[c].stage = "answered"
  PROVE  Current(call'[c].reply.about)
<1>0. call \in [Clients -> Call]
  BY DEF Coherent, Types, SimTypeOK
<1>1. \A d \in Clients : \A outcome : Settle(d, outcome) => call'[c] = IF c = d THEN outcome ELSE call[c]
  BY <1>0 DEF Settle
<1>2. ASSUME ForkEnds(c) PROVE Current(call'[c].reply.about)
  <2>1. Admitted(call[c].branch)
    BY <1>1, <1>2, StagesOfCalls DEF ForkEnds
  <2>2. call'[c].reply.about = call[c].branch
    BY <1>1, <1>2, <2>1, StagesOfCalls DEF ForkEnds
  <2> QED
    BY <2>1, <2>2, CurrentOutcome DEF Admitted
<1>3. ASSUME EvaluateEnds(c) PROVE Current(call'[c].reply.about)
  <2>1. PICK passed \in BOOLEAN : call'[c] = EvaluateOutcome(call[c].branch, passed)
    BY <1>1, <1>3 DEF EvaluateEnds
  <2>2. call[c].branch.epoch = world.epoch /\ call'[c].reply.about = call[c].branch
    BY <2>1, StagesOfCalls DEF EvaluateOutcome, Refusal, Answer
  <2> QED
    BY <2>2, CurrentOutcome
<1>4. ASSUME BranchEnds(c) PROVE Current(call'[c].reply.about)
  <2> DEFINE r == call[c].request
  <2>1. PICK passed \in BOOLEAN : call'[c] = BranchOutcome(r, call[c].branch, passed)
    BY <1>1, <1>4 DEF BranchEnds
  <2>2. Gettable(r.branch) /\ call'[c].reply.about = call[c].branch
    BY <2>1 DEF BranchOutcome, Refusal, Answer
  <2>3. branches[r.branch] = call[c].branch /\ branches[r.branch].epoch = world.epoch
    BY <1>4, <2>2 DEF Coherent, Handles, HandleOfWork, Gettable, BranchEnds
  <2> QED
    BY <2>2, <2>3, CurrentOutcome
<1>5. ~Restart
  BY StagesOfCalls DEF Restart, Restarted
<1>6. ASSUME NEW d \in Clients, Send(d) \/ Serve(d) \/ LoseReply(d) \/ Forget(d)
      PROVE  ForkEnds(c) \/ EvaluateEnds(c) \/ BranchEnds(c)
  <2>1. d = c
    <3>1. \E outcome : Settle(d, outcome)
      BY <1>6 DEF Send, SendRequest, LoseReply, Forget, Serve, Look, Reset, Invalidate, Capture, Delete, ForkBegins,
         ForkEnds, EvaluateBegins, EvaluateEnds, BranchBegins, BranchEnds
    <3> QED
      BY <1>1, <3>1
  <2> QED
    BY <1>6, <2>1 DEF Send, SendRequest, Free, LoseReply, Forget, Serve, Look, Reset, Invalidate, Capture, Delete,
       ForkBegins, EvaluateBegins, BranchBegins, Asked
<1> QED
  BY <1>2, <1>3, <1>4, <1>5, <1>6 DEF SimNext

\* A reset or an invalidation during a fork, an evaluation or a branch step is
\* never overlooked, for any number of clients.
THEOREM AnswersStayCurrent == SimSpec => AnswersAreCurrent
<1>1. Coherent /\ [SimNext]_simVars =>
        [\A c \in Clients :
           call[c].stage = "working" /\ call'[c].stage = "answered" =>
             LET about == call'[c].reply.about
             IN  /\ about.epoch = world.epoch
                 /\ about.origin # NoHandle => about.episode = world.episode /\ about.scene = world.scene]_simVars
  BY AnswerIsCurrent DEF Current
<1> QED
  BY <1>1, CoherentAlways, PTL DEF SimSpec, AnswersAreCurrent

-----------------------------------------------------------------------------
(* The workbench: types and control.                                       *)

\* What a captured failure, a measured result, a repaired artifact and the locals
\* of a handler are.
Ctx == [scene : Scenes, checkpoint : Nat, epoch : Nat, episode : Nat]
Result == [about : Branch, source : Sources \cup {None}, passed : BOOLEAN]
Artifact ==
  [status : {"generating", "testing", "passed", "failed", "error"}, context : Ctx,
   source : Sources \cup {None}, evaluation : Result \cup {None}]
Kinds == {"none", "search", "repair", "replay", "heldout", "add", "remove", "calibrate"}
MeasureStages == {"forking", "stepping", "resulting", "deleting", "measured"}
Stages ==
  {"idle", "original", "resetting", "rereading", "capturing", "evaluating", "recording", "origin", "thinking", "live",
   "saving", "template", "rechecking", "sampling", "final", "responding", "editing", "applying"} \cup MeasureStages
Locals ==
  [at : Stages, kind : Kinds, scene : Scenes, start : Scenes, context : Ctx \cup {None},
   count : Nat, passed : BOOLEAN, artifact : Nat, tests : Nat, submit : BOOLEAN,
   branch : Nat, steps : Nat, result : Result \cup {None}, measured : SUBSET Result,
   obstacle : Obstacles \cup {None}, epoch : Nat, episode : Nat]

\* The state of the gateway shared by its handlers.
SharedTypes ==
  /\ failure \in Ctx \cup {None}
  /\ calibration \in Floors \cup {None}
  /\ job \in Handlers \cup {None}
  /\ aborted \in BOOLEAN
  /\ artifacts \in Seq(Artifact)

\* Which steps each kind of handler goes through.
StageOK(l) ==
  \/ l.kind = "none" /\ l.at = "idle"
  \/ l.kind = "search" /\ l.at \in {"original", "resetting", "rereading", "capturing"}
  \/ l.kind = "search" /\ l.at \in {"evaluating", "recording"} /\ l.context \in Ctx
  \/ l.kind \in {"repair", "replay"} /\ l.at = "origin"
  \/ l.kind = "repair" /\ l.at \in {"thinking", "live", "saving"} \cup MeasureStages /\ l.context \in Ctx
  \/ l.kind = "replay" /\ l.at \in MeasureStages /\ l.context \in Ctx
  \/ l.kind = "heldout" /\ l.at \in {"origin", "template", "rechecking", "sampling", "final",
     "responding"} \cup MeasureStages
  \/ l.kind \in {"add", "remove"} /\ l.at \in {"editing", "applying"} /\ l.obstacle \in Obstacles
  \/ l.kind = "calibrate" /\ l.at = "applying"

\* The steps that await no request, and what the others asked for.
QuietStages == {"idle", "recording", "thinking", "measured", "saving", "responding"}

\* What the steps that await a request await.
RequestOK(l, r) ==
  /\ l.at \in {"original", "rereading", "template", "sampling", "editing"} => r.op = "scene"
  /\ l.at \in {"origin", "live", "rechecking", "final"} => r.op = "state"
  /\ l.at \in {"resetting", "applying"} => r.op = "reset"
  /\ l.at = "capturing" => r.op = "checkpoint"
  /\ l.at = "evaluating" => r.op = "evaluate"
  /\ l.at = "forking" => r.op = "fork"
  /\ l.at = "stepping" => r.op = "step" /\ r.branch = l.branch
  /\ l.at = "resulting" => r.op = "result" /\ r.branch = l.branch
  /\ l.at = "deleting" => r.op = "delete" /\ r.branch = l.branch

\* A handler with these locals holds the exclusive job.
InJob(l) ==
  \/ l.kind = "search"
  \/ l.kind \in {"repair", "replay"} /\ l.at # "origin"
  \/ l.kind = "heldout" /\ l.at \notin {"origin", "responding"}

\* A handler with these locals works on an artifact.
HasArtifact(l) == (l.kind = "repair" /\ l.at # "origin") \/ l.kind \in {"replay", "heldout"}

\* Call x still awaits its answer.
Pending(x) == x.stage \in {"asked", "working"}

\* Handler h, with the locals l and the call x, is where its kind may be.
ControlOK(h, l, x, n, j) ==
  /\ StageOK(l)
  /\ InJob(l) => j = h
  /\ l.at \in QuietStages => x = Idle
  /\ Pending(x) => RequestOK(l, x.request)
  /\ HasArtifact(l) => l.artifact \in 1..n

Control == \A h \in Handlers : ControlOK(h, handler[h], call[h], Len(artifacts), job)

\* The first part of the invariant: types and control, with what the service
\* promises.
Base == Coherent /\ SharedTypes /\ handler \in [Handlers -> Locals] /\ Control

-----------------------------------------------------------------------------
(* Steps of the gateway.                                                   *)

\* Handler h goes on with the locals l and the call x.
Moves(h, l, x) ==
  /\ handler' = [handler EXCEPT ![h] = l] /\ call' = [call EXCEPT ![h] = x]
  /\ Free(h) /\ UNCHANGED serverVars

\* What happens to the job when handler h moves.
JobMoves(h) ==
  \/ job' = job
  \/ job = None /\ job' = h
  \/ InJob(handler[h]) /\ job' = None

\* Handler h moves to locals it may have, asking something of the service or
\* nothing.
GoodMove(h) ==
  \E l \in Locals, x \in Call :
    /\ Moves(h, l, x)
    /\ x = Idle \/ \E r \in Request : x = Ask(r)
    /\ ControlOK(h, l, x, Len(artifacts'), job')

\* The ways in which a handler goes on are good moves.
LEMMA AwaitMoves ==
  ASSUME NEW h \in Handlers, NEW l \in Locals, NEW r \in Request, Await(h, l, r),
         StageOK(l), InJob(l) => job' = h, RequestOK(l, r), l.at \notin QuietStages,
         HasArtifact(l) => l.artifact \in 1..Len(artifacts')
  PROVE  GoodMove(h)
<1>1. Ask(r) \in Call /\ Ask(r).stage = "asked" /\ Ask(r).request = r
  BY CallsOfTypes DEF Ask
<1>2. Moves(h, l, Ask(r))
  BY DEF Await, Moves, SendRequest, Settle, serverVars
<1>3. ControlOK(h, l, Ask(r), Len(artifacts'), job')
  BY <1>1 DEF ControlOK
<1> QED
  BY <1>1, <1>2, <1>3 DEF GoodMove

LEMMA ContinueMoves ==
  ASSUME NEW h \in Handlers, NEW l \in Locals, Continue(h, l),
         StageOK(l), InJob(l) => job' = h,
         HasArtifact(l) => l.artifact \in 1..Len(artifacts')
  PROVE  GoodMove(h)
<1>1. Idle \in Call /\ ~Pending(Idle)
  BY CallsOfTypes DEF Idle, Pending
<1>2. Moves(h, l, Idle)
  BY DEF Continue, Moves, Settle, serverVars
<1>3. ControlOK(h, l, Idle, Len(artifacts'), job')
  BY <1>1 DEF ControlOK
<1> QED
  BY <1>1, <1>2, <1>3 DEF GoodMove

LEMMA QuietIsLocals == Quiet \in Locals /\ StageOK(Quiet) /\ ~InJob(Quiet) /\ ~HasArtifact(Quiet)
<1>1. Quiet \in Locals
  BY SimAssumption DEF Quiet, Locals, Stages, Kinds, NoHandle
<1> QED
  BY <1>1 DEF Quiet, StageOK, InJob, HasArtifact

LEMMA EndMoves ==
  ASSUME NEW h \in Handlers, End(h)
  PROVE  GoodMove(h)
BY QuietIsLocals, ContinueMoves DEF End

\* A good move keeps every handler where it may be.
LEMMA GoodMoveKeepsControl ==
  ASSUME Base, NEW h \in Handlers, GoodMove(h), JobMoves(h), Len(artifacts) <= Len(artifacts'),
         Len(artifacts') \in Nat
  PROVE  handler' \in [Handlers -> Locals] /\ Control'
<1>1. PICK l \in Locals, x \in Call :
        /\ Moves(h, l, x)
        /\ ControlOK(h, l, x, Len(artifacts'), job')
  BY DEF GoodMove
<1>2. h \in Clients /\ Handlers \subseteq Clients /\ call \in [Clients -> Call] /\ handler \in [Handlers -> Locals]
  BY GatewayAssumption DEF Base, Coherent, Types, SimTypeOK
<1>3. handler' \in [Handlers -> Locals] /\ handler'[h] = l /\ call'[h] = x
  BY <1>1, <1>2 DEF Moves
<1>4. ASSUME NEW d \in Handlers PROVE ControlOK(d, handler'[d], call'[d], Len(artifacts'), job')
  <2>1. CASE d = h
    BY <1>1, <1>3, <2>1
  <2>2. CASE d # h
    <3>1. handler'[d] = handler[d] /\ call'[d] = call[d]
      BY <1>1, <1>2, <2>2 DEF Moves
    <3>2. ControlOK(d, handler[d], call[d], Len(artifacts), job) /\ ControlOK(h, handler[h], call[h],
          Len(artifacts), job)
      BY DEF Base, Control
    <3>3. InJob(handler[d]) => job' = d
      BY <2>2, <3>2, GatewayAssumption DEF ControlOK, JobMoves
    <3>4. Len(artifacts) \in Nat
      BY DEF Base, SharedTypes
    <3>5. HasArtifact(handler[d]) => handler[d].artifact \in 1..Len(artifacts')
      BY <3>2, <3>4 DEF ControlOK
    <3> QED
      BY <3>1, <3>2, <3>3, <3>5 DEF ControlOK
  <2> QED
    BY <2>1, <2>2
<1> QED
  BY <1>3, <1>4 DEF Control

\* The requests and answers are of their types.
LEMMA RequestsOfTypes ==
  /\ \A what \in {"state", "scene", "pause", "invalidate", "checkpoint"} :
       LookAt(what) \in Request /\ LookAt(what).op = what
  /\ \A scene \in Scenes, epoch \in Nat, episode \in Nat :
       ResetTo(scene, epoch, episode) \in Request /\ ResetTo(scene, epoch, episode).op = "reset"
  /\ \A op \in {"fork", "evaluate"}, checkpoint \in Nat :
       FromCheckpoint(op, checkpoint) \in Request /\ FromCheckpoint(op, checkpoint).op = op
  /\ \A scene \in Scenes : FromScene(scene) \in Request /\ FromScene(scene).op = "fork"
  /\ \A op \in {"step", "result", "delete"}, branch \in Nat :
       OnBranch(op, branch) \in Request /\ OnBranch(op, branch).op = op /\ OnBranch(op, branch).branch = branch
<1>1. \A what \in {"state", "scene", "pause", "invalidate", "checkpoint"} :
       LookAt(what) \in Request /\ LookAt(what).op = what
  BY DEF Request, LookAt
<1>2. \A scene \in Scenes, epoch \in Nat, episode \in Nat :
       ResetTo(scene, epoch, episode) \in Request /\ ResetTo(scene, epoch, episode).op = "reset"
  BY DEF Request, ResetTo
<1>3. \A op \in {"fork", "evaluate"}, checkpoint \in Nat :
       FromCheckpoint(op, checkpoint) \in Request /\ FromCheckpoint(op, checkpoint).op = op
  BY DEF Request, FromCheckpoint
<1>4. \A scene \in Scenes : FromScene(scene) \in Request /\ FromScene(scene).op = "fork"
  BY DEF Request, FromScene, NoHandle
<1>5. \A op \in {"step", "result", "delete"}, branch \in Nat :
       OnBranch(op, branch) \in Request /\ OnBranch(op, branch).op = op /\ OnBranch(op, branch).branch = branch
  BY DEF Request, OnBranch
<1> QED
  BY <1>1, <1>2, <1>3, <1>4, <1>5

LEMMA AnswersOfTypes ==
  ASSUME NEW x \in Call, x.stage = "answered"
  PROVE  /\ x.reply.about \in Branch /\ x.reply.handle \in Nat /\ x.reply.passed \in BOOLEAN
         /\ x.reply.about.epoch \in Nat /\ x.reply.about.episode \in Nat /\ x.reply.about.scene \in Scenes
<1>1. x \in [stage : {"answered"}, reply : Reply]
  BY DEF Call, Idle, Refusal
<1> QED
  BY <1>1 DEF Reply, Branch

\* What the invariant says of one handler.
LEMMA HandlerFacts ==
  ASSUME Base, NEW h \in Handlers
  PROVE  /\ handler[h] \in Locals /\ call[h] \in Call
         /\ ControlOK(h, handler[h], call[h], Len(artifacts), job)
         /\ world.epoch \in Nat /\ world.episode \in Nat
         /\ artifacts \in Seq(Artifact) /\ Len(artifacts) \in Nat
<1>1. h \in Clients /\ call \in [Clients -> Call] /\ world \in World
  BY GatewayAssumption DEF Base, Coherent, Types, SimTypeOK
<1> QED
  BY <1>1 DEF Base, Control, SharedTypes, World

\* What every step of handler h does.
Good(h) ==
  /\ SharedTypes' /\ GoodMove(h) /\ JobMoves(h)
  /\ Len(artifacts) <= Len(artifacts') /\ Len(artifacts') \in Nat

\* A step that leaves the shared state of the gateway alone.
LEMMA GoodRest ==
  ASSUME Base, NEW h \in Handlers, GoodMove(h), UNCHANGED gatewayRest
  PROVE  Good(h)
<1>1. SharedTypes /\ Len(artifacts) \in Nat
  BY DEF Base, SharedTypes
<1> QED
  BY <1>1 DEF Good, SharedTypes, JobMoves, gatewayRest

\* A step that takes, keeps or releases the job, or drops the failure.
LEMMA GoodJob ==
  ASSUME Base, NEW h \in Handlers, GoodMove(h), JobMoves(h), UNCHANGED <<calibration, artifacts>>,
         failure' \in {failure, None, handler[h].context}, aborted' \in {aborted, TRUE, FALSE}
  PROVE  Good(h)
<1>1. SharedTypes /\ Len(artifacts) \in Nat /\ Len(artifacts) <= Len(artifacts)
  BY DEF Base, SharedTypes
<1>2. handler[h].context \in Ctx \cup {None}
  BY DEF Base, Locals
<1>3. job' \in Handlers \cup {None}
  BY <1>1 DEF SharedTypes, JobMoves
<1>4. failure' \in Ctx \cup {None} /\ aborted' \in BOOLEAN
  BY <1>1, <1>2 DEF SharedTypes
<1> QED
  BY <1>1, <1>3, <1>4 DEF Good, SharedTypes

\* The scenes that handlers make of others are scenes.
LEMMA SceneParts ==
  /\ \A floor \in Floors : Bare(floor) \in Scenes
  /\ \A s \in Scenes, seed \in Seeds : [s EXCEPT !.seed = seed] \in Scenes
  /\ \A s \in Scenes : s.floor \in Floors /\ s.seed \in Seeds
  /\ \A l \in Locals, s \in Scenes : l.obstacle \in Obstacles => Edit(l, s) \in Scenes
<1> USE GatewayAssumption DEF GatewayScenes
<1>1. \A floor \in Floors : Bare(floor) \in Scenes
  BY DEF Bare
<1>2. \A s \in Scenes, seed \in Seeds : [s EXCEPT !.seed = seed] \in Scenes
  OBVIOUS
<1>3. \A s \in Scenes : s.floor \in Floors /\ s.seed \in Seeds
  OBVIOUS
<1>4. ASSUME NEW l \in Locals, NEW s \in Scenes, l.obstacle \in Obstacles PROVE Edit(l, s) \in Scenes
  <2>1. s.props \in SUBSET Obstacles /\ s \in [floor : Floors, props : SUBSET Obstacles, seed : Seeds]
    OBVIOUS
  <2>2. s.props \cup {l.obstacle} \in SUBSET Obstacles /\ s.props \ {l.obstacle} \in SUBSET Obstacles
    BY <1>4, <2>1
  <2> QED
    BY <2>1, <2>2 DEF Edit
<1> QED
  BY <1>1, <1>2, <1>3, <1>4

-----------------------------------------------------------------------------
(* Requests of browsers.                                                   *)

\* The steps of a request of the browser are good.
LEMMA BrowserGood ==
  ASSUME Base, NEW h \in Handlers, StartRequest(h)
  PROVE  Good(h)
<1> USE HandlerFacts
<1>1. ASSUME StartSearch(h) PROVE Good(h)
  <2> DEFINE l == [Quiet EXCEPT !.kind = "search", !.at = "original"]
  <2>1. l \in Locals
    BY QuietIsLocals DEF Locals, Stages, Kinds
  <2>2. l.kind = "search" /\ l.at = "original"
    BY DEF Quiet
  <2>3. Await(h, l, LookAt("scene")) /\ job = None /\ job' = h /\ aborted' = FALSE /\ failure' = None
        /\ UNCHANGED <<calibration, artifacts>>
    BY <1>1 DEF StartSearch, Acquire, searchKeeps
  <2> HIDE DEF l
  <2>4. GoodMove(h)
    BY <2>1, <2>2, <2>3, AwaitMoves, RequestsOfTypes DEF StageOK, RequestOK, HasArtifact, QuietStages
  <2> QED
    BY <2>3, <2>4, GoodJob DEF JobMoves
<1>2. ASSUME StartRepair(h) PROVE Good(h)
  <2> DEFINE l == [Quiet EXCEPT !.kind = "repair", !.at = "origin"]
  <2>1. l \in Locals
    BY QuietIsLocals DEF Locals, Stages, Kinds
  <2>2. l.kind = "repair" /\ l.at = "origin"
    BY DEF Quiet
  <2>3. Await(h, l, LookAt("state")) /\ UNCHANGED gatewayRest
    BY <1>2 DEF StartRepair
  <2> HIDE DEF l
  <2>4. GoodMove(h)
    BY <2>1, <2>2, <2>3, AwaitMoves, RequestsOfTypes DEF StageOK, RequestOK, InJob, HasArtifact, QuietStages
  <2> QED
    BY <2>3, <2>4, GoodRest
<1>3. ASSUME NEW kind \in {"replay", "heldout"}, Select(h, kind) PROVE Good(h)
  <2>1. PICK a \in 1..Len(artifacts) :
          Await(h, [Quiet EXCEPT !.kind = kind, !.at = "origin", !.artifact = a], LookAt("state"))
    BY <1>3 DEF Select
  <2> DEFINE l == [Quiet EXCEPT !.kind = kind, !.at = "origin", !.artifact = a]
  <2>2. l \in Locals
    <3>1. a \in Nat /\ kind \in Kinds
      BY <1>3, <2>1 DEF Kinds
    <3>2. "origin" \in Stages
      BY DEF Stages
    <3> QED
      BY <3>1, <3>2, QuietIsLocals DEF Locals
  <2>3. l.kind = kind /\ l.at = "origin" /\ l.artifact = a
    BY DEF Quiet
  <2>4. UNCHANGED gatewayRest
    BY <1>3 DEF Select
  <2>5. Await(h, l, LookAt("state"))
    BY <2>1
  <2> HIDE DEF l
  <2>6. l.artifact \in 1..Len(artifacts')
    BY <2>3, <2>4 DEF gatewayRest
  <2>7. GoodMove(h)
    BY <2>2, <2>3, <2>5, <2>6, AwaitMoves, RequestsOfTypes DEF StageOK, RequestOK, InJob, HasArtifact, QuietStages
  <2> QED
    BY <2>4, <2>7, GoodRest
<1>4. ASSUME NEW kind \in {"add", "remove"}, NEW o \in Obstacles, StartEdit(h, kind, o) PROVE Good(h)
  <2> DEFINE l == [Quiet EXCEPT !.kind = kind, !.at = "editing", !.obstacle = o, !.epoch = world.epoch,
             !.episode = world.episode]
  <2>1. l \in Locals
    BY QuietIsLocals DEF Locals, Stages, Kinds
  <2>2. l.kind = kind /\ l.at = "editing" /\ l.obstacle = o
    BY DEF Quiet
  <2>3. Await(h, l, LookAt("scene")) /\ UNCHANGED gatewayRest
    BY <1>4 DEF StartEdit
  <2> HIDE DEF l
  <2>4. GoodMove(h)
    BY <2>1, <2>2, <2>3, AwaitMoves, RequestsOfTypes DEF StageOK, RequestOK, InJob, HasArtifact, QuietStages
  <2> QED
    BY <2>3, <2>4, GoodRest
<1>5. ASSUME NEW f \in Floors, StartCalibrate(h, f) PROVE Good(h)
  <2> DEFINE l == [Quiet EXCEPT !.kind = "calibrate", !.at = "applying", !.scene = Bare(f)]
  <2>1. l \in Locals
    BY QuietIsLocals, SceneParts DEF Locals, Stages, Kinds
  <2>2. l.kind = "calibrate" /\ l.at = "applying"
    BY DEF Quiet
  <2>3. Await(h, l, ResetTo(Bare(f), Anything, Anything)) /\ aborted' = (job # None) /\ failure' = None
        /\ UNCHANGED <<job, calibration, artifacts>>
    BY <1>5 DEF StartCalibrate, DropEvidence, Abort
  <2> HIDE DEF l
  <2>4. GoodMove(h)
    <3>1. ResetTo(Bare(f), Anything, Anything) \in Request /\ ResetTo(Bare(f), Anything, Anything).op = "reset"
      <4>1. Bare(f) \in Scenes /\ Anything \in Nat
        BY SceneParts DEF Anything
      <4> QED
        BY <4>1, RequestsOfTypes
    <3> QED
      BY <2>1, <2>2, <2>3, <3>1, AwaitMoves DEF StageOK, RequestOK, InJob, HasArtifact, QuietStages
  <2> QED
    BY <2>3, <2>4, GoodJob DEF JobMoves
<1> QED
  BY <1>1, <1>2, <1>3, <1>4, <1>5 DEF StartRequest

-----------------------------------------------------------------------------
(* Steps of a search.                                                      *)

\* The end of a job.
LEMMA EndJobGood ==
  ASSUME Base, NEW h \in Handlers, InJob(handler[h]), EndJob(h), UNCHANGED <<calibration, artifacts>>,
         failure' \in {failure, None, handler[h].context}
  PROVE  Good(h)
<1>1. GoodMove(h) /\ job' = None /\ aborted' = FALSE
  BY EndMoves DEF EndJob, Release
<1> QED
  BY <1>1, GoodJob DEF JobMoves

\* The next trial of a search, or its end.
LEMMA NextTrialGood ==
  ASSUME Base, NEW h \in Handlers, handler[h].kind = "search", NEW l \in Locals, l.kind = "search", NextTrial(h, l),
         UNCHANGED <<calibration, artifacts>>, failure' \in {failure, None, handler[h].context}
  PROVE  Good(h)
<1>1. CASE aborted
  BY <1>1, EndJobGood DEF NextTrial, InJob
<1>2. CASE ~aborted
  <2>1. UNCHANGED <<job, aborted>>
    BY <1>2 DEF NextTrial
  <2>2. PICK s \in TrialScenes(l.scene, l.count) :
          Await(h, [l EXCEPT !.at = "resetting"], ResetTo(s, Anything, Anything))
    BY <1>2 DEF NextTrial
  <2>3. s \in Scenes /\ Anything \in Nat
    BY <2>2 DEF TrialScenes, Locals, Anything
  <2> DEFINE m == [l EXCEPT !.at = "resetting"]
  <2>4. m \in Locals
    BY DEF Locals, Stages
  <2>5. m.kind = "search" /\ m.at = "resetting"
    OBVIOUS
  <2>6. ResetTo(s, Anything, Anything) \in Request /\ ResetTo(s, Anything, Anything).op = "reset"
    BY <2>3, RequestsOfTypes
  <2>7. Await(h, m, ResetTo(s, Anything, Anything)) /\ job' = h
    BY <2>1, <2>2, HandlerFacts DEF ControlOK, InJob
  <2> HIDE DEF m
  <2>8. GoodMove(h)
    BY <2>4, <2>5, <2>6, <2>7, AwaitMoves DEF StageOK, RequestOK, HasArtifact, QuietStages
  <2> QED
    BY <2>1, <2>8, GoodJob DEF JobMoves
<1> QED
  BY <1>1, <1>2

\* Every step of a search is good, and every step of an edit.
LEMMA SearchGood ==
  ASSUME Base, NEW h \in Handlers,
         SearchOriginal(h) \/ SearchReset(h) \/ SearchReread(h) \/ SearchCaptured(h)
           \/ SearchEvaluated(h) \/ SearchRecorded(h) \/ SearchThrows(h)
  PROVE  Good(h)
<1>0. /\ handler[h] \in Locals /\ call[h] \in Call /\ handler[h].kind = "search" /\ job = h
      /\ UNCHANGED <<calibration, artifacts>>
  BY HandlerFacts DEF SearchOriginal, SearchReset, SearchReread, SearchCaptured, SearchEvaluated,
     SearchRecorded, SearchThrows,
     At, ControlOK, InJob, searchKeeps
<1>1. Answered(h) => /\ Told(h).scene \in Scenes /\ Told(h).epoch \in Nat /\ Told(h).episode \in Nat
                     /\ call[h].reply.handle \in Nat /\ call[h].reply.passed \in BOOLEAN
  BY <1>0, AnswersOfTypes DEF Answered, Told
<1>2. ASSUME SearchOriginal(h) PROVE Good(h)
  <2> DEFINE l == [handler[h] EXCEPT !.scene = Told(h).scene, !.count = 1]
  <2>1. l \in Locals /\ l.kind = "search"
    BY <1>0, <1>1, <1>2 DEF SearchOriginal, Locals
  <2>2. NextTrial(h, l) /\ failure' = failure
    BY <1>2 DEF SearchOriginal
  <2> QED
    BY <1>0, <2>1, <2>2, NextTrialGood
<1>3. ASSUME SearchReset(h) PROVE Good(h)
  <2> DEFINE l == [handler[h] EXCEPT !.at = "rereading"]
  <2>1. l \in Locals /\ l.kind = "search" /\ l.at = "rereading"
    BY <1>0 DEF Locals, Stages
  <2>2. Await(h, l, LookAt("scene")) /\ UNCHANGED gatewayRest
    BY <1>0, <1>3 DEF SearchReset, gatewayRest
  <2> HIDE DEF l
  <2>3. GoodMove(h)
    BY <1>0, <2>1, <2>2, AwaitMoves, RequestsOfTypes DEF StageOK, RequestOK, HasArtifact, QuietStages, gatewayRest
  <2> QED
    BY <2>2, <2>3, GoodRest
<1>4. ASSUME SearchReread(h) PROVE Good(h)
  <2> DEFINE l == [handler[h] EXCEPT !.at = "capturing", !.start = Told(h).scene]
  <2>1. l \in Locals /\ l.kind = "search" /\ l.at = "capturing"
    BY <1>0, <1>1, <1>4 DEF SearchReread, Locals, Stages
  <2>2. Await(h, l, LookAt("checkpoint")) /\ UNCHANGED gatewayRest
    BY <1>0, <1>4 DEF SearchReread, gatewayRest
  <2> HIDE DEF l
  <2>3. GoodMove(h)
    BY <1>0, <2>1, <2>2, AwaitMoves, RequestsOfTypes DEF StageOK, RequestOK, HasArtifact, QuietStages, gatewayRest
  <2> QED
    BY <2>2, <2>3, GoodRest
<1>5. ASSUME SearchCaptured(h) PROVE Good(h)
  <2> DEFINE captured == [scene |-> handler[h].start, checkpoint |-> call[h].reply.handle,
                          epoch |-> Told(h).epoch, episode |-> Told(h).episode]
             l == [handler[h] EXCEPT !.at = "evaluating", !.context = captured]
  <2>1. captured \in Ctx /\ captured.checkpoint \in Nat
    BY <1>0, <1>1, <1>5 DEF SearchCaptured, Locals, Ctx
  <2>2. Await(h, l, FromCheckpoint("evaluate", captured.checkpoint)) /\ UNCHANGED gatewayRest
    BY <1>0, <1>5 DEF SearchCaptured, gatewayRest
  <2> HIDE DEF captured
  <2>3. l \in Locals /\ l.kind = "search" /\ l.at = "evaluating" /\ l.context \in Ctx
    BY <1>0, <2>1 DEF Locals, Stages
  <2> HIDE DEF l
  <2>4. GoodMove(h)
    BY <1>0, <2>1, <2>2, <2>3, AwaitMoves, RequestsOfTypes DEF StageOK, RequestOK, HasArtifact, QuietStages,
       gatewayRest
  <2> QED
    BY <2>2, <2>4, GoodRest
<1>6. ASSUME SearchEvaluated(h) PROVE Good(h)
  <2> DEFINE l == [handler[h] EXCEPT !.at = "recording", !.passed = call[h].reply.passed]
  <2>0. handler[h].context \in Ctx
    BY <1>6, HandlerFacts DEF SearchEvaluated, At, ControlOK, StageOK, MeasureStages
  <2>1. l \in Locals /\ l.kind = "search" /\ l.at = "recording" /\ l.context \in Ctx
    BY <1>0, <1>1, <1>6, <2>0 DEF SearchEvaluated, Locals, Stages
  <2>2. Continue(h, l) /\ UNCHANGED gatewayRest
    BY <1>0, <1>6 DEF SearchEvaluated, gatewayRest
  <2> HIDE DEF l
  <2>3. GoodMove(h)
    BY <1>0, <2>1, <2>2, ContinueMoves DEF StageOK, HasArtifact, gatewayRest
  <2> QED
    BY <2>2, <2>3, GoodRest
<1>7. ASSUME SearchRecorded(h) PROVE Good(h)
  <2>1. CASE EndJob(h) /\ failure' \in {failure, handler[h].context}
    BY <1>0, <2>1, EndJobGood DEF InJob
  <2>2. CASE NextTrial(h, [handler[h] EXCEPT !.count = @ + 1]) /\ UNCHANGED failure
    <3>1. [handler[h] EXCEPT !.count = @ + 1] \in Locals /\ [handler[h] EXCEPT !.count = @ + 1].kind = "search"
      BY <1>0 DEF Locals
    <3> QED
      BY <1>0, <2>2, <3>1, NextTrialGood
  <2> QED
    BY <1>7, <2>1, <2>2 DEF SearchRecorded, Conclude
<1>8. ASSUME SearchThrows(h) PROVE Good(h)
  BY <1>0, <1>8, EndJobGood DEF SearchThrows, InJob
<1> QED
  BY <1>2, <1>3, <1>4, <1>5, <1>6, <1>7, <1>8

-----------------------------------------------------------------------------
(* Edits.                                                                  *)

LEMMA EditGood ==
  ASSUME Base, NEW h \in Handlers, EditStep(h) \/ ConfirmEdit(h)
  PROVE  Good(h)
<1>0. /\ handler[h] \in Locals /\ call[h] \in Call /\ StageOK(handler[h]) /\ ~InJob(Quiet)
  BY HandlerFacts, QuietIsLocals DEF ControlOK
<1>1. ASSUME ApplyEdit(h) PROVE Good(h)
  <2> DEFINE l == [handler[h] EXCEPT !.at = "applying"]
             r == ResetTo(Edit(handler[h], Told(h).scene), handler[h].epoch, handler[h].episode)
  <2>1. handler[h].at = "editing" /\ Answered(h) /\ Await(h, l, r) /\ UNCHANGED gatewayRest
    BY <1>1 DEF ApplyEdit
  <2>2. handler[h].kind \in {"add", "remove"} /\ handler[h].obstacle \in Obstacles
    BY <1>0, <2>1 DEF StageOK, MeasureStages
  <2>3. Edit(handler[h], Told(h).scene) \in Scenes /\ handler[h].epoch \in Nat /\ handler[h].episode \in Nat
    BY <1>0, <2>1, <2>2, AnswersOfTypes, SceneParts DEF Answered, Told, Locals
  <2>4. r \in Request /\ r.op = "reset"
    BY <2>3, RequestsOfTypes
  <2>5. l \in Locals /\ l.kind = handler[h].kind /\ l.at = "applying" /\ l.obstacle = handler[h].obstacle
    BY <1>0 DEF Locals, Stages
  <2> HIDE DEF l, r
  <2>6. GoodMove(h)
    BY <2>1, <2>2, <2>4, <2>5, AwaitMoves DEF StageOK, RequestOK, HasArtifact, InJob, QuietStages
  <2> QED
    BY <2>1, <2>6, GoodRest
<1>2. ASSUME RefuseEdit(h) PROVE Good(h)
  BY <1>2, EndMoves, GoodRest DEF RefuseEdit
<1>3. ASSUME ConfirmCalibration(h) PROVE Good(h)
  <2>1. handler[h].scene.floor \in Floors /\ calibration' = handler[h].scene.floor /\ UNCHANGED <<failure,
        job, aborted, artifacts>>
    BY <1>0, <1>3, SceneParts DEF ConfirmCalibration, Locals
  <2>2. GoodMove(h)
    BY <1>3, EndMoves DEF ConfirmCalibration
  <2>3. SharedTypes /\ Len(artifacts) \in Nat /\ Len(artifacts) <= Len(artifacts)
    BY DEF Base, SharedTypes
  <2> QED
    BY <2>1, <2>2, <2>3 DEF Good, SharedTypes, JobMoves
<1>4. ASSUME ConfirmEdit(h) PROVE Good(h)
  <2>1. GoodMove(h) /\ UNCHANGED <<job, calibration, artifacts>> /\ failure' = None /\ aborted' \in {TRUE, FALSE}
    BY <1>4, EndMoves DEF ConfirmEdit, DropEvidence, Abort
  <2> QED
    BY <2>1, GoodJob DEF JobMoves
<1> QED
  BY <1>1, <1>2, <1>3, <1>4 DEF EditStep

-----------------------------------------------------------------------------
(* Measurements.                                                           *)

\* The handlers that measure a source on branches.
Measurers == {"repair", "replay", "heldout"}

\* The parts of evaluateSource are good moves.
LEMMA CleanUpMoves ==
  ASSUME NEW h \in Handlers, NEW l \in Locals, l.kind \in Measurers, l.kind # "heldout" => l.context \in Ctx,
         job' = h, l.artifact \in 1..Len(artifacts'), CleanUp(h, l)
  PROVE  GoodMove(h)
<1>1. CASE Continue(h, [l EXCEPT !.at = "measured"])
  <2> DEFINE m == [l EXCEPT !.at = "measured"]
  <2>1. m \in Locals /\ m.kind = l.kind /\ m.at = "measured" /\ m.artifact = l.artifact /\ m.context = l.context
    BY DEF Locals, Stages, MeasureStages
  <2>2. Continue(h, m)
    BY <1>1
  <2> HIDE DEF m
  <2> QED
    BY <2>1, <2>2, ContinueMoves DEF StageOK, MeasureStages, Measurers
<1>2. CASE Await(h, [l EXCEPT !.at = "deleting"], OnBranch("delete", l.branch))
  <2> DEFINE m == [l EXCEPT !.at = "deleting"]
  <2>1. m \in Locals /\ m.kind = l.kind /\ m.at = "deleting" /\ m.artifact = l.artifact /\
        m.context = l.context /\ m.branch = l.branch /\ l.branch \in Nat
    BY DEF Locals, Stages, MeasureStages
  <2>2. Await(h, m, OnBranch("delete", l.branch))
    BY <1>2
  <2>3. OnBranch("delete", l.branch) \in Request /\ OnBranch("delete", l.branch).op = "delete"
        /\ OnBranch("delete", l.branch).branch = l.branch
    BY <2>1, RequestsOfTypes
  <2> HIDE DEF m
  <2> QED
    BY <2>1, <2>2, <2>3, AwaitMoves DEF StageOK, RequestOK, MeasureStages, Measurers, QuietStages
<1> QED
  BY <1>1, <1>2 DEF CleanUp

LEMMA MeasureMoves ==
  ASSUME NEW h \in Handlers, NEW l \in Locals, l.kind \in Measurers, l.kind # "heldout" => l.context \in Ctx,
         job' = h, l.artifact \in 1..Len(artifacts'),
         NEW fork \in Request, fork.op = "fork", Measure(h, l, fork)
  PROVE  GoodMove(h)
<1> DEFINE m == [l EXCEPT !.at = "forking", !.steps = 0, !.branch = NoHandle, !.result = None]
<1>1. m \in Locals /\ m.kind = l.kind /\ m.at = "forking" /\ m.artifact = l.artifact /\ m.context = l.context
  BY DEF Locals, Stages, MeasureStages, NoHandle
<1>2. Await(h, m, fork)
  BY DEF Measure
<1> HIDE DEF m
<1> QED
  BY <1>1, <1>2, AwaitMoves DEF StageOK, RequestOK, MeasureStages, Measurers, QuietStages

LEMMA LoopMoves ==
  ASSUME NEW h \in Handlers, NEW l \in Locals, l.kind \in Measurers, l.kind # "heldout" => l.context \in Ctx,
         job' = h, l.artifact \in 1..Len(artifacts'), MeasureLoop(h, l)
  PROVE  GoodMove(h)
<1>1. CASE CleanUp(h, l)
  BY <1>1, CleanUpMoves
<1>2. CASE Await(h, [l EXCEPT !.at = "stepping", !.steps = @ + 1], OnBranch("step", l.branch))
  <2> DEFINE m == [l EXCEPT !.at = "stepping", !.steps = @ + 1]
  <2>0. l.steps + 1 \in Nat /\ l.branch \in Nat
    BY DEF Locals
  <2>1. m \in Locals /\ m.kind = l.kind /\ m.at = "stepping" /\ m.artifact = l.artifact /\
        m.context = l.context /\ m.branch = l.branch /\ l.branch \in Nat
    BY <2>0 DEF Locals, Stages, MeasureStages
  <2>2. Await(h, m, OnBranch("step", l.branch))
    BY <1>2
  <2>3. OnBranch("step", l.branch) \in Request /\ OnBranch("step", l.branch).op = "step"
        /\ OnBranch("step", l.branch).branch = l.branch
    BY <2>1, RequestsOfTypes
  <2> HIDE DEF m
  <2> QED
    BY <2>1, <2>2, <2>3, AwaitMoves DEF StageOK, RequestOK, MeasureStages, Measurers, QuietStages
<1>3. CASE Await(h, [l EXCEPT !.at = "resulting"], OnBranch("result", l.branch))
  <2> DEFINE m == [l EXCEPT !.at = "resulting"]
  <2>1. m \in Locals /\ m.kind = l.kind /\ m.at = "resulting" /\ m.artifact = l.artifact /\
        m.context = l.context /\ m.branch = l.branch /\ l.branch \in Nat
    BY DEF Locals, Stages, MeasureStages
  <2>2. Await(h, m, OnBranch("result", l.branch))
    BY <1>3
  <2>3. OnBranch("result", l.branch) \in Request /\ OnBranch("result", l.branch).op = "result"
        /\ OnBranch("result", l.branch).branch = l.branch
    BY <2>1, RequestsOfTypes
  <2> HIDE DEF m
  <2> QED
    BY <2>1, <2>2, <2>3, AwaitMoves DEF StageOK, RequestOK, MeasureStages, Measurers, QuietStages
<1> QED
  BY <1>1, <1>2, <1>3 DEF MeasureLoop

\* A handler that measures has the job and an artifact.
LEMMA MeasurerFacts ==
  ASSUME Base, NEW h \in Handlers, handler[h].at \in MeasureStages
  PROVE  handler[h].kind \in Measurers /\ (handler[h].kind # "heldout" => handler[h].context \in Ctx) /\
        job = h /\ handler[h].artifact \in 1..Len(artifacts)
BY HandlerFacts DEF ControlOK, StageOK, InJob, HasArtifact, MeasureStages, Measurers

\* What the invariant says of one artifact.
LEMMA ArtifactFacts ==
  ASSUME Base, NEW a \in 1..Len(artifacts)
  PROVE  /\ artifacts[a] \in Artifact /\ artifacts[a].source \in Sources \cup {None} /\ artifacts[a].context \in Ctx
         /\ artifacts[a].evaluation \in Result \cup {None}
<1>1. artifacts[a] \in Artifact
  BY DEF Base, SharedTypes
<1> QED
  BY <1>1 DEF Artifact

\* Every step of a measurement is good.
LEMMA MeasureGood ==
  ASSUME Base, NEW h \in Handlers, Forked(h) \/ Stepped(h) \/ MeasureResult(h) \/ MeasureThrows(h) \/ Cleaned(h)
  PROVE  Good(h)
<1>0. handler[h].at \in MeasureStages /\ UNCHANGED gatewayRest
  BY DEF Forked, Stepped, MeasureResult, MeasureThrows, Cleaned, MeasureStages
<1>1. /\ handler[h].kind \in Measurers /\ (handler[h].kind # "heldout" => handler[h].context \in Ctx) /\
         job' = h /\ handler[h].artifact \in 1..Len(artifacts')
      /\ handler[h].artifact \in 1..Len(artifacts)
      /\ handler[h] \in Locals /\ call[h] \in Call
  BY <1>0, MeasurerFacts, HandlerFacts DEF gatewayRest
<1>2. ASSUME Forked(h) PROVE GoodMove(h)
  <2> DEFINE l == [handler[h] EXCEPT !.branch = call[h].reply.handle]
  <2>1. call[h].reply.handle \in Nat /\ MeasureLoop(h, l)
    BY <1>1, <1>2, AnswersOfTypes DEF Forked, Answered
  <2>2. l \in Locals /\ l.kind = handler[h].kind /\ l.artifact = handler[h].artifact /\ l.context = handler[h].context
    BY <1>1, <2>1 DEF Locals
  <2> HIDE DEF l
  <2> QED
    BY <1>1, <2>1, <2>2, LoopMoves
<1>3. ASSUME Stepped(h) PROVE GoodMove(h)
  BY <1>1, <1>3, LoopMoves DEF Stepped
<1>4. ASSUME MeasureResult(h) PROVE GoodMove(h)
  <2> DEFINE v == [about |-> Told(h), source |-> artifacts[handler[h].artifact].source,
             passed |-> call[h].reply.passed]
             l == [handler[h] EXCEPT !.result = v]
  <2>1. CleanUp(h, l) /\ Answered(h)
    BY <1>4 DEF MeasureResult
  <2>2. v \in Result
    BY <1>1, <2>1, AnswersOfTypes, ArtifactFacts DEF Result, Answered, Told
  <2> HIDE DEF v
  <2>3. l \in Locals /\ l.kind = handler[h].kind /\ l.artifact = handler[h].artifact /\ l.context = handler[h].context
    BY <1>1, <2>2 DEF Locals
  <2> HIDE DEF l
  <2> QED
    BY <1>1, <2>1, <2>3, CleanUpMoves
<1>5. ASSUME MeasureThrows(h) PROVE GoodMove(h)
  BY <1>1, <1>5, CleanUpMoves DEF MeasureThrows
<1>6. ASSUME Cleaned(h) PROVE GoodMove(h)
  <2> DEFINE m == [handler[h] EXCEPT !.at = "measured"]
  <2>1. m \in Locals /\ m.kind = handler[h].kind /\ m.at = "measured" /\ m.artifact = handler[h].artifact /\
        m.context = handler[h].context
    BY <1>1 DEF Locals, Stages, MeasureStages
  <2>2. Continue(h, m)
    BY <1>6 DEF Cleaned
  <2> HIDE DEF m
  <2> QED
    BY <1>1, <2>1, <2>2, ContinueMoves DEF StageOK, MeasureStages, Measurers
<1> QED
  BY <1>0, <1>2, <1>3, <1>4, <1>5, <1>6, GoodRest

-----------------------------------------------------------------------------
(* Repairs.                                                                *)

\* A sequence with one element replaced.
LEMMA Written ==
  ASSUME NEW S, NEW s \in Seq(S), NEW a \in 1..Len(s), NEW v \in S
  PROVE  /\ [s EXCEPT ![a] = v] \in Seq(S) /\ Len([s EXCEPT ![a] = v]) = Len(s)
         /\ \A b \in 1..Len(s) : [s EXCEPT ![a] = v][b] = IF b = a THEN v ELSE s[b]
OBVIOUS

\* A repair that writes its artifact.
LEMMA WriteGood ==
  ASSUME Base, NEW h \in Handlers, GoodMove(h), JobMoves(h), NEW a \in 1..Len(artifacts), NEW v \in Artifact,
         Write(a, v), UNCHANGED <<failure, calibration>>, aborted' \in {aborted, FALSE}
  PROVE  Good(h)
<1>1. artifacts \in Seq(Artifact) /\ Len(artifacts) \in Nat /\ aborted \in BOOLEAN /\ failure \in Ctx \cup {None}
      /\ calibration \in Floors \cup {None} /\ job \in Handlers \cup {None}
  BY DEF Base, SharedTypes
<1>2. artifacts' \in Seq(Artifact) /\ Len(artifacts') = Len(artifacts)
  BY <1>1, Written DEF Write
<1>3. job' \in Handlers \cup {None}
  BY <1>1 DEF JobMoves
<1>4. SharedTypes'
  BY <1>1, <1>2, <1>3 DEF SharedTypes
<1> QED
  BY <1>1, <1>2, <1>4 DEF Good

\* What a repair writes into its artifact.
LEMMA WritesOfTypes ==
  ASSUME NEW a \in Artifact
  PROVE  /\ \A source \in Sources : [a EXCEPT !.source = source, !.status = "testing"] \in Artifact
         /\ \A result \in Result \cup {None} :
              Judge(a, result) \in Artifact /\ [Judge(a, result) EXCEPT !.status = "error"] \in Artifact
         /\ Verdict(a) \in Artifact
         /\ [a EXCEPT !.status = "error"] \in Artifact
<1>1. \A source \in Sources : [a EXCEPT !.source = source, !.status = "testing"] \in Artifact
  BY DEF Artifact
<1>2. \A result \in Result \cup {None} :
        Judge(a, result) \in Artifact /\ [Judge(a, result) EXCEPT !.status = "error"] \in Artifact
  BY DEF Artifact, Judge
<1>3. Verdict(a) \in Artifact
  <2>1. \A status \in {"passed", "failed"} : [a EXCEPT !.status = status] \in Artifact
    BY DEF Artifact
  <2> QED
    BY <2>1 DEF Verdict
<1>4. [a EXCEPT !.status = "error"] \in Artifact
  BY DEF Artifact
<1> QED
  BY <1>1, <1>2, <1>3, <1>4

\* The next turn of the repair loop.
LEMMA ThinkMoves ==
  ASSUME NEW h \in Handlers, NEW l \in Locals, l.kind = "repair", l.context \in Ctx, job' = h,
         l.artifact \in 1..Len(artifacts'), NextTurn(h, l)
  PROVE  GoodMove(h)
<1> DEFINE m == [l EXCEPT !.at = "thinking", !.count = @ + 1, !.submit = FALSE]
<1>1. l.count + 1 \in Nat
  BY DEF Locals
<1>2. m \in Locals /\ m.kind = "repair" /\ m.at = "thinking" /\ m.artifact = l.artifact /\ m.context = l.context
  BY <1>1 DEF Locals, Stages
<1>3. Continue(h, m)
  BY DEF NextTurn
<1> HIDE DEF m
<1> QED
  BY <1>2, <1>3, ContinueMoves DEF StageOK

\* A repair that adds its artifact.
LEMMA GoodBegun ==
  ASSUME Base, NEW h \in Handlers, GoodMove(h), JobMoves(h), UNCHANGED <<failure, calibration>>,
         aborted' \in {aborted, FALSE},
         artifacts' \in Seq(Artifact), Len(artifacts') = Len(artifacts) + 1
  PROVE  Good(h)
<1>1. artifacts \in Seq(Artifact) /\ Len(artifacts) \in Nat /\ aborted \in BOOLEAN /\ failure \in Ctx \cup {None}
      /\ calibration \in Floors \cup {None} /\ job \in Handlers \cup {None}
  BY DEF Base, SharedTypes
<1>2. job' \in Handlers \cup {None}
  BY <1>1 DEF JobMoves
<1>3. SharedTypes'
  BY <1>1, <1>2 DEF SharedTypes
<1> QED
  BY <1>1, <1>3 DEF Good

\* A repair begins; a candidate of the model is judged or measured.
LEMMA BeginRepairGood ==
  ASSUME Base, NEW h \in Handlers, BeginRepair(h)
  PROVE  Good(h)
<1> DEFINE a == NewArtifact(failure)
           m == [handler[h] EXCEPT !.at = "thinking", !.context = failure, !.artifact = Len(artifacts) + 1,
              !.count = 1]
<1>1. /\ handler[h] \in Locals /\ failure \in Ctx /\ job = None /\ artifacts \in Seq(Artifact) /\
         Len(artifacts) \in Nat
      /\ aborted \in BOOLEAN /\ calibration \in Floors \cup {None} /\ handler[h].kind = "repair"
  BY HandlerFacts DEF BeginRepair, FailureOf, Base, SharedTypes, At
<1>2. a \in Artifact
  BY <1>1 DEF NewArtifact, Artifact
<1>3. artifacts' = Append(artifacts, a) /\ UNCHANGED <<failure, calibration>>
  BY DEF BeginRepair, repairKeeps
<1> HIDE DEF a
<1>4. artifacts' \in Seq(Artifact) /\ Len(artifacts') = Len(artifacts) + 1
  BY <1>1, <1>2, <1>3
<1>5. CASE Acquire(h) /\ Continue(h, m)
  <2>0. Len(artifacts) + 1 \in Nat /\ failure \in Ctx
    BY <1>1 DEF BeginRepair, FailureOf
  <2>1. m \in Locals /\ m.kind = "repair" /\ m.at = "thinking" /\ m.artifact = Len(artifacts) + 1 /\ m.context \in Ctx
    BY <1>1, <2>0 DEF Locals, Stages
  <2> HIDE DEF m
  <2>2. m.artifact \in 1..Len(artifacts') /\ job' = h /\ aborted' = FALSE
    BY <1>1, <1>4, <1>5, <2>1 DEF Acquire
  <2>3. GoodMove(h)
    BY <1>5, <2>1, <2>2, ContinueMoves DEF StageOK
  <2> QED
    BY <1>1, <1>3, <1>4, <1>5, <2>2, <2>3, GoodBegun DEF JobMoves, Acquire
<1>6. CASE End(h) /\ UNCHANGED <<job, aborted>>
  <2>1. GoodMove(h)
    BY <1>6, EndMoves
  <2> QED
    BY <1>1, <1>3, <1>4, <1>6, <2>1, GoodBegun DEF JobMoves
<1> QED
  BY <1>5, <1>6 DEF BeginRepair

LEMMA CandidateGood ==
  ASSUME Base, NEW h \in Handlers, NEW source \in Sources, NEW submit \in BOOLEAN, Candidate(h, source, submit)
  PROVE  Good(h)
<1> DEFINE a == handler[h].artifact
           l == [handler[h] EXCEPT !.submit = submit]
           written == [artifacts[l.artifact] EXCEPT !.source = source, !.status = "testing"]
<1>1. /\ handler[h] \in Locals /\ handler[h].kind = "repair" /\ handler[h].at = "thinking"
      /\ UNCHANGED <<job, aborted, failure, calibration>> /\ job = h /\ a \in 1..Len(artifacts) /\
         handler[h].context \in Ctx
      /\ artifacts \in Seq(Artifact)
  BY HandlerFacts DEF Candidate, At, ControlOK, StageOK, MeasureStages, InJob, HasArtifact, repairKeeps, Locals
<1>2. written \in Artifact /\ l \in Locals /\ l.kind = "repair" /\ l.artifact = a /\ l.context = handler[h].context
  BY <1>1, ArtifactFacts, WritesOfTypes DEF Locals
<1>3. \/ Write(l.artifact, written) /\ \E e \in Tested(l, source) : Continue(h, [l EXCEPT !.at = "measured",
         !.result = e])
      \/ Write(l.artifact, written) /\ Measure(h, [l EXCEPT !.tests = @ + 1], FromCheckpoint("fork",
         l.context.checkpoint))
         /\ l.tests < MaxTests
      \/ Write(l.artifact, written) /\ NextTurn(h, l)
  BY <1>2 DEF Candidate
<1> HIDE DEF l, written
<1>4. Write(l.artifact, written) /\ JobMoves(h)
  BY <1>1, <1>3 DEF JobMoves
<1>5. l.artifact \in 1..Len(artifacts') /\ job' = h
  BY <1>1, <1>2, <1>4, Written DEF Write
<1>7. l.context \in Ctx /\ l.kind = "repair"
  BY <1>1, <1>2
<1>6. GoodMove(h)
  <2>1. CASE \E e \in Tested(l, source) : Continue(h, [l EXCEPT !.at = "measured", !.result = e])
    <3>1. PICK e \in Tested(l, source) : Continue(h, [l EXCEPT !.at = "measured", !.result = e])
      BY <2>1
    <3>2. e \in Result
      BY <1>2, <3>1 DEF Tested, Locals
    <3> DEFINE m == [l EXCEPT !.at = "measured", !.result = e]
    <3>3. m \in Locals /\ m.kind = "repair" /\ m.at = "measured" /\ m.artifact = l.artifact /\ m.context = l.context
      BY <1>2, <3>2 DEF Locals, Stages, MeasureStages
    <3>4. Continue(h, m)
      BY <3>1
    <3> HIDE DEF m
    <3> QED
      BY <1>5, <1>7, <3>3, <3>4, ContinueMoves DEF StageOK, MeasureStages
  <2>2. CASE Measure(h, [l EXCEPT !.tests = @ + 1], FromCheckpoint("fork", l.context.checkpoint))
    <3> DEFINE m == [l EXCEPT !.tests = @ + 1]
               r == FromCheckpoint("fork", l.context.checkpoint)
    <3>1. l.tests + 1 \in Nat
      BY <1>2 DEF Locals
    <3>2. m \in Locals /\ m.kind = "repair" /\ m.artifact = l.artifact /\ m.context = l.context
      BY <1>2, <3>1 DEF Locals
    <3>3. r \in Request /\ r.op = "fork"
      <4>1. l.context.checkpoint \in Nat
        BY <1>1, <1>2 DEF Ctx
      <4> QED
        BY <4>1, RequestsOfTypes
    <3>4. Measure(h, m, r)
      BY <2>2
    <3> HIDE DEF m, r
    <3> QED
      BY <1>5, <1>7, <3>2, <3>3, <3>4, MeasureMoves DEF Measurers
  <2>3. CASE NextTurn(h, l)
    BY <1>2, <1>5, <1>7, <2>3, ThinkMoves
  <2> QED
    BY <1>3, <2>1, <2>2, <2>3
<1> QED
  BY <1>1, <1>2, <1>4, <1>6, WriteGood

\* What the invariant says of a repair at work.
LEMMA WorkingRepair ==
  ASSUME Base, NEW h \in Handlers, handler[h].kind = "repair", handler[h].at # "origin"
  PROVE  /\ handler[h] \in Locals /\ handler[h].context \in Ctx /\ InJob(handler[h]) /\ job = h
         /\ handler[h].artifact \in 1..Len(artifacts) /\ artifacts[handler[h].artifact] \in Artifact
         /\ artifacts \in Seq(Artifact)
<1>1. /\ handler[h] \in Locals /\ handler[h].context \in Ctx /\ InJob(handler[h]) /\ job = h
      /\ handler[h].artifact \in 1..Len(artifacts) /\ artifacts \in Seq(Artifact)
  BY HandlerFacts DEF ControlOK, StageOK, InJob, HasArtifact
<1> QED
  BY <1>1, ArtifactFacts

\* A repair whose measurement is done, and its other steps.
LEMMA RepairMeasuredGood ==
  ASSUME Base, NEW h \in Handlers, RepairMeasured(h)
  PROVE  Good(h)
<1> DEFINE l == [handler[h] EXCEPT !.measured = @ \cup ({handler[h].result} \ {None}),
                                   !.result = None, !.branch = NoHandle, !.steps = 0]
           judged == Judge(artifacts[l.artifact], handler[h].result)
<1>1. handler[h].kind = "repair" /\ handler[h].at = "measured" /\ UNCHANGED <<failure, calibration>>
  BY DEF RepairMeasured, At, repairKeeps
<1>2. /\ handler[h] \in Locals /\ handler[h].context \in Ctx /\ InJob(handler[h]) /\ job = h
      /\ handler[h].artifact \in 1..Len(artifacts) /\ artifacts[handler[h].artifact] \in Artifact
      /\ artifacts \in Seq(Artifact)
  BY <1>1, WorkingRepair
<1>3. handler[h].result \in Result \cup {None} /\
      handler[h].measured \cup ({handler[h].result} \ {None}) \in SUBSET Result
  BY <1>2 DEF Locals
<1>4. l \in Locals /\ l.kind = "repair" /\ l.context \in Ctx /\ l.artifact = handler[h].artifact
  BY <1>1, <1>2, <1>3 DEF Locals, NoHandle
<1>5. judged \in Artifact /\ [judged EXCEPT !.status = "error"] \in Artifact
  BY <1>2, <1>3, <1>4, WritesOfTypes
<1>6. \/ /\ Write(l.artifact, judged)
         /\ IF l.submit THEN Await(h, [l EXCEPT !.at = "live"], LookAt("state")) ELSE NextTurn(h, l)
         /\ UNCHANGED <<job, aborted>>
      \/ Write(l.artifact, [judged EXCEPT !.status = "error"]) /\ EndJob(h)
  BY DEF RepairMeasured
<1> HIDE DEF l, judged
<1>7. CASE /\ Write(l.artifact, judged)
           /\ IF l.submit THEN Await(h, [l EXCEPT !.at = "live"], LookAt("state")) ELSE NextTurn(h, l)
           /\ UNCHANGED <<job, aborted>>
  <2>1. l.artifact \in 1..Len(artifacts') /\ job' = h
    BY <1>2, <1>4, <1>5, <1>7, Written DEF Write
  <2>2. CASE Await(h, [l EXCEPT !.at = "live"], LookAt("state"))
    <3> DEFINE m == [l EXCEPT !.at = "live"]
    <3>1. m \in Locals /\ m.kind = "repair" /\ m.at = "live" /\ m.artifact = l.artifact /\ m.context \in Ctx
      BY <1>4 DEF Locals, Stages
    <3>2. Await(h, m, LookAt("state"))
      BY <2>2
    <3> HIDE DEF m
    <3>3. GoodMove(h)
      BY <2>1, <3>1, <3>2, AwaitMoves, RequestsOfTypes DEF StageOK, RequestOK, MeasureStages, QuietStages
    <3> QED
      BY <1>1, <1>2, <1>4, <1>5, <1>7, <3>3, WriteGood DEF JobMoves
  <2>3. CASE NextTurn(h, l)
    <3>1. GoodMove(h)
      BY <1>4, <2>1, <2>3, ThinkMoves
    <3> QED
      BY <1>1, <1>2, <1>4, <1>5, <1>7, <3>1, WriteGood DEF JobMoves
  <2> QED
    BY <1>7, <2>2, <2>3
<1>8. CASE Write(l.artifact, [judged EXCEPT !.status = "error"]) /\ EndJob(h)
  <2>1. GoodMove(h) /\ JobMoves(h) /\ aborted' = FALSE
    BY <1>2, <1>8, EndMoves DEF EndJob, Release, JobMoves
  <2> QED
    BY <1>1, <1>2, <1>4, <1>5, <1>8, <2>1, WriteGood
<1> QED
  BY <1>6, <1>7, <1>8

LEMMA RepairGood ==
  ASSUME Base, NEW h \in Handlers, Inspect(h) \/ Promote(h) \/ Promoted(h) \/ RepairThrows(h)
  PROVE  Good(h)
<1>1. handler[h].kind = "repair" /\ handler[h].at # "origin"
  BY DEF Inspect, Promote, Promoted, RepairThrows, At
<1>2. /\ handler[h] \in Locals /\ handler[h].context \in Ctx /\ InJob(handler[h]) /\ job = h
      /\ handler[h].artifact \in 1..Len(artifacts) /\ artifacts[handler[h].artifact] \in Artifact
      /\ artifacts \in Seq(Artifact)
  BY <1>1, WorkingRepair
<1>3. ASSUME Inspect(h) PROVE Good(h)
  <2>1. UNCHANGED gatewayRest /\ NextTurn(h, handler[h])
    BY <1>3 DEF Inspect
  <2>2. job' = h /\ handler[h].artifact \in 1..Len(artifacts')
    BY <1>2, <2>1 DEF gatewayRest
  <2> QED
    BY <1>1, <1>2, <2>1, <2>2, ThinkMoves, GoodRest
<1>4. ASSUME Promote(h) PROVE Good(h)
  <2> DEFINE m == [handler[h] EXCEPT !.at = "saving"]
             v == Verdict(artifacts[handler[h].artifact])
  <2>1. Write(handler[h].artifact, v) /\ Continue(h, m) /\ UNCHANGED <<job, aborted, failure, calibration>>
    BY <1>4 DEF Promote, repairKeeps
  <2>2. v \in Artifact
    BY <1>2, WritesOfTypes
  <2>3. m \in Locals /\ m.kind = "repair" /\ m.at = "saving" /\ m.artifact = handler[h].artifact /\ m.context \in Ctx
    BY <1>1, <1>2 DEF Locals, Stages
  <2> HIDE DEF m, v
  <2>4. m.artifact \in 1..Len(artifacts') /\ job' = h
    BY <1>2, <2>1, <2>2, <2>3, Written DEF Write
  <2>5. GoodMove(h)
    BY <2>1, <2>3, <2>4, ContinueMoves DEF StageOK
  <2> QED
    BY <1>2, <2>1, <2>2, <2>5, WriteGood DEF JobMoves
<1>5. ASSUME Promoted(h) PROVE Good(h)
  BY <1>2, <1>5, EndJobGood DEF Promoted, repairKeeps
<1>6. ASSUME RepairThrows(h) PROVE Good(h)
  <2>1. [artifacts[handler[h].artifact] EXCEPT !.status = "error"] \in Artifact
    BY <1>2, WritesOfTypes
  <2>2. GoodMove(h) /\ JobMoves(h) /\ aborted' = FALSE
    BY <1>2, <1>6, EndMoves DEF RepairThrows, EndJob, Release, JobMoves
  <2> QED
    BY <1>2, <1>6, <2>1, <2>2, WriteGood DEF RepairThrows, repairKeeps
<1> QED
  BY <1>3, <1>4, <1>5, <1>6

-----------------------------------------------------------------------------
(* Replays and held-out runs.                                              *)

\* A handler that refuses its request.
LEMMA RefuseGood ==
  ASSUME Base, NEW h \in Handlers, Refuse(h)
  PROVE  Good(h)
BY EndMoves, GoodRest DEF Refuse

\* What the invariant says of a handler whose artifact was selected.
LEMMA SelectedFacts ==
  ASSUME Base, NEW h \in Handlers, handler[h].kind \in {"replay", "heldout"}
  PROVE  /\ handler[h] \in Locals /\ call[h] \in Call /\ handler[h].artifact \in 1..Len(artifacts)
         /\ handler[h].at \notin {"origin", "responding"} => InJob(handler[h]) /\ job = h
BY HandlerFacts DEF ControlOK, InJob, HasArtifact, StageOK, MeasureStages

\* Every step of a replay is good.
LEMMA ReplayGood ==
  ASSUME Base, NEW h \in Handlers, BeginReplay(h) \/ Replayed(h)
  PROVE  Good(h)
<1>1. ASSUME BeginReplay(h) PROVE Good(h)
  <2> DEFINE l == [handler[h] EXCEPT !.context = failure]
             r == FromCheckpoint("fork", failure.checkpoint)
  <2>1. /\ handler[h].kind = "replay" /\ failure # None /\ Measure(h, l, r) /\ job = None /\ job' = h /\
           aborted' = FALSE
        /\ UNCHANGED <<failure, calibration, artifacts>>
    BY <1>1 DEF BeginReplay, At, Replayable, FailureOf, Acquire
  <2>2. handler[h] \in Locals /\ handler[h].artifact \in 1..Len(artifacts)
    BY <2>1, SelectedFacts
  <2>3. failure \in Ctx
    BY <2>1 DEF Base, SharedTypes
  <2>4. l \in Locals /\ l.kind = "replay" /\ l.context \in Ctx /\ l.artifact \in 1..Len(artifacts')
    BY <2>1, <2>2, <2>3 DEF Locals
  <2>5. failure.checkpoint \in Nat
    BY <2>3 DEF Ctx
  <2>6. r \in Request /\ r.op = "fork"
    BY <2>5, RequestsOfTypes
  <2> HIDE DEF l, r
  <2>7. GoodMove(h)
    BY <2>1, <2>4, <2>6, MeasureMoves DEF Measurers
  <2> QED
    BY <2>1, <2>7, GoodJob DEF JobMoves
<1>2. ASSUME Replayed(h) PROVE Good(h)
  BY <1>2, SelectedFacts, EndJobGood DEF Replayed, At
<1> QED
  BY <1>1, <1>2

\* The next held-out trial.
LEMMA NextHeldOutMoves ==
  ASSUME NEW h \in Handlers, NEW l \in Locals, l.kind = "heldout", job' = h,
         l.artifact \in 1..Len(artifacts'), NextHeldOut(h, l)
  PROVE  GoodMove(h)
<1>1. CASE Await(h, [l EXCEPT !.at = "rechecking", !.count = @ + 1], LookAt("state"))
  <2> DEFINE m == [l EXCEPT !.at = "rechecking", !.count = @ + 1]
  <2>0. l.count + 1 \in Nat
    BY DEF Locals
  <2>1. m \in Locals /\ m.kind = "heldout" /\ m.at = "rechecking" /\ m.artifact = l.artifact
    BY <2>0 DEF Locals, Stages
  <2>2. Await(h, m, LookAt("state"))
    BY <1>1
  <2> HIDE DEF m
  <2> QED
    BY <2>1, <2>2, AwaitMoves, RequestsOfTypes DEF StageOK, RequestOK, MeasureStages, QuietStages
<1>2. CASE Await(h, [l EXCEPT !.at = "final"], LookAt("state"))
  <2> DEFINE m == [l EXCEPT !.at = "final"]
  <2>1. m \in Locals /\ m.kind = "heldout" /\ m.at = "final" /\ m.artifact = l.artifact
    BY DEF Locals, Stages
  <2>2. Await(h, m, LookAt("state"))
    BY <1>2
  <2> HIDE DEF m
  <2> QED
    BY <2>1, <2>2, AwaitMoves, RequestsOfTypes DEF StageOK, RequestOK, MeasureStages, QuietStages
<1> QED
  BY <1>1, <1>2 DEF NextHeldOut

\* Every step of the held-out trials is good.
LEMMA HeldOutGood ==
  ASSUME Base, NEW h \in Handlers,
         BeginHeldOut(h) \/ HeldOutTemplate(h) \/ HeldOutRechecked(h) \/ HeldOutSampled(h) \/ HeldOutMeasured(h)
           \/ HeldOutReturns(h) \/ HeldOutResponds(h) \/ HeldOutThrows(h)
  PROVE  Good(h)
<1>1. handler[h].kind = "heldout"
  BY DEF BeginHeldOut, HeldOutTemplate, HeldOutRechecked, HeldOutSampled, HeldOutMeasured, HeldOutReturns,
     HeldOutResponds,
     HeldOutThrows, At
<1>2. /\ handler[h] \in Locals /\ call[h] \in Call /\ handler[h].artifact \in 1..Len(artifacts)
      /\ handler[h].at \notin {"origin", "responding"} => InJob(handler[h]) /\ job = h
  BY <1>1, SelectedFacts
<1>3. Answered(h) => Told(h).scene \in Scenes
  BY <1>2, AnswersOfTypes DEF Answered, Told
<1>4. ASSUME BeginHeldOut(h) PROVE Good(h)
  <2> DEFINE m == [handler[h] EXCEPT !.at = "template"]
  <2>1. /\ Await(h, m, LookAt("scene")) /\ job = None /\ job' = h /\ aborted' = FALSE
        /\ UNCHANGED <<failure, calibration, artifacts>>
    BY <1>4 DEF BeginHeldOut, Acquire
  <2>2. m \in Locals /\ m.kind = "heldout" /\ m.at = "template" /\ m.artifact \in 1..Len(artifacts')
    BY <1>1, <1>2, <2>1 DEF Locals, Stages
  <2> HIDE DEF m
  <2>3. GoodMove(h)
    BY <2>1, <2>2, AwaitMoves, RequestsOfTypes DEF StageOK, RequestOK, MeasureStages, QuietStages
  <2> QED
    BY <2>1, <2>3, GoodJob DEF JobMoves
<1>5. ASSUME HeldOutTemplate(h) PROVE Good(h)
  <2> DEFINE l == [handler[h] EXCEPT !.scene = Told(h).scene]
  <2>1. NextHeldOut(h, l) /\ UNCHANGED gatewayRest /\ handler[h].at = "template" /\ Answered(h)
    BY <1>5 DEF HeldOutTemplate, At
  <2>2. l \in Locals /\ l.kind = "heldout" /\ l.artifact \in 1..Len(artifacts') /\ job' = h
    BY <1>1, <1>2, <1>3, <2>1 DEF Locals, gatewayRest
  <2> HIDE DEF l
  <2> QED
    BY <2>1, <2>2, NextHeldOutMoves, GoodRest
<1>6. ASSUME HeldOutRechecked(h) PROVE Good(h)
  <2> DEFINE m == [handler[h] EXCEPT !.at = "sampling"]
  <2>1. Await(h, m, LookAt("scene")) /\ UNCHANGED gatewayRest /\ handler[h].at = "rechecking"
    BY <1>6 DEF HeldOutRechecked, At
  <2>2. m \in Locals /\ m.kind = "heldout" /\ m.at = "sampling" /\ m.artifact \in 1..Len(artifacts') /\ job' = h
    BY <1>1, <1>2, <2>1 DEF Locals, Stages, gatewayRest
  <2> HIDE DEF m
  <2>3. GoodMove(h)
    BY <2>1, <2>2, AwaitMoves, RequestsOfTypes DEF StageOK, RequestOK, MeasureStages, QuietStages
  <2> QED
    BY <2>1, <2>3, GoodRest
<1>7. ASSUME HeldOutSampled(h) PROVE Good(h)
  <2>1. UNCHANGED gatewayRest /\ handler[h].at = "sampling" /\ Answered(h)
    BY <1>7 DEF HeldOutSampled, At
  <2>2. PICK seed \in Seeds : Measure(h, handler[h], FromScene([Told(h).scene EXCEPT !.seed = seed]))
    BY <1>7 DEF HeldOutSampled
  <2>3. [Told(h).scene EXCEPT !.seed = seed] \in Scenes
    BY <1>3, <2>1, SceneParts
  <2> DEFINE r == FromScene([Told(h).scene EXCEPT !.seed = seed])
  <2>4. r \in Request /\ r.op = "fork"
    BY <2>3, RequestsOfTypes
  <2>5. Measure(h, handler[h], r)
    BY <2>2
  <2> HIDE DEF r
  <2>6. job' = h /\ handler[h].artifact \in 1..Len(artifacts')
    BY <1>2, <2>1 DEF gatewayRest
  <2> QED
    BY <1>1, <1>2, <2>1, <2>4, <2>5, <2>6, MeasureMoves, GoodRest DEF Measurers
<1>8. ASSUME HeldOutMeasured(h) PROVE Good(h)
  <2> DEFINE l == [handler[h] EXCEPT !.measured = @ \cup {handler[h].result}, !.result = None,
             !.branch = NoHandle, !.steps = 0]
  <2>1. NextHeldOut(h, l) /\ UNCHANGED gatewayRest /\ handler[h].at = "measured" /\ handler[h].result # None
    BY <1>8 DEF HeldOutMeasured, At
  <2>2. handler[h].measured \cup {handler[h].result} \in SUBSET Result
    BY <1>2, <2>1 DEF Locals
  <2>3. l \in Locals /\ l.kind = "heldout" /\ l.artifact \in 1..Len(artifacts') /\ job' = h
    BY <1>1, <1>2, <2>1, <2>2 DEF Locals, gatewayRest, NoHandle
  <2> HIDE DEF l
  <2> QED
    BY <2>1, <2>3, NextHeldOutMoves, GoodRest
<1>9. ASSUME HeldOutReturns(h) PROVE Good(h)
  <2> DEFINE m == [handler[h] EXCEPT !.at = "responding"]
  <2>1. /\ Continue(h, m) /\ job' = None /\ aborted' = FALSE /\ handler[h].at = "final"
        /\ UNCHANGED <<failure, calibration, artifacts>>
    BY <1>9 DEF HeldOutReturns, At, Release
  <2>2. m \in Locals /\ m.kind = "heldout" /\ m.at = "responding" /\ m.artifact \in 1..Len(artifacts')
    BY <1>1, <1>2, <2>1 DEF Locals, Stages
  <2> HIDE DEF m
  <2>3. GoodMove(h)
    BY <2>1, <2>2, ContinueMoves DEF StageOK, InJob, MeasureStages
  <2> QED
    BY <1>2, <2>1, <2>3, GoodJob DEF JobMoves
<1>10. ASSUME HeldOutResponds(h) PROVE Good(h)
  BY <1>10, EndMoves, GoodRest DEF HeldOutResponds
<1>11. ASSUME HeldOutThrows(h) PROVE Good(h)
  <2>1. handler[h].at \notin {"origin", "responding"} /\ EndJob(h) /\ UNCHANGED <<failure, calibration, artifacts>>
    BY <1>11 DEF HeldOutThrows
  <2> QED
    BY <1>2, <2>1, EndJobGood
<1> QED
  BY <1>4, <1>5, <1>6, <1>7, <1>8, <1>9, <1>10, <1>11

-----------------------------------------------------------------------------
(* Every step.                                                             *)

\* A step of handler h, of whatever kind.
Steps(h) == StartRequest(h) \/ JobStep(h) \/ EditStep(h) \/ ConfirmEdit(h)

\* Every step of a handler is good.
LEMMA StepsAreGood ==
  ASSUME Base, NEW h \in Handlers, Steps(h)
  PROVE  Good(h)
<1>1. CASE StartRequest(h)
  BY <1>1, BrowserGood
<1>2. CASE EditStep(h) \/ ConfirmEdit(h)
  BY <1>2, EditGood
<1>3. CASE JobStep(h)
  BY <1>3, SearchGood, MeasureGood, BeginRepairGood, CandidateGood, RepairMeasuredGood, RepairGood,
     RefuseGood, ReplayGood, HeldOutGood
     DEF JobStep
<1> QED
  BY <1>1, <1>2, <1>3 DEF Steps

\* For the service, a good move is a client that sends, forgets or does nothing.
LEMMA GoodMoveIsSimStep ==
  ASSUME NEW h \in Handlers, GoodMove(h)
  PROVE  SimNext
<1>1. PICK l \in Locals, x \in Call : Moves(h, l, x) /\ (x = Idle \/ \E r \in Request : x = Ask(r))
  BY DEF GoodMove
<1>2. Settle(h, x) /\ Free(h) /\ UNCHANGED <<world, checkpoints, branches, slots, episodes, handles>>
  BY <1>1 DEF Moves, Settle, serverVars
<1>3. CASE x = Idle
  BY <1>2, <1>3, GatewayAssumption DEF SimNext, Forget
<1>4. CASE \E r \in Request : x = Ask(r)
  BY <1>2, <1>4, GatewayAssumption DEF SimNext, Send, SendRequest
<1> QED
  BY <1>1, <1>3, <1>4

\* What the service does to a call.
Served(x, y) ==
  \/ y = x
  \/ /\ x # Idle
     /\ \/ y.stage \in {"answered", "refused"}
        \/ y.stage = "working" /\ Pending(x) /\ y.request = x.request

\* The service moves no call but by answering it.
LEMMA ServeServes ==
  ASSUME SimTypeOK, NEW c \in Clients, Serve(c) \/ LoseReply(c)
  PROVE  \A d \in Clients : Served(call[d], call'[d])
<1>1. ASSUME NEW outcome, Settle(c, outcome), call[c].stage # "idle",
             \/ outcome.stage \in {"answered", "refused"}
             \/ outcome.stage = "working" /\ Pending(call[c]) /\ outcome.request = call[c].request
      PROVE  \A d \in Clients : Served(call[d], call'[d])
  BY <1>1, StagesOfCalls DEF Settle, SimTypeOK, Served
<1>2. CASE Look(c) \/ Reset(c) \/ Invalidate(c) \/ Capture(c) \/ Delete(c) \/ EvaluateEnds(c) \/ BranchEnds(c) \/ LoseReply(c)
  <2>1. call[c].stage # "idle"
    BY <1>2 DEF Look, Reset, Invalidate, Capture, Delete, EvaluateEnds, BranchEnds, LoseReply, Asked, Working
  <2>2. \E outcome : Settle(c, outcome) /\ outcome.stage \in {"answered", "refused"}
    BY <1>2, StagesOfCalls DEF Look, Reset, Invalidate, Capture, Delete, EvaluateEnds, BranchEnds, LoseReply
  <2> QED
    BY <1>1, <2>1, <2>2
<1>3. CASE ForkBegins(c) \/ ForkEnds(c) \/ EvaluateBegins(c) \/ BranchBegins(c)
  <2>1. call[c].stage # "idle" /\ Pending(call[c])
    BY <1>3 DEF ForkBegins, ForkEnds, EvaluateBegins, BranchBegins, Asked, Working, Pending
  <2>2. \/ Settle(c, Refusal) \/ Settle(c, Work(call[c].request, ForkOf(call[c].request)))
        \/ Settle(c, Work(call[c].request, branches[call[c].request.branch]))
        \/ Settle(c, Answer([about |-> call[c].branch, handle |-> handles + 1, passed |-> FALSE]))
    BY <1>3 DEF ForkBegins, ForkEnds, EvaluateBegins, BranchBegins
  <2>3. ASSUME NEW branch, Settle(c, Work(call[c].request, branch)) PROVE \A d \in Clients : Served(call[d], call'[d])
    <3>1. Work(call[c].request, branch).stage = "working" /\ Work(call[c].request, branch).request = call[c].request
      BY StagesOfCalls
    <3> QED
      BY <1>1, <2>1, <2>3, <3>1
  <2>4. ASSUME NEW reply, Settle(c, Answer(reply)) PROVE \A d \in Clients : Served(call[d], call'[d])
    BY <1>1, <2>1, <2>4, StagesOfCalls
  <2>5. ASSUME Settle(c, Refusal) PROVE \A d \in Clients : Served(call[d], call'[d])
    BY <1>1, <2>1, <2>5, StagesOfCalls
  <2> QED
    BY <2>2, <2>3, <2>4, <2>5
<1> QED
  BY <1>2, <1>3 DEF Serve

LEMMA RestartServes ==
  ASSUME Restart
  PROVE  \A d \in Clients : Served(call[d], call'[d])
BY StagesOfCalls DEF Restart, Restarted, Served

\* Whatever the service does, a handler awaits what it awaited.
LEMMA ServedKeepsControl ==
  ASSUME Base, \A d \in Handlers : Served(call[d], call'[d]), UNCHANGED <<handler, artifacts, job>>
  PROVE  Control'
<1> SUFFICES ASSUME NEW d \in Handlers PROVE ControlOK(d, handler[d], call'[d], Len(artifacts), job)
  BY DEF Control
<1>1. ControlOK(d, handler[d], call[d], Len(artifacts), job) /\ Served(call[d], call'[d])
  BY DEF Base, Control
<1> QED
  BY <1>1 DEF ControlOK, Served, Pending

\* Every step of the workbench is one of the service, or none of it.
LEMMA NextIsSimStep ==
  ASSUME Base, [Next]_vars
  PROVE  [SimNext]_simVars
<1>1. ASSUME NEW h \in Handlers, Steps(h) PROVE SimNext
  BY <1>1, StepsAreGood, GoodMoveIsSimStep DEF Good
<1>2. CASE BrowserStep \/ HandlerStep
  BY <1>1, <1>2 DEF BrowserStep, HandlerStep, Steps
<1>3. CASE ServiceStep
  BY <1>3 DEF ServiceStep, SimNext
<1>4. CASE Disturb
  <2>1. CASE Cancel
    BY <2>1 DEF Cancel
  <2>2. CASE \E request \in OperatorRequests : SendRequest(Operator, request) /\ UNCHANGED serverVars
    BY <2>2, GatewayAssumption DEF SimNext, Send, serverVars
  <2>3. CASE \E h \in Handlers : LoseReply(h)
    BY <2>3, GatewayAssumption DEF SimNext
  <2>4. CASE Restart
    BY <2>4 DEF SimNext
  <2> QED
    BY <1>4, <2>1, <2>2, <2>3, <2>4 DEF Disturb
<1>5. CASE UNCHANGED vars
  BY <1>5 DEF vars
<1> QED
  BY <1>2, <1>3, <1>4, <1>5 DEF Next

LEMMA CoherentStep ==
  ASSUME Coherent, [SimNext]_simVars
  PROVE  Coherent'
<1>1. Types => SimTypeOK
  BY DEF Types
<1> QED
  BY <1>1, TypesStep, SlotsStep, EpochsStep, HandlesStep DEF Coherent

\* Every step keeps types and control.
LEMMA BaseStep ==
  ASSUME Base, [Next]_vars
  PROVE  Base'
<1>1. Coherent'
  BY NextIsSimStep, CoherentStep DEF Base
<1>2. ASSUME NEW h \in Handlers, Steps(h) PROVE Base'
  <2>1. Good(h)
    BY <1>2, StepsAreGood
  <2> QED
    BY <1>1, <2>1, GoodMoveKeepsControl DEF Good, Base
<1>3. ASSUME UNCHANGED gatewayVars, \A d \in Handlers : Served(call[d], call'[d]) PROVE Base'
  <2>1. Control'
    BY <1>3, ServedKeepsControl DEF gatewayVars, gatewayRest
  <2> QED
    BY <1>1, <1>3, <2>1 DEF Base, SharedTypes, gatewayVars, gatewayRest
<1>4. SimTypeOK /\ Handlers \subseteq Clients
  BY GatewayAssumption DEF Base, Coherent, Types
<1>5. CASE BrowserStep \/ HandlerStep
  BY <1>2, <1>5 DEF BrowserStep, HandlerStep, Steps
<1>6. CASE ServiceStep
  BY <1>3, <1>4, <1>6, ServeServes DEF ServiceStep
<1>7. CASE Disturb
  <2>1. CASE Cancel
    <3>1. aborted' \in BOOLEAN /\ UNCHANGED <<failure, calibration, job, artifacts, handler, call>>
      BY <2>1 DEF Cancel, Abort, simVars
    <3> QED
      BY <1>1, <3>1 DEF Base, SharedTypes, Control
  <2>2. CASE /\ \E request \in OperatorRequests : SendRequest(Operator, request)
             /\ UNCHANGED gatewayVars
    <3>1. \A d \in Handlers : call'[d] = call[d]
      BY <1>4, <2>2, GatewayAssumption DEF SendRequest, Settle, SimTypeOK
    <3> QED
      BY <1>3, <2>2, <3>1 DEF Served
  <2>3. CASE (\E h \in Handlers : LoseReply(h)) /\ UNCHANGED gatewayVars
    BY <1>3, <1>4, <2>3, ServeServes
  <2>4. CASE Restart /\ UNCHANGED gatewayVars
    BY <1>3, <1>4, <2>4, RestartServes
  <2> QED
    BY <1>7, <2>1, <2>2, <2>3, <2>4 DEF Disturb
<1>8. CASE UNCHANGED vars
  BY <1>1, <1>8 DEF vars, Base, SharedTypes, Control, gatewayVars, gatewayRest, simVars
<1> QED
  BY <1>5, <1>6, <1>7, <1>8 DEF Next

LEMMA InitBase == GatewayInit => Base
<1> SUFFICES ASSUME GatewayInit PROVE Base
  OBVIOUS
<1>1. Coherent
  BY InitTypes, InitSlots, InitEpochs, InitHandles DEF Coherent, Types, GatewayInit
<1>2. SharedTypes
  <2>1. <<>> \in Seq(Artifact)
    OBVIOUS
  <2> QED
    BY <2>1 DEF GatewayInit, SharedTypes
<1>3. handler \in [Handlers -> Locals] /\ \A h \in Handlers : handler[h] = Quiet /\ call[h] = Idle
  BY QuietIsLocals, GatewayAssumption DEF GatewayInit, SimInit
<1>4. ASSUME NEW h \in Handlers PROVE ControlOK(h, handler[h], call[h], Len(artifacts), job)
  BY <1>3, QuietIsLocals, StagesOfCalls DEF ControlOK, Pending
<1> QED
  BY <1>1, <1>2, <1>3, <1>4 DEF Base, Control

LEMMA BaseAlways == Spec => []Base
<1> QED
  BY InitBase, BaseStep, PTL DEF Spec

\* The gateway, its handlers and the operator use the service only as its clients
\* may: the workbench implements SimService, so that whatever is proved of the
\* service for every client holds in it (every request of gateway/sim-client.ts).
THEOREM WorkbenchUsesService == Spec => SimSpec
<1>1. GatewayInit => SimInit
  BY DEF GatewayInit
<1>2. Base /\ [Next]_vars => [SimNext]_simVars
  BY NextIsSimStep
<1> QED
  BY <1>1, <1>2, BaseAlways, PTL DEF Spec, SimSpec

-----------------------------------------------------------------------------
(* What was proved of the service, for the workbench.                      *)

\* Every state of the gateway and of the service is of the declared types, and
\* every handler is at a stage its kind goes through, awaiting what that stage
\* asked for (the handlers of gateway/index.ts and the service they call).
THEOREM WorkbenchTypeCorrect ==
  Spec => [](SimTypeOK /\ SharedTypes /\ handler \in [Handlers -> Locals] /\ Control)
<1>1. Base => SimTypeOK /\ SharedTypes /\ handler \in [Handlers -> Locals] /\ Control
  BY DEF Base, Coherent, Types
<1> QED
  BY <1>1, BaseAlways, PTL

\* What the service promises holds while the gateway and the operator use it:
\* no evaluation slot is lost, an epoch stands for one world, every branch is of
\* the live scene, and no answer is about a world that has been replaced
\* (sim/service.py behind gateway/sim-client.ts).
THEOREM WorkbenchKeepsService ==
  Spec => [](SlotsAreRunning /\ EpochIdentifiesWorld /\ BranchesOfLiveScene) /\ AnswersAreCurrent
BY WorkbenchUsesService, SlotsAreNotLost, EpochsIdentify, BranchesStayLive, AnswersStayCurrent, PTL

-----------------------------------------------------------------------------
(* Dates.                                                                  *)

\* What belongs to episode p and epoch e is of the world v or an earlier one.
AtOrPast(p, e, v) == p < v.episode \/ (p = v.episode /\ e <= v.epoch)
\* What belongs to episode p and epoch e is of an earlier world than v.
Past(p, e, v) == p < v.episode \/ (p = v.episode /\ e < v.epoch)

\* World or branch w is of the world v or an earlier one, and of its stage if
\* it is of its episode.
Dated(w, v) == AtOrPast(w.episode, w.epoch, v) /\ (w.episode = v.episode => w.scene = v.scene)

\* Everything the service keeps is of the live world or an earlier one.
Dates ==
  /\ 1 <= world.episode /\ world.episode <= episodes
  /\ \A k \in 1..Len(checkpoints) : Dated(checkpoints[k].world, world)
  /\ \A b \in DOMAIN branches : Dated(branches[b], world)
  /\ \A c \in Clients : call[c].stage = "working" => Dated(call[c].branch, world)

\* How the live world may move.
WorldMoves ==
  \/ world' = world
  \/ world'.epoch = world.epoch + 1 /\ world'.episode = world.episode /\ world'.scene = world.scene
  \/ world.episode < world'.episode

\* The numbers of the world are numbers, before and after the step.
WorldTypes ==
  /\ world.epoch \in Nat /\ world.episode \in Nat /\ world'.epoch \in Nat /\ world'.episode \in Nat

\* What was of the live world or an earlier one still is.
LEMMA DatesMove ==
  ASSUME WorldMoves, WorldTypes, NEW p \in Nat, NEW e \in Nat
  PROVE  /\ AtOrPast(p, e, world) => AtOrPast(p, e, world')
         /\ Past(p, e, world) => Past(p, e, world')
BY DEF AtOrPast, Past, WorldMoves, WorldTypes

LEMMA DatedMoves ==
  ASSUME WorldMoves, WorldTypes, NEW w, w.episode \in Nat, w.epoch \in Nat, Dated(w, world)
  PROVE  Dated(w, world')
BY DEF Dated, AtOrPast, WorldMoves, WorldTypes

\* What a step of the service does to the world, the checkpoints and the
\* branches.
SimFrame ==
  /\ WorldMoves
  /\ handles \in Nat /\ handles' \in Nat /\ handles <= handles'
  /\ \A k \in 1..Len(checkpoints') :
       \/ \E j \in 1..Len(checkpoints) : checkpoints'[k] = checkpoints[j]
       \/ /\ checkpoints'[k].id = handles + 1 /\ checkpoints'[k].world = world
          /\ handles' = handles + 1 /\ world' = world
  /\ \A b \in DOMAIN branches' :
       \/ b \in DOMAIN branches /\ branches'[b] = branches[b] /\ world' = world
       \/ /\ b = handles + 1 /\ handles' = handles + 1 /\ world' = world
          /\ \E c \in Clients : ForkEnds(c) /\ Working(c, "fork") /\ branches'[b] = call[c].branch

\* Episodes are numbered in the order they begin.
EpisodesMove ==
  \/ world'.episode = world.episode /\ episodes' = episodes
  \/ world'.episode = episodes + 1 /\ episodes' = episodes + 1

\* A step that leaves the world, and one that replaces it.
LEMMA FrameOfSame ==
  ASSUME Types, handles' = handles, world' = world, UNCHANGED checkpoints,
         \A b \in DOMAIN branches' : b \in DOMAIN branches /\ branches'[b] = branches[b]
  PROVE  SimFrame
<1>1. handles \in Nat /\ handles <= handles
  BY DEF Types, SimTypeOK
<1> QED
  BY <1>1 DEF SimFrame, WorldMoves

LEMMA FrameOfReplaced ==
  ASSUME Types, handles' = handles, WorldMoves, branches' = NoBranches, checkpoints' \in {checkpoints, <<>>}
  PROVE  SimFrame
<1>1. handles \in Nat /\ handles <= handles
  BY DEF Types, SimTypeOK
<1>2. DOMAIN branches' = {}
  BY DEF NoBranches
<1>3. \A k \in 1..Len(checkpoints') : \E j \in 1..Len(checkpoints) : checkpoints'[k] = checkpoints[j]
  <2>1. CASE checkpoints' = <<>>
    BY <2>1
  <2>2. CASE checkpoints' = checkpoints
    BY <2>2
  <2> QED
    BY <2>1, <2>2
<1> QED
  BY <1>1, <1>2, <1>3 DEF SimFrame

\* Every step of the service is of one kind or the other.
LEMMA NextFrame ==
  ASSUME Types, Dates, [SimNext]_simVars
  PROVE  SimFrame /\ EpisodesMove
<1> USE DEF EpisodesMove
<1>0. world.epoch \in Nat /\ world.episode \in Nat /\ episodes \in Nat /\ world.episode < episodes + 1
  BY DEF Types, SimTypeOK, World, Dates
<1>1. ASSUME NEW c \in Clients, Send(c) \/ LoseReply(c) \/ Forget(c) \/ Look(c) \/ ForkBegins(c) \/ EvaluateBegins(c)
                                 \/ EvaluateEnds(c) \/ BranchBegins(c) \/ BranchEnds(c)
      PROVE SimFrame /\ EpisodesMove
  <2>1. UNCHANGED <<world, checkpoints, branches, handles, episodes>>
    BY <1>1 DEF Send, LoseReply, Forget, Look, ForkBegins, EvaluateBegins, EvaluateEnds, BranchBegins, BranchEnds
  <2> QED
    BY <2>1, FrameOfSame
<1>2. ASSUME NEW c \in Clients, Delete(c) PROVE SimFrame /\ EpisodesMove
  <2>1. UNCHANGED <<world, checkpoints, handles, episodes>> /\
        \A b \in DOMAIN branches' : b \in DOMAIN branches /\ branches'[b] = branches[b]
    BY <1>2 DEF Delete
  <2> QED
    BY <2>1, FrameOfSame
<1>3. ASSUME NEW c \in Clients, Reset(c) PROVE SimFrame /\ EpisodesMove
  <2>1. CASE Expected(call[c].request)
    <3>1. world'.episode = episodes + 1 /\ episodes' = episodes + 1 /\ branches' = NoBranches /\
          UNCHANGED <<checkpoints, handles>>
      BY <1>3, <2>1 DEF Reset, ReplaceWorld, NewWorld
    <3> QED
      BY <1>0, <3>1, FrameOfReplaced DEF WorldMoves
  <2>2. CASE ~Expected(call[c].request)
    <3>1. UNCHANGED <<world, checkpoints, branches, handles, episodes>>
      BY <1>3, <2>2 DEF Reset
    <3> QED
      BY <3>1, FrameOfSame
  <2> QED
    BY <2>1, <2>2
<1>4. ASSUME NEW c \in Clients, Invalidate(c) PROVE SimFrame /\ EpisodesMove
  <2>1. /\ world'.epoch = world.epoch + 1 /\ world'.episode = world.episode /\ world'.scene = world.scene
        /\ branches' = NoBranches /\ UNCHANGED <<checkpoints, handles, episodes>>
    BY <1>4 DEF Invalidate, Invalidated
  <2> QED
    BY <2>1, FrameOfReplaced DEF WorldMoves
<1>5. ASSUME NEW c \in Clients, Capture(c) PROVE SimFrame /\ EpisodesMove
  <2> DEFINE e == [id |-> handles + 1, world |-> world]
  <2>0. handles \in Nat /\ handles <= handles + 1 /\ handles + 1 \in Nat
    BY DEF Types, SimTypeOK
  <2>1. checkpoints \in Seq(Checkpoint) /\ e \in Checkpoint
    BY DEF Checkpoint, Types, SimTypeOK
  <2>2. e.id = handles + 1 /\ e.world = world
    OBVIOUS
  <2>3. checkpoints' = Newest(Append(checkpoints, e)) /\ UNCHANGED <<world, branches, episodes>> /\
        handles' = handles + 1
    BY <1>5 DEF Capture
  <2> HIDE DEF e
  <2>4. \A k \in 1..Len(Newest(Append(checkpoints, e))) :
             \/ Newest(Append(checkpoints, e))[k] = e
             \/ \E j \in 1..Len(checkpoints) : Newest(Append(checkpoints, e))[k] = checkpoints[j]
    BY <2>1, NewestKeeps
  <2>5. \A k \in 1..Len(checkpoints') : checkpoints'[k] = e \/ \E j \in 1..Len(checkpoints) : checkpoints'[k] = checkpoints[j]
    BY <2>3, <2>4
  <2>6. \A k \in 1..Len(checkpoints') :
           \/ \E j \in 1..Len(checkpoints) : checkpoints'[k] = checkpoints[j]
           \/ /\ checkpoints'[k].id = handles + 1 /\ checkpoints'[k].world = world
              /\ handles' = handles + 1 /\ world' = world
    BY <2>2, <2>3, <2>5
  <2>7. \A b \in DOMAIN branches' : b \in DOMAIN branches /\ branches'[b] = branches[b] /\ world' = world
    BY <2>3
  <2> QED
    BY <2>0, <2>3, <2>6, <2>7 DEF SimFrame, WorldMoves
<1>6. ASSUME NEW c \in Clients, ForkEnds(c) PROVE SimFrame /\ EpisodesMove
  <2>1. UNCHANGED <<world, checkpoints, episodes>> /\ Working(c, "fork")
    BY <1>6 DEF ForkEnds
  <2>2. CASE Admitted(call[c].branch)
    <3>1. handles' = handles + 1
          /\ branches' = [b \in DOMAIN branches \cup {handles + 1} |-> IF b = handles + 1 THEN call[c].branch ELSE branches[b]]
      BY <1>6, <2>2 DEF ForkEnds
    <3>2. \A b \in DOMAIN branches' : \/ b = handles + 1 /\ branches'[b] = call[c].branch
                                      \/ b \in DOMAIN branches /\ branches'[b] = branches[b]
      BY <3>1
    <3>3. handles \in Nat /\ handles <= handles + 1 /\ handles + 1 \in Nat
      BY DEF Types, SimTypeOK
    <3>4. \A b \in DOMAIN branches' :
             \/ b \in DOMAIN branches /\ branches'[b] = branches[b] /\ world' = world
             \/ /\ b = handles + 1 /\ handles' = handles + 1 /\ world' = world
                /\ \E d \in Clients : ForkEnds(d) /\ Working(d, "fork") /\ branches'[b] = call[d].branch
      BY <1>6, <2>1, <3>1, <3>2
    <3>5. \A k \in 1..Len(checkpoints') : \E j \in 1..Len(checkpoints) : checkpoints'[k] = checkpoints[j]
      BY <2>1
    <3> QED
      BY <2>1, <3>1, <3>3, <3>4, <3>5 DEF SimFrame, WorldMoves
  <2>3. CASE ~Admitted(call[c].branch)
    <3>1. UNCHANGED <<handles, branches>>
      BY <1>6, <2>3 DEF ForkEnds
    <3> QED
      BY <2>1, <3>1, FrameOfSame
  <2> QED
    BY <2>2, <2>3
<1>7. ASSUME Restart PROVE SimFrame /\ EpisodesMove
  <2>1. world'.episode = episodes + 1 /\ episodes' = episodes + 1 /\ branches' = NoBranches /\
        checkpoints' = <<>> /\ UNCHANGED handles
    BY <1>7 DEF Restart, Restarted, NewWorld
  <2> QED
    BY <1>0, <2>1, FrameOfReplaced DEF WorldMoves
<1>8. ASSUME UNCHANGED simVars PROVE SimFrame /\ EpisodesMove
  <2>1. UNCHANGED <<world, checkpoints, branches, handles, episodes>>
    BY <1>8 DEF simVars
  <2> QED
    BY <2>1, FrameOfSame
<1> QED
  BY <1>1, <1>2, <1>3, <1>4, <1>5, <1>6, <1>7, <1>8 DEF SimNext, Serve

-----------------------------------------------------------------------------
(* What the service makes of the requests.                                 *)

\* The answers that tell of the world.
TellsWorld(d) ==
  /\ call[d].stage = "asked" /\ call[d].request.op \in {"state", "scene", "pause", "reset", "invalidate", "delete"}
  /\ call'[d] = Tell(world', NoHandle)
  /\ call[d].request.op \notin {"reset", "invalidate"} => world' = world
  /\ call[d].request.op = "reset" => world.episode < world'.episode
  /\ call[d].request.op = "delete" => call[d].request.branch \notin DOMAIN branches'

\* A capture stores the live world under a new handle.
Captures(d) ==
  /\ Asked(d, "checkpoint")
  /\ call'[d] = Tell(world, handles + 1)
  /\ handles' = handles + 1 /\ world' = world
  /\ checkpoints' = Newest(Append(checkpoints, [id |-> handles + 1, world |-> world]))

\* A fork, an evaluation or a branch step begins on a copy or on the branch.
Begins(d) ==
  /\ call[d].stage = "asked"
  /\ \/ /\ call[d].request.op \in {"fork", "evaluate"} /\ Forkable(call[d].request)
        /\ call'[d] = Work(call[d].request, ForkOf(call[d].request))
     \/ /\ call[d].request.op \in {"step", "result"} /\ Gettable(call[d].request.branch)
        /\ call'[d] = Work(call[d].request, branches[call[d].request.branch])
  /\ UNCHANGED <<world, checkpoints, branches, handles>>

\* A fork that ends registers the branch under a new handle.
Forks(d) ==
  /\ Working(d, "fork")
  /\ call'[d] = Answer([about |-> call[d].branch, handle |-> handles + 1, passed |-> FALSE])
  /\ handles + 1 \in DOMAIN branches' /\ branches'[handles + 1] = call[d].branch
  /\ handles' = handles + 1 /\ world' = world

\* An evaluation that ends, and a branch step that ends.
Evaluates(d) ==
  /\ Working(d, "evaluate")
  /\ \E passed \in BOOLEAN : call'[d] = Answer([about |-> call[d].branch, handle |-> call[d].branch.origin,
     passed |-> passed])
  /\ world' = world

Results(d) ==
  /\ Working(d, "step") \/ Working(d, "result")
  /\ Gettable(call[d].request.branch)
  /\ \E passed \in BOOLEAN : call'[d] = Answer([about |-> call[d].branch, handle |-> call[d].request.branch,
     passed |-> passed])
  /\ UNCHANGED <<world, branches>>

\* What a step of the service makes of a request, if anything.
Outcome(d) ==
  \/ call'[d] = call[d]
  \/ call[d].stage # "idle" /\ call'[d] = Refusal
  \/ TellsWorld(d) \/ Captures(d) \/ Begins(d) \/ Forks(d) \/ Evaluates(d) \/ Results(d)

\* Every step of the service has one of these outcomes for every client.
LEMMA Outcomes ==
  ASSUME Types, Dates, NEW c \in Clients, Serve(c) \/ LoseReply(c)
  PROVE  \A d \in Clients : Outcome(d)
<1>0. call \in [Clients -> Call]
  BY DEF Types, SimTypeOK
<1>1. ASSUME NEW outcome, Settle(c, outcome) PROVE call'[c] = outcome /\ \A d \in Clients : d # c =>
             call'[d] = call[d]
  BY <1>0, <1>1 DEF Settle
<1>2. \A d \in Clients : d # c => call'[d] = call[d]
  <2>1. \E outcome : Settle(c, outcome)
    BY DEF Serve, LoseReply, Look, Reset, Invalidate, Capture, Delete, ForkBegins, ForkEnds, EvaluateBegins,
       EvaluateEnds,
       BranchBegins, BranchEnds
  <2> QED
    BY <1>1, <2>1
<1> SUFFICES Outcome(c)
  BY <1>2 DEF Outcome
<1>3. ASSUME Settle(c, Refusal), call[c].stage # "idle" PROVE Outcome(c)
  BY <1>1, <1>3 DEF Outcome
<1>4. CASE Look(c)
  <2>1. call'[c] = Tell(world, NoHandle) /\ world' = world
    BY <1>1, <1>4 DEF Look
  <2> QED
    BY <1>4, <2>1 DEF Look, Asked, TellsWorld, Outcome
<1>5. CASE Reset(c)
  <2>1. CASE Expected(call[c].request)
    <3>1. Settle(c, Tell(world', NoHandle)) /\ world'.episode = episodes + 1
      BY <1>5, <2>1 DEF Reset, ReplaceWorld, NewWorld
    <3>2. world.episode < world'.episode
      BY <3>1 DEF Types, SimTypeOK, World, Dates
    <3> QED
      BY <1>1, <1>5, <3>1, <3>2 DEF Reset, Asked, TellsWorld, Outcome
  <2>2. CASE ~Expected(call[c].request)
    BY <1>3, <1>5, <2>2 DEF Reset, Asked
  <2> QED
    BY <2>1, <2>2
<1>6. CASE Invalidate(c)
  BY <1>1, <1>6 DEF Invalidate, Asked, TellsWorld, Outcome
<1>7. CASE Capture(c)
  BY <1>1, <1>7 DEF Capture, Captures, Outcome
<1>8. CASE Delete(c)
  <2>1. call'[c] = Tell(world, NoHandle) /\ world' = world /\ call[c].request.branch \notin DOMAIN branches'
    BY <1>1, <1>8 DEF Delete
  <2> QED
    BY <1>8, <2>1 DEF Delete, Asked, TellsWorld, Outcome
<1>9. CASE ForkBegins(c) \/ EvaluateBegins(c)
  <2>1. call[c].stage = "asked" /\ call[c].request.op \in {"fork", "evaluate"} /\ UNCHANGED <<world,
        checkpoints, branches, handles>>
    BY <1>9 DEF ForkBegins, EvaluateBegins, Asked
  <2>2. \/ Settle(c, Refusal)
        \/ Forkable(call[c].request) /\ Settle(c, Work(call[c].request, ForkOf(call[c].request)))
    BY <1>9 DEF ForkBegins, EvaluateBegins
  <2>3. CASE Settle(c, Refusal)
    BY <1>3, <2>1, <2>3
  <2>4. CASE Forkable(call[c].request) /\ Settle(c, Work(call[c].request, ForkOf(call[c].request)))
    BY <1>1, <2>1, <2>4 DEF Begins, Outcome
  <2> QED
    BY <2>2, <2>3, <2>4
<1>10. CASE ForkEnds(c)
  <2>1. Working(c, "fork") /\ call[c].stage # "idle"
    BY <1>10 DEF ForkEnds, Working
  <2>2. CASE Admitted(call[c].branch)
    <3>1. /\ Settle(c, Answer([about |-> call[c].branch, handle |-> handles + 1, passed |-> FALSE]))
          /\ branches' = [b \in DOMAIN branches \cup {handles + 1} |-> IF b = handles + 1 THEN call[c].branch ELSE branches[b]]
          /\ handles' = handles + 1 /\ world' = world
      BY <1>10, <2>2 DEF ForkEnds
    <3>2. handles + 1 \in DOMAIN branches' /\ branches'[handles + 1] = call[c].branch
      BY <3>1
    <3> QED
      BY <1>1, <2>1, <3>1, <3>2 DEF Forks, Outcome
  <2>3. CASE ~Admitted(call[c].branch)
    BY <1>3, <1>10, <2>1, <2>3 DEF ForkEnds
  <2> QED
    BY <2>2, <2>3
<1>11. CASE EvaluateEnds(c)
  <2>1. Working(c, "evaluate") /\ call[c].stage # "idle" /\ world' = world
    BY <1>11 DEF EvaluateEnds, Working
  <2>2. PICK passed \in BOOLEAN : Settle(c, EvaluateOutcome(call[c].branch, passed))
    BY <1>11 DEF EvaluateEnds
  <2>3. \/ EvaluateOutcome(call[c].branch, passed) = Refusal
        \/ EvaluateOutcome(call[c].branch, passed)
             = Answer([about |-> call[c].branch, handle |-> call[c].branch.origin, passed |-> passed])
    BY DEF EvaluateOutcome
  <2> QED
    BY <1>1, <1>3, <2>1, <2>2, <2>3 DEF Evaluates, Outcome
<1>12. CASE BranchBegins(c)
  <2>1. call[c].stage = "asked" /\ call[c].request.op \in {"step", "result"} /\ UNCHANGED <<world,
        checkpoints, branches, handles>>
    BY <1>12 DEF BranchBegins, Asked
  <2>2. \/ Settle(c, Refusal)
        \/ Gettable(call[c].request.branch) /\ Settle(c, Work(call[c].request, branches[call[c].request.branch]))
    BY <1>12 DEF BranchBegins
  <2>3. CASE Settle(c, Refusal)
    BY <1>3, <2>1, <2>3
  <2>4. CASE Gettable(call[c].request.branch) /\ Settle(c, Work(call[c].request, branches[call[c].request.branch]))
    BY <1>1, <2>1, <2>4 DEF Begins, Outcome
  <2> QED
    BY <2>2, <2>3, <2>4
<1>13. CASE BranchEnds(c)
  <2>1. (Working(c, "step") \/ Working(c, "result")) /\ call[c].stage # "idle" /\ UNCHANGED <<world, branches>>
    BY <1>13 DEF BranchEnds, Working
  <2>2. PICK passed \in BOOLEAN : Settle(c, BranchOutcome(call[c].request, call[c].branch, passed))
    BY <1>13 DEF BranchEnds
  <2>3. \/ BranchOutcome(call[c].request, call[c].branch, passed) = Refusal
        \/ /\ Gettable(call[c].request.branch)
           /\ BranchOutcome(call[c].request, call[c].branch, passed)
                = Answer([about |-> call[c].branch, handle |-> call[c].request.branch, passed |-> passed])
    BY DEF BranchOutcome
  <2> QED
    BY <1>1, <1>3, <2>1, <2>2, <2>3 DEF Results, Outcome
<1>14. CASE LoseReply(c)
  BY <1>3, <1>14 DEF LoseReply
<1> QED
  BY <1>4, <1>5, <1>6, <1>7, <1>8, <1>9, <1>10, <1>11, <1>12, <1>13, <1>14 DEF Serve

LEMMA RestartOutcomes ==
  ASSUME Restart
  PROVE  \A d \in Clients : Outcome(d)
BY DEF Restart, Restarted, Outcome

-----------------------------------------------------------------------------
(* The dates are kept.                                                     *)

\* What Types says of branches and worlds.
LEMMA BranchTypes ==
  ASSUME Types
  PROVE  /\ \A b \in DOMAIN branches : branches[b] \in Branch
         /\ \A c \in Clients : call[c].stage = "working" => call[c].branch \in Branch
         /\ \A k \in 1..Len(checkpoints) : checkpoints[k].world \in World
         /\ world \in World
         /\ \A w \in Branch \cup World : w.episode \in Nat /\ w.epoch \in Nat
<1>1. \A c \in Clients : call[c].stage = "working" => call[c].branch \in Branch
  BY OutcomeTypes DEF Types
<1>2. \A w \in Branch \cup World : w.episode \in Nat /\ w.epoch \in Nat
  BY DEF Branch, World
<1> QED
  BY <1>1, <1>2, KeptCheckpoints DEF Types, SimTypeOK

LEMMA TypesGiveWorlds ==
  ASSUME Types, Types'
  PROVE  WorldTypes
BY DEF Types, SimTypeOK, World, WorldTypes

\* The live world, what is forked of it, and what is worked on.
LEMMA LiveIsDated ==
  ASSUME Types
  PROVE  Dated(world, world)
BY DEF Types, SimTypeOK, World, Dated, AtOrPast

LEMMA ForkIsDated ==
  ASSUME Types, Dates, NEW r \in Request, r.op \in {"fork", "evaluate"}, Forkable(r)
  PROVE  Dated(ForkOf(r), world)
<1>1. world.episode \in Nat /\ 1 <= world.episode /\ Dated(world, world)
  BY LiveIsDated DEF Types, SimTypeOK, World, Dates
<1>2. CASE r.scene \in Scenes /\ ForkOf(r) = Copy(NewWorld(r.scene, world.epoch, OwnEpisode), NoHandle)
  BY <1>1, <1>2 DEF Copy, NewWorld, OwnEpisode, Dated, AtOrPast
<1>3. CASE ForkOf(r) = Copy(world, NoHandle)
  BY <1>1, <1>3 DEF Copy, Dated, AtOrPast
<1>4. CASE \E k \in 1..Len(checkpoints) : checkpoints[k].world \in World /\
           ForkOf(r) = Copy(checkpoints[k].world, r.checkpoint)
  BY <1>4 DEF Copy, Dated, AtOrPast, Dates
<1> QED
  BY <1>2, <1>3, <1>4, ForkOfCases DEF Types

LEMMA WorkIsDated ==
  ASSUME Types, Types', Dates, WorldMoves, [SimNext]_simVars, NEW d \in Clients, call'[d].stage = "working"
  PROVE  Dated(call'[d].branch, world')
<1>0. WorldTypes /\ call \in [Clients -> Call]
  BY TypesGiveWorlds DEF Types, SimTypeOK
<1>1. CASE Outcome(d)
  <2>1. CASE call'[d] = call[d]
    <3>1. Dated(call[d].branch, world) /\ call[d].branch.episode \in Nat /\ call[d].branch.epoch \in Nat
      BY <2>1, BranchTypes DEF Dates
    <3> QED
      BY <1>0, <2>1, <3>1, DatedMoves
  <2>2. CASE Begins(d)
    <3>1. call[d].request \in Request /\ world' = world
      BY <2>2, OutcomeTypes DEF Begins, Types
    <3>2. CASE call[d].request.op \in {"fork", "evaluate"} /\ Forkable(call[d].request)
               /\ call'[d] = Work(call[d].request, ForkOf(call[d].request))
      BY <3>1, <3>2, ForkIsDated, StagesOfCalls
    <3>3. CASE Gettable(call[d].request.branch) /\ call'[d] = Work(call[d].request, branches[call[d].request.branch])
      BY <3>1, <3>3, StagesOfCalls DEF Dates, Gettable
    <3> QED
      BY <2>2, <3>2, <3>3 DEF Begins
  <2>3. call'[d] # Refusal /\ ~TellsWorld(d) /\ ~Captures(d) /\ ~Forks(d) /\ ~Evaluates(d) /\ ~Results(d)
    <3>1. call'[d] # Refusal /\ ~TellsWorld(d) /\ ~Captures(d)
      BY StagesOfCalls DEF TellsWorld, Captures
    <3>2. \A reply : call'[d] # Answer(reply)
      BY StagesOfCalls
    <3> QED
      BY <3>1, <3>2 DEF Forks, Evaluates, Results
  <2> QED
    BY <1>1, <2>1, <2>2, <2>3 DEF Outcome
<1>2. CASE \E c \in Clients : Send(c) \/ Forget(c)
  <2>1. PICK c \in Clients : Send(c) \/ Forget(c)
    BY <1>2
  <2>2. \E outcome : Settle(c, outcome) /\ outcome.stage # "working"
    BY <2>1, StagesOfCalls DEF Send, Forget, SendRequest
  <2>3. call'[d] = call[d]
    BY <1>0, <2>2 DEF Settle
  <2> QED
    BY <1>1, <2>3 DEF Outcome
<1>3. CASE UNCHANGED simVars
  BY <1>1, <1>3 DEF Outcome, simVars
<1> QED
  BY <1>1, <1>2, <1>3, Outcomes, RestartOutcomes DEF SimNext

\* Every step keeps the dates.
LEMMA DatesStep ==
  ASSUME Types, Types', Dates, [SimNext]_simVars
  PROVE  Dates'
<1>1. SimFrame /\ WorldMoves /\ EpisodesMove /\ WorldTypes
  BY NextFrame, TypesGiveWorlds DEF SimFrame
<1>2. 1 <= world'.episode /\ world'.episode <= episodes'
  BY <1>1 DEF EpisodesMove, Dates, Types, SimTypeOK, World
<1>4. ASSUME NEW k \in 1..Len(checkpoints') PROVE Dated(checkpoints'[k].world, world')
  <2>1. CASE \E j \in 1..Len(checkpoints) : checkpoints'[k] = checkpoints[j]
    <3>1. PICK j \in 1..Len(checkpoints) : checkpoints'[k] = checkpoints[j]
      BY <2>1
    <3>2. /\ checkpoints[j].world.episode \in Nat /\ checkpoints[j].world.epoch \in Nat
          /\ Dated(checkpoints[j].world, world)
      BY BranchTypes DEF Dates
    <3>3. Dated(checkpoints[j].world, world')
      BY <1>1, <3>2, DatedMoves
    <3> QED
      BY <3>1, <3>3
  <2>2. CASE checkpoints'[k].world = world /\ world' = world
    BY <2>2, LiveIsDated
  <2> QED
    BY <1>1, <2>1, <2>2 DEF SimFrame
<1>5. ASSUME NEW b \in DOMAIN branches' PROVE Dated(branches'[b], world')
  BY <1>1, <1>5 DEF SimFrame, Dates, Working
<1>6. \A d \in Clients : call'[d].stage = "working" => Dated(call'[d].branch, world')
  BY <1>1, WorkIsDated
<1> QED
  BY <1>2, <1>4, <1>5, <1>6 DEF Dates

LEMMA InitDates == SimInit => Dates
BY StagesOfCalls DEF SimInit, Dates, NewWorld, NoBranches

\* The invariant so far.
Sound == Base /\ Dates

\* Every step keeps the invariant so far.
LEMMA SoundStep ==
  ASSUME Sound, [Next]_vars
  PROVE  Sound' /\ SimFrame /\ WorldTypes /\ [SimNext]_simVars /\ WorldMoves
<1>1. Base' /\ [SimNext]_simVars
  BY BaseStep, NextIsSimStep DEF Sound
<1>2. Types /\ Types'
  BY <1>1 DEF Sound, Base, Coherent
<1> QED
  BY <1>1, <1>2, DatesStep, NextFrame, TypesGiveWorlds DEF Sound, SimFrame

LEMMA SoundAlways == Spec => []Sound
<1>1. GatewayInit => Sound
  BY InitBase, InitDates DEF Sound, GatewayInit
<1>2. Sound /\ [Next]_vars => Sound'
  BY SoundStep
<1> QED
  BY <1>1, <1>2, PTL DEF Spec

\* The steps of the workbench, as far as the service is concerned: a handler
\* moves, or the service does something, or the operator does.
HandlerMoves(h) == Steps(h) /\ UNCHANGED serverVars

\* The service moves and the gateway does not.
ServiceMoves ==
  /\ \A d \in Handlers : Outcome(d)
  /\ UNCHANGED gatewayVars

\* A step is one of a handler, of the service, or an abort by the operator.
LEMMA NextCases ==
  ASSUME Sound, [Next]_vars
  PROVE  \/ \E h \in Handlers : /\ Good(h) /\ UNCHANGED lost
                                /\ \/ (StartRequest(h) \/ JobStep(h) \/ EditStep(h)) /\ UNCHANGED edited
                                   \/ ConfirmEdit(h) /\ edited' = Told(h).episode
         \/ ServiceMoves /\ UNCHANGED edited
         \/ Cancel /\ UNCHANGED edited /\ UNCHANGED lost
<1>0. Base /\ Dates /\ Types /\ SimTypeOK /\ Handlers \subseteq Clients
  BY GatewayAssumption DEF Sound, Base, Coherent, Types
<1>1. CASE BrowserStep
  BY <1>0, <1>1, StepsAreGood DEF BrowserStep, Steps, history
<1>2. CASE HandlerStep
  BY <1>0, <1>2, StepsAreGood DEF HandlerStep, Steps, history
<1>3. CASE ServiceStep
  BY <1>0, <1>3, Outcomes DEF ServiceStep, ServiceMoves
<1>4. CASE Disturb
  <2>1. CASE Cancel /\ UNCHANGED history
    BY <2>1 DEF history
  <2>2. CASE (\E request \in OperatorRequests : SendRequest(Operator, request)) /\ UNCHANGED <<gatewayVars, history>>
    <3>1. \A d \in Handlers : call'[d] = call[d]
      BY <1>0, <2>2, GatewayAssumption DEF SendRequest, Settle, SimTypeOK
    <3> QED
      BY <2>2, <3>1 DEF Outcome, ServiceMoves, history
  <2>3. CASE (\E h \in Handlers : LoseReply(h)) /\ UNCHANGED <<gatewayVars, edited>>
    BY <1>0, <2>3, Outcomes DEF ServiceMoves
  <2>4. CASE Restart /\ UNCHANGED <<gatewayVars, edited>>
    BY <1>0, <2>4, RestartOutcomes DEF ServiceMoves
  <2> QED
    BY <1>4, <2>1, <2>2, <2>3, <2>4 DEF Disturb
<1>5. CASE UNCHANGED vars
  BY <1>5 DEF vars, ServiceMoves, Outcome, simVars, history
<1> QED
  BY <1>1, <1>2, <1>3, <1>4, <1>5 DEF Next

\* What a step of handler h leaves alone.
LEMMA GoodMoveFrame ==
  ASSUME Base, NEW h \in Handlers, Good(h)
  PROVE  /\ UNCHANGED serverVars
         /\ \A d \in Handlers : d # h => handler'[d] = handler[d] /\ call'[d] = call[d]
         /\ handler'[h] \in Locals /\ StageOK(handler'[h]) /\ (InJob(handler'[h]) => job' = h)
         /\ call'[h] = Idle \/ \E r \in Request : call'[h] = Ask(r)
<1>1. PICK l \in Locals, x \in Call :
        /\ Moves(h, l, x) /\ ControlOK(h, l, x, Len(artifacts'), job')
        /\ x = Idle \/ \E r \in Request : x = Ask(r)
  BY DEF Good, GoodMove
<1>2. h \in Clients /\ Handlers \subseteq Clients /\ call \in [Clients -> Call] /\ handler \in [Handlers -> Locals]
  BY GatewayAssumption DEF Base, Coherent, Types, SimTypeOK
<1>3. handler'[h] = l /\ call'[h] = x /\ UNCHANGED serverVars
      /\ \A d \in Handlers : d # h => handler'[d] = handler[d] /\ call'[d] = call[d]
  BY <1>1, <1>2 DEF Moves
<1> QED
  BY <1>1, <1>3 DEF ControlOK

-----------------------------------------------------------------------------
(* No stale capture.                                                       *)

\* The steps of a search, and those at which it holds something read.
SearchStep(h) ==
  \/ SearchOriginal(h) \/ SearchReset(h) \/ SearchReread(h) \/ SearchCaptured(h)
  \/ SearchEvaluated(h) \/ SearchRecorded(h) \/ SearchThrows(h)

CaptureStages == {"evaluating", "recording"}
SearchStages == {"rereading", "capturing"} \cup CaptureStages

\* A step arrives where only a search, or a finished held-out run, arrives.
Elsewhere(h) ==
  handler'[h].at \notin SearchStages /\ (handler'[h].at = "responding" => HeldOutReturns(h))

\* Where the steps other than those of a search lead.
LEMMA MeasureArrivals ==
  ASSUME Base, NEW h \in Handlers, NEW l, "at" \in DOMAIN l, CleanUp(h, l) \/ MeasureLoop(h, l)
  PROVE  handler'[h].at \in MeasureStages
<1>0. handler \in [Handlers -> Locals]
  BY DEF Base
<1>1. ASSUME CleanUp(h, l) PROVE handler'[h].at \in MeasureStages
  BY <1>0, <1>1 DEF CleanUp, Await, Continue, MeasureStages
<1> QED
  BY <1>0, <1>1 DEF MeasureLoop, Await, MeasureStages

LEMMA PlainArrivals ==
  ASSUME Base, NEW h \in Handlers, NEW l, "at" \in DOMAIN l, NextHeldOut(h, l) \/ NextTurn(h, l) \/ End(h)
  PROVE  Elsewhere(h)
<1>0. handler \in [Handlers -> Locals]
  BY DEF Base
<1>1. ASSUME End(h) PROVE Elsewhere(h)
  BY <1>0, <1>1 DEF End, Continue, Quiet, Elsewhere, SearchStages, CaptureStages
<1>2. ASSUME NextTurn(h, l) PROVE Elsewhere(h)
  BY <1>0, <1>2 DEF NextTurn, Continue, Elsewhere, SearchStages, CaptureStages
<1>3. ASSUME NextHeldOut(h, l) PROVE Elsewhere(h)
  BY <1>0, <1>3 DEF NextHeldOut, Await, Elsewhere, SearchStages, CaptureStages
<1> QED
  BY <1>1, <1>2, <1>3

LEMMA OtherArrivals ==
  ASSUME Base, NEW h \in Handlers, Steps(h), ~SearchStep(h)
  PROVE  Elsewhere(h)
<1>0. handler \in [Handlers -> Locals] /\ "at" \in DOMAIN handler[h] /\ "at" \in DOMAIN Quiet
  BY DEF Base, Locals, Quiet
<1> USE <1>0 DEF Await, Continue, Quiet
<1>1. ASSUME StartSearch(h) PROVE Elsewhere(h)
  BY <1>1 DEF StartSearch, Elsewhere, SearchStages, CaptureStages
<1>2. ASSUME StartRepair(h) PROVE Elsewhere(h)
  BY <1>2 DEF StartRepair, Elsewhere, SearchStages, CaptureStages
<1>3. ASSUME EditStep(h) PROVE Elsewhere(h)
  BY <1>3 DEF EditStep, ApplyEdit, RefuseEdit, ConfirmCalibration, End, Elsewhere, SearchStages, CaptureStages
<1>4. ASSUME ConfirmEdit(h) PROVE Elsewhere(h)
  BY <1>4 DEF ConfirmEdit, End, Elsewhere, SearchStages, CaptureStages
<1>5. ASSUME Cleaned(h) PROVE Elsewhere(h)
  BY <1>5 DEF Cleaned, Elsewhere, SearchStages, CaptureStages
<1>6. ASSUME Refuse(h) PROVE Elsewhere(h)
  BY <1>6 DEF Refuse, End, Elsewhere, SearchStages, CaptureStages
<1>7. ASSUME BeginRepair(h) PROVE Elsewhere(h)
  <2>1. CASE End(h)
    BY <1>0, <2>1, PlainArrivals
  <2>2. CASE Continue(h, [handler[h] EXCEPT !.at = "thinking", !.context = failure,
             !.artifact = Len(artifacts) + 1, !.count = 1])
    BY <2>2 DEF Elsewhere, SearchStages, CaptureStages
  <2> QED
    BY <1>7, <2>1, <2>2 DEF BeginRepair
<1>8. ASSUME Inspect(h) PROVE Elsewhere(h)
  BY <1>8 DEF Inspect, NextTurn, Elsewhere, SearchStages, CaptureStages
<1>9. ASSUME RepairMeasured(h) PROVE Elsewhere(h)
  <2> DEFINE l == [handler[h] EXCEPT !.measured = @ \cup ({handler[h].result} \ {None}),
                                     !.result = None, !.branch = NoHandle, !.steps = 0]
  <2>1. "at" \in DOMAIN l /\ ((\E r : Await(h, [l EXCEPT !.at = "live"], r)) \/ NextTurn(h, l) \/ End(h))
    BY <1>9 DEF RepairMeasured, EndJob
  <2> HIDE DEF l
  <2>2. CASE \E r : Await(h, [l EXCEPT !.at = "live"], r)
    BY <2>1, <2>2 DEF Elsewhere, SearchStages, CaptureStages
  <2> QED
    BY <2>1, <2>2, PlainArrivals
<1>10. ASSUME Promote(h) PROVE Elsewhere(h)
  BY <1>10 DEF Promote, Elsewhere, SearchStages, CaptureStages
<1>11. ASSUME Promoted(h) PROVE Elsewhere(h)
  BY <1>11 DEF Promoted, EndJob, End, Elsewhere, SearchStages, CaptureStages
<1>12. ASSUME RepairThrows(h) PROVE Elsewhere(h)
  BY <1>12 DEF RepairThrows, EndJob, End, Elsewhere, SearchStages, CaptureStages
<1>13. ASSUME BeginReplay(h) PROVE Elsewhere(h)
  BY <1>13 DEF BeginReplay, Measure, Elsewhere, SearchStages, CaptureStages
<1>14. ASSUME Replayed(h) PROVE Elsewhere(h)
  BY <1>14 DEF Replayed, EndJob, End, Elsewhere, SearchStages, CaptureStages
<1>15. ASSUME BeginHeldOut(h) PROVE Elsewhere(h)
  BY <1>15 DEF BeginHeldOut, Elsewhere, SearchStages, CaptureStages
<1>16. ASSUME HeldOutTemplate(h) PROVE Elsewhere(h)
  BY <1>16 DEF HeldOutTemplate, NextHeldOut, Elsewhere, SearchStages, CaptureStages
<1>17. ASSUME HeldOutRechecked(h) PROVE Elsewhere(h)
  BY <1>17 DEF HeldOutRechecked, Elsewhere, SearchStages, CaptureStages
<1>18. ASSUME HeldOutSampled(h) PROVE Elsewhere(h)
  BY <1>18 DEF HeldOutSampled, Measure, Elsewhere, SearchStages, CaptureStages
<1>19. ASSUME HeldOutMeasured(h) PROVE Elsewhere(h)
  <2> DEFINE l == [handler[h] EXCEPT !.measured = @ \cup {handler[h].result}, !.result = None,
             !.branch = NoHandle, !.steps = 0]
  <2>1. "at" \in DOMAIN l /\ NextHeldOut(h, l)
    BY <1>19 DEF HeldOutMeasured
  <2> HIDE DEF l
  <2> QED
    BY <2>1, PlainArrivals
<1>20. ASSUME HeldOutReturns(h) PROVE Elsewhere(h)
  BY <1>20 DEF HeldOutReturns, Elsewhere, SearchStages, CaptureStages
<1>21. ASSUME HeldOutResponds(h) PROVE Elsewhere(h)
  BY <1>21 DEF HeldOutResponds, End, Elsewhere, SearchStages, CaptureStages
<1>22. ASSUME HeldOutThrows(h) PROVE Elsewhere(h)
  BY <1>22 DEF HeldOutThrows, EndJob, End, Elsewhere, SearchStages, CaptureStages
<1>23. ASSUME NEW kind, Select(h, kind) PROVE Elsewhere(h)
  BY <1>23 DEF Select, Elsewhere, SearchStages, CaptureStages
<1>24. ASSUME NEW kind, NEW o, StartEdit(h, kind, o) PROVE Elsewhere(h)
  BY <1>24 DEF StartEdit, Elsewhere, SearchStages, CaptureStages
<1>25. ASSUME NEW f, StartCalibrate(h, f) PROVE Elsewhere(h)
  BY <1>25 DEF StartCalibrate, Elsewhere, SearchStages, CaptureStages
<1>26. ASSUME NEW source, NEW submit, Candidate(h, source, submit) PROVE Elsewhere(h)
  BY <1>26 DEF Candidate, Measure, NextTurn, Elsewhere, SearchStages, CaptureStages
<1>27. ASSUME Forked(h) \/ Stepped(h) \/ MeasureResult(h) \/ MeasureThrows(h) PROVE Elsewhere(h)
  BY <1>27, MeasureArrivals DEF Forked, Stepped, MeasureResult, MeasureThrows, MeasureStages, Elsewhere,
     SearchStages, CaptureStages
<1> QED
  BY <1>1, <1>2, <1>3, <1>4, <1>5, <1>6, <1>7, <1>8, <1>9, <1>10, <1>11, <1>12, <1>13, <1>14, <1>15, <1>16,
     <1>17, <1>18, <1>19, <1>20, <1>21, <1>22, <1>23, <1>24, <1>25, <1>26, <1>27 DEF Steps, StartRequest,
        JobStep, SearchStep

\* How the abort signal may change under a job that handler h does not run.
AbortMoves(h) == aborted' = aborted \/ job \in {None, h} \/ aborted' = (job # None)

\* Only a search captures a failure.
LEMMA OtherShared ==
  ASSUME Base, NEW h \in Handlers, Steps(h), ~SearchStep(h)
  PROVE  failure' \in {failure, None}
<1>1. CASE StartRequest(h)
  BY <1>1 DEF StartRequest, StartSearch, StartRepair, Select, StartEdit, StartCalibrate, DropEvidence, gatewayRest
<1>2. CASE EditStep(h) \/ ConfirmEdit(h)
  BY <1>2 DEF EditStep, ApplyEdit, RefuseEdit, ConfirmCalibration, ConfirmEdit, DropEvidence, gatewayRest
<1>3. CASE JobStep(h)
  BY <1>3 DEF JobStep, SearchStep, Forked, Stepped, MeasureResult, MeasureThrows, Cleaned, Refuse,
     BeginRepair, Inspect, Candidate,
     RepairMeasured, Promote, Promoted, RepairThrows, BeginReplay, Replayed, BeginHeldOut, HeldOutTemplate,
        HeldOutRechecked,
     HeldOutSampled, HeldOutMeasured, HeldOutReturns, HeldOutResponds, HeldOutThrows, gatewayRest, repairKeeps
<1> QED
  BY <1>1, <1>2, <1>3 DEF Steps

\* Only the end of a job, or a new one, takes back an abort.
LEMMA AbortsMove ==
  ASSUME Base, NEW h \in Handlers, Steps(h)
  PROVE  AbortMoves(h)
<1>0. InJob(handler[h]) => job = h
  BY HandlerFacts DEF ControlOK
<1>1. CASE StartRequest(h)
  BY <1>1 DEF StartRequest, StartSearch, StartRepair, Select, StartEdit, StartCalibrate, DropEvidence, Abort,
     Acquire, gatewayRest, AbortMoves
<1>2. CASE EditStep(h) \/ ConfirmEdit(h)
  BY <1>2 DEF EditStep, ApplyEdit, RefuseEdit, ConfirmCalibration, ConfirmEdit, DropEvidence, Abort,
     gatewayRest, AbortMoves
<1>3. CASE SearchStep(h)
  BY <1>0, <1>3 DEF SearchStep, SearchOriginal, SearchReset, SearchReread, SearchCaptured, SearchEvaluated,
     SearchRecorded, SearchThrows,
     At, InJob, AbortMoves
<1>4. CASE Forked(h) \/ Stepped(h) \/ MeasureResult(h) \/ MeasureThrows(h) \/ Cleaned(h) \/ Refuse(h) \/ Inspect(h)
           \/ HeldOutTemplate(h) \/ HeldOutRechecked(h) \/ HeldOutSampled(h) \/ HeldOutMeasured(h) \/ HeldOutResponds(h)
  BY <1>4 DEF Forked, Stepped, MeasureResult, MeasureThrows, Cleaned, Refuse, Inspect, HeldOutTemplate,
     HeldOutRechecked,
     HeldOutSampled, HeldOutMeasured, HeldOutResponds, gatewayRest, AbortMoves
<1>5. CASE BeginRepair(h) \/ BeginReplay(h) \/ BeginHeldOut(h)
  BY <1>5 DEF BeginRepair, BeginReplay, BeginHeldOut, Acquire, AbortMoves
<1>6. CASE (\E source \in Sources, submit \in BOOLEAN : Candidate(h, source, submit)) \/ Promote(h)
  BY <1>6 DEF Candidate, Promote, AbortMoves
<1>7. CASE RepairMeasured(h) \/ Promoted(h) \/ RepairThrows(h) \/ Replayed(h) \/ HeldOutReturns(h) \/ HeldOutThrows(h)
  <2>1. InJob(handler[h])
    BY <1>7 DEF RepairMeasured, Promoted, RepairThrows, Replayed, HeldOutReturns, HeldOutThrows, At, InJob
  <2> QED
    BY <1>0, <2>1 DEF AbortMoves
<1> QED
  BY <1>1, <1>2, <1>3, <1>4, <1>5, <1>6, <1>7 DEF Steps, JobStep, SearchStep

\* What a handler holds is no older than the last confirmed edit, unless its
\* search is aborted; and a confirmation is of the live episode or an older one.
Fresh(h) ==
  /\ handler[h].at = "applying" /\ Answered(h) => Told(h).episode \in Nat /\ Told(h).episode <= world.episode
  /\ handler[h].kind = "search" /\ ~aborted =>
       /\ handler[h].at = "capturing" /\ Answered(h) => edited <= Told(h).episode
       /\ handler[h].at \in CaptureStages => edited <= handler[h].context.episode

\* The inductive invariant of NoStaleCapture.
FreshInv ==
  /\ edited \in Nat /\ edited <= world.episode
  /\ NoStaleCapture
  /\ \A h \in Handlers : Fresh(h)

\* What Tell tells.
LEMMA TellEpisode ==
  ASSUME NEW w, NEW handle
  PROVE  /\ Tell(w, handle).stage = "answered" /\ Tell(w, handle).reply.handle = handle
         /\ Tell(w, handle).reply.about.episode = w.episode /\ Tell(w, handle).reply.about.epoch = w.epoch
         /\ Tell(w, handle).reply.about.scene = w.scene /\ Tell(w, handle).reply.about.origin = NoHandle
BY DEF Tell, Answer, Copy

\* Only the requests a handler can have sent are answered.
LEMMA OutcomeOfRequest ==
  ASSUME Base, NEW d \in Handlers, Outcome(d), call'[d] # call[d], call'[d].stage = "answered"
  PROVE  /\ Pending(call[d]) /\ RequestOK(handler[d], call[d].request)
         /\ handler[d].at \in {"applying", "resetting", "sampling", "original", "rereading", "template",
            "editing", "origin",
                               "live", "rechecking", "final", "deleting"} => TellsWorld(d)
         /\ handler[d].at = "capturing" => Captures(d)
         /\ handler[d].at = "forking" => Forks(d)
         /\ handler[d].at = "evaluating" => Evaluates(d)
         /\ handler[d].at \in {"stepping", "resulting"} => Results(d)
<1>1. Pending(call[d]) /\ (TellsWorld(d) \/ Captures(d) \/ Forks(d) \/ Evaluates(d) \/ Results(d))
  BY StagesOfCalls DEF Outcome, TellsWorld, Captures, Begins, Forks, Evaluates, Results, Pending, Asked, Working
<1>2. RequestOK(handler[d], call[d].request)
  BY <1>1, HandlerFacts DEF ControlOK
<1> QED
  BY <1>1, <1>2 DEF RequestOK, TellsWorld, Captures, Forks, Evaluates, Results, Asked, Working

\* The service keeps it, and so does every handler.
LEMMA FreshUnderService ==
  ASSUME Sound, FreshInv, ServiceMoves, UNCHANGED edited, WorldMoves, WorldTypes
  PROVE  FreshInv'
<1>0. Base /\ UNCHANGED <<handler, failure, aborted>> /\ world.episode <= world'.episode
  BY DEF Sound, ServiceMoves, gatewayVars, gatewayRest, WorldMoves, WorldTypes
<1>1. edited' \in Nat /\ edited' <= world'.episode /\ NoStaleCapture'
  BY <1>0 DEF FreshInv, NoStaleCapture, WorldTypes
<1>2. ASSUME NEW d \in Handlers PROVE Fresh(d)'
  <2>1. Fresh(d) /\ Outcome(d)
    BY DEF FreshInv, ServiceMoves
  <2>2. CASE call'[d] = call[d]
    BY <1>0, <2>1, <2>2 DEF Fresh, Answered, Told, WorldTypes
  <2>3. CASE call'[d] # call[d] /\ call'[d].stage = "answered"
    <3>1. CASE handler[d].at = "applying"
      <4>1. call'[d] = Tell(world', NoHandle)
        BY <1>0, <2>1, <2>3, <3>1, OutcomeOfRequest DEF TellsWorld
      <4>2. call'[d].reply.about.episode \in Nat /\ call'[d].reply.about.episode <= world'.episode
        BY <4>1, TellEpisode DEF WorldTypes
      <4> QED
        BY <1>0, <3>1, <4>2 DEF Fresh, Told, CaptureStages
    <3>2. CASE handler[d].at = "capturing"
      <4>1. call'[d] = Tell(world, handles + 1)
        BY <1>0, <2>1, <2>3, <3>2, OutcomeOfRequest DEF Captures
      <4>2. edited <= call'[d].reply.about.episode
        BY <4>1, TellEpisode DEF FreshInv
      <4> QED
        BY <1>0, <3>2, <4>2 DEF Fresh, Told, CaptureStages
    <3>3. CASE handler[d].at \notin {"applying", "capturing"}
      BY <1>0, <2>1, <3>3 DEF Fresh
    <3> QED
      BY <3>1, <3>2, <3>3
  <2>4. CASE call'[d] # call[d] /\ call'[d].stage # "answered"
    BY <1>0, <2>1, <2>4 DEF Fresh, Answered
  <2> QED
    BY <2>2, <2>3, <2>4
<1> QED
  BY <1>1, <1>2 DEF FreshInv

\* A search keeps what it captured.
LEMMA SearchArrivals ==
  ASSUME Base, NEW h \in Handlers, SearchStep(h), handler'[h].at \in CaptureStages
  PROVE  /\ aborted' = aborted
         /\ \/ At(h, "search", "capturing") /\ Answered(h) /\ handler'[h].context.episode = Told(h).episode
            \/ At(h, "search", "evaluating") /\ handler'[h].context = handler[h].context
<1>0. handler \in [Handlers -> Locals] /\ "at" \in DOMAIN handler[h] /\ "context" \in DOMAIN handler[h]
  BY DEF Base, Locals
<1>1. ASSUME NEW l, "at" \in DOMAIN l, NextTrial(h, l) \/ EndJob(h) PROVE handler'[h].at \notin CaptureStages
  <2>1. CASE EndJob(h)
    BY <1>0, <2>1 DEF EndJob, End, Continue, Quiet, CaptureStages
  <2>2. CASE \E s \in TrialScenes(l.scene, l.count) : Await(h, [l EXCEPT !.at = "resetting"], ResetTo(s,
             Anything, Anything))
    BY <1>0, <1>1, <2>2 DEF Await, CaptureStages
  <2> QED
    BY <1>1, <2>1, <2>2 DEF NextTrial
<1>2. CASE SearchOriginal(h)
  <2>1. "at" \in DOMAIN [handler[h] EXCEPT !.scene = Told(h).scene, !.count = 1]
    BY <1>0
  <2> QED
    BY <1>1, <1>2, <2>1 DEF SearchOriginal
<1>3. CASE SearchReset(h) \/ SearchReread(h)
  BY <1>0, <1>3 DEF SearchReset, SearchReread, Await, CaptureStages
<1>4. CASE SearchCaptured(h)
  <2> DEFINE captured == [scene |-> handler[h].start, checkpoint |-> call[h].reply.handle,
                          epoch |-> Told(h).epoch, episode |-> Told(h).episode]
  <2>1. handler'[h] = [handler[h] EXCEPT !.at = "evaluating", !.context = captured]
    BY <1>0, <1>4 DEF SearchCaptured, Await
  <2>2. captured.episode = Told(h).episode
    OBVIOUS
  <2> HIDE DEF captured
  <2>3. handler'[h].context = captured
    BY <1>0, <2>1
  <2> QED
    BY <1>4, <2>2, <2>3 DEF SearchCaptured
<1>5. CASE SearchEvaluated(h)
  BY <1>0, <1>5 DEF SearchEvaluated, Continue
<1>6. CASE SearchRecorded(h)
  <2>1. CASE EndJob(h)
    BY <1>0, <1>1, <2>1
  <2>2. CASE NextTrial(h, [handler[h] EXCEPT !.count = @ + 1])
    <3>1. "at" \in DOMAIN [handler[h] EXCEPT !.count = @ + 1]
      BY <1>0
    <3> QED
      BY <1>1, <2>2, <3>1
  <2> QED
    BY <1>6, <2>1, <2>2 DEF SearchRecorded, Conclude
<1>7. CASE SearchThrows(h)
  BY <1>0, <1>1, <1>7 DEF SearchThrows
<1> QED
  BY <1>2, <1>3, <1>4, <1>5, <1>6, <1>7 DEF SearchStep

\* A search captures its failure, if any, when it is over and not aborted.
LEMMA SearchShared ==
  ASSUME Base, NEW h \in Handlers, SearchStep(h)
  PROVE  failure' = failure \/ (failure' = handler[h].context /\ ~aborted /\ At(h, "search", "recording"))
<1>1. CASE SearchOriginal(h) \/ SearchReset(h) \/ SearchReread(h) \/ SearchCaptured(h) \/ SearchEvaluated(h) \/ SearchThrows(h)
  BY <1>1 DEF SearchOriginal, SearchReset, SearchReread, SearchCaptured, SearchEvaluated, SearchThrows
<1>2. CASE SearchRecorded(h)
  BY <1>2 DEF SearchRecorded, Conclude
<1> QED
  BY <1>1, <1>2 DEF SearchStep

LEMMA FreshUnderHandler ==
  ASSUME Sound, FreshInv, NEW h \in Handlers, Good(h), Steps(h), SearchStep(h) => UNCHANGED edited,
         \/ UNCHANGED edited
         \/ edited' = Told(h).episode /\ Told(h).episode \in Nat /\ Told(h).episode <= world.episode
            /\ failure' = None /\ aborted' = (job # None)
  PROVE  FreshInv'
<1>0. Base /\ world' = world
  BY GoodMoveFrame DEF Sound, serverVars
<1>1. edited' \in Nat /\ edited' <= world'.episode
  BY <1>0 DEF FreshInv
<1>2. NoStaleCapture'
  <2>1. CASE failure' = None
    BY <2>1 DEF NoStaleCapture
  <2>2. CASE failure' = failure /\ UNCHANGED edited
    BY <2>2 DEF NoStaleCapture, FreshInv
  <2>3. CASE failure' = handler[h].context /\ ~aborted /\ At(h, "search", "recording") /\ UNCHANGED edited
    <3>1. edited <= handler[h].context.episode
      BY <2>3 DEF FreshInv, Fresh, At, CaptureStages
    <3>2. handler[h].context.episode \in Nat
      BY <1>0, <2>3, HandlerFacts DEF At, ControlOK, StageOK, MeasureStages, Ctx
    <3> QED
      BY <2>3, <3>1, <3>2 DEF NoStaleCapture, FreshInv
  <2>4. SearchStep(h) \/ failure' \in {failure, None}
    BY <1>0, OtherShared
  <2> QED
    BY <1>0, <2>1, <2>2, <2>3, <2>4, SearchShared
<1>3. ASSUME NEW d \in Handlers, d # h PROVE Fresh(d)'
  <2>1. handler'[d] = handler[d] /\ call'[d] = call[d] /\ Fresh(d)
    BY <1>0, <1>3, GoodMoveFrame DEF FreshInv
  <2>2. handler[d].kind = "search" /\ ~aborted' => ~aborted /\ UNCHANGED edited
    <3>1. SUFFICES ASSUME handler[d].kind = "search", ~aborted' PROVE ~aborted /\ UNCHANGED edited
      OBVIOUS
    <3>2. job = d /\ d # None
      BY <1>0, <3>1, HandlerFacts, GatewayAssumption DEF ControlOK, InJob
    <3> QED
      BY <1>0, <1>3, <3>1, <3>2, AbortsMove DEF AbortMoves
  <2> QED
    BY <1>0, <2>1, <2>2 DEF Fresh, Answered, Told
<1>4. Fresh(h)'
  <2>1. call'[h].stage # "answered"
    BY <1>0, GoodMoveFrame, StagesOfCalls
  <2>2. handler'[h].at \in CaptureStages /\ ~aborted' => edited' <= handler'[h].context.episode
    <3>1. SUFFICES ASSUME handler'[h].at \in CaptureStages, ~aborted' PROVE edited' <= handler'[h].context.episode
      OBVIOUS
    <3>2. SearchStep(h) /\ UNCHANGED edited
      BY <1>0, <3>1, OtherArrivals DEF Elsewhere, SearchStages
    <3>3. /\ aborted' = aborted
          /\ \/ At(h, "search", "capturing") /\ Answered(h) /\ handler'[h].context.episode = Told(h).episode
             \/ At(h, "search", "evaluating") /\ handler'[h].context = handler[h].context
      BY <1>0, <3>1, <3>2, SearchArrivals
    <3> QED
      BY <3>1, <3>2, <3>3 DEF FreshInv, Fresh, At, CaptureStages
  <2> QED
    BY <2>1, <2>2 DEF Fresh, Answered
<1> QED
  BY <1>1, <1>2, <1>3, <1>4 DEF FreshInv

\* Every step keeps it.
LEMMA FreshStep ==
  ASSUME Sound, FreshInv, [Next]_vars
  PROVE  FreshInv'
<1>0. WorldMoves /\ WorldTypes /\ Base
  BY SoundStep DEF Sound
<1>1. ASSUME NEW h \in Handlers, Good(h), StartRequest(h) \/ JobStep(h) \/ EditStep(h),
             UNCHANGED edited PROVE FreshInv'
  BY <1>1, FreshUnderHandler DEF Steps
<1>2. ASSUME NEW h \in Handlers, Good(h), ConfirmEdit(h), edited' = Told(h).episode PROVE FreshInv'
  <2>1. failure' = None /\ aborted' = (job # None) /\ Told(h).episode \in Nat /\ Told(h).episode <= world.episode
    BY <1>2 DEF ConfirmEdit, DropEvidence, Abort, FreshInv, Fresh
  <2>2. ~SearchStep(h)
    <3>1. handler[h].kind # "search" /\ handler[h].at = "applying"
      BY <1>2 DEF ConfirmEdit
    <3> QED
      BY <3>1 DEF SearchStep, SearchOriginal, SearchReset, SearchReread, SearchCaptured, SearchEvaluated,
         SearchRecorded, SearchThrows, At
  <2> QED
    BY <1>2, <2>1, <2>2, FreshUnderHandler DEF Steps
<1>3. ASSUME ServiceMoves, UNCHANGED edited PROVE FreshInv'
  BY <1>0, <1>3, FreshUnderService
<1>4. ASSUME Cancel, UNCHANGED edited PROVE FreshInv'
  <2>1. UNCHANGED <<handler, call, failure, world>> /\ aborted' = TRUE
    BY <1>4 DEF Cancel, Abort, simVars
  <2>2. \A h \in Handlers : Fresh(h)'
    BY <2>1 DEF FreshInv, Fresh, Answered, Told
  <2> QED
    BY <1>4, <2>1, <2>2 DEF FreshInv, NoStaleCapture
<1> QED
  BY <1>1, <1>2, <1>3, <1>4, NextCases

LEMMA InitFresh == GatewayInit => FreshInv
<1> SUFFICES ASSUME GatewayInit PROVE FreshInv
  OBVIOUS
<1>1. \A h \in Handlers : handler[h].at = "idle" /\ handler[h].kind = "none"
  BY DEF GatewayInit, Quiet
<1>2. \A h \in Handlers : Fresh(h)
  BY <1>1 DEF Fresh, CaptureStages
<1> QED
  BY <1>2 DEF GatewayInit, SimInit, NewWorld, FreshInv, NoStaleCapture

\* A search that an edit aborted (gateway/index.ts, runSearch and /api/obstacles)
\* never leaves a failure captured before the edit, wherever between its reads,
\* its capture and its evaluation the abort reached it.
THEOREM NoStaleCaptures == Spec => []NoStaleCapture
<1>1. Sound /\ FreshInv /\ [Next]_vars => FreshInv'
  BY FreshStep
<1>2. FreshInv => NoStaleCapture
  BY DEF FreshInv
<1> QED
  BY <1>1, <1>2, InitFresh, SoundAlways, PTL DEF Spec

-----------------------------------------------------------------------------
(* Artifacts and contexts.                                                 *)

\* Only a repair writes artifacts, its own, and they keep their context.
ArtifactMoves(h) ==
  \/ UNCHANGED artifacts
  \/ BeginRepair(h)
  \/ /\ handler[h].kind = "repair" /\ handler[h].at # "origin"
     /\ \E v \in Artifact : artifacts' = [artifacts EXCEPT ![handler[h].artifact] = v]
                            /\ v.context = artifacts[handler[h].artifact].context

\* No verdict changes the context of an artifact.
LEMMA WritesKeepContext ==
  ASSUME NEW a \in Artifact
  PROVE  /\ \A source : [a EXCEPT !.source = source, !.status = "testing"].context = a.context
         /\ \A result : Judge(a, result).context = a.context /\ [Judge(a,
            result) EXCEPT !.status = "error"].context = a.context
         /\ Verdict(a).context = a.context
         /\ [a EXCEPT !.status = "error"].context = a.context
BY DEF Artifact, Judge, Verdict

\* Every step writes no artifact or the own one.
LEMMA WriteMoves ==
  ASSUME Base, NEW h \in Handlers, handler[h].kind = "repair", handler[h].at # "origin", NEW v \in Artifact,
         Write(handler[h].artifact, v), v.context = artifacts[handler[h].artifact].context
  PROVE  ArtifactMoves(h)
BY DEF Write, ArtifactMoves

LEMMA ArtifactsMove ==
  ASSUME Base, NEW h \in Handlers, Steps(h)
  PROVE  ArtifactMoves(h)
<1> DEFINE a == artifacts[handler[h].artifact]
<1>1. CASE StartRequest(h)
  BY <1>1 DEF StartRequest, StartSearch, StartRepair, Select, StartEdit, StartCalibrate, searchKeeps,
     gatewayRest, ArtifactMoves
<1>2. CASE EditStep(h) \/ ConfirmEdit(h)
  BY <1>2 DEF EditStep, ApplyEdit, RefuseEdit, ConfirmCalibration, ConfirmEdit, gatewayRest, ArtifactMoves
<1>3. CASE SearchStep(h)
  BY <1>3 DEF SearchStep, SearchOriginal, SearchReset, SearchReread, SearchCaptured, SearchEvaluated,
     SearchRecorded, SearchThrows,
     searchKeeps, ArtifactMoves
<1>4. CASE Forked(h) \/ Stepped(h) \/ MeasureResult(h) \/ MeasureThrows(h) \/ Cleaned(h) \/ Refuse(h) \/ Inspect(h)
           \/ HeldOutTemplate(h) \/ HeldOutRechecked(h) \/ HeldOutSampled(h) \/ HeldOutMeasured(h) \/ HeldOutResponds(h)
           \/ BeginReplay(h) \/ Replayed(h) \/ BeginHeldOut(h) \/ HeldOutReturns(h) \/ HeldOutThrows(h) \/ Promoted(h)
  BY <1>4 DEF Forked, Stepped, MeasureResult, MeasureThrows, Cleaned, Refuse, Inspect, HeldOutTemplate,
     HeldOutRechecked,
     HeldOutSampled, HeldOutMeasured, HeldOutResponds, BeginReplay, Replayed, BeginHeldOut, HeldOutReturns,
        HeldOutThrows, Promoted,
     gatewayRest, ArtifactMoves
<1>5. CASE BeginRepair(h)
  BY <1>5 DEF ArtifactMoves
<1>6. ASSUME handler[h].kind = "repair", handler[h].at # "origin"
      PROVE  a \in Artifact /\ handler[h].result \in Result \cup {None}
  BY <1>6, WorkingRepair DEF Locals
<1>7. ASSUME NEW source \in Sources, NEW submit \in BOOLEAN, Candidate(h, source, submit) PROVE ArtifactMoves(h)
  <2> DEFINE l == [handler[h] EXCEPT !.submit = submit]
             v == [artifacts[l.artifact] EXCEPT !.source = source, !.status = "testing"]
  <2>1. handler[h].kind = "repair" /\ handler[h].at # "origin" /\ Write(l.artifact, v)
    BY <1>7 DEF Candidate, At
  <2>2. l.artifact = handler[h].artifact
    BY <1>6, <2>1, WorkingRepair DEF Locals
  <2> QED
    BY <1>6, <2>1, <2>2, WritesOfTypes, WritesKeepContext, WriteMoves
<1>8. ASSUME RepairMeasured(h) PROVE ArtifactMoves(h)
  <2> DEFINE l == [handler[h] EXCEPT !.measured = @ \cup ({handler[h].result} \ {None}),
                                     !.result = None, !.branch = NoHandle, !.steps = 0]
             v == Judge(artifacts[l.artifact], handler[h].result)
  <2>1. handler[h].kind = "repair" /\ handler[h].at # "origin"
        /\ (Write(l.artifact, v) \/ Write(l.artifact, [v EXCEPT !.status = "error"]))
    BY <1>8 DEF RepairMeasured, At
  <2>2. l.artifact = handler[h].artifact
    BY <1>6, <2>1, WorkingRepair DEF Locals
  <2>3. v \in Artifact /\ [v EXCEPT !.status = "error"] \in Artifact /\ v.context = a.context
        /\ [v EXCEPT !.status = "error"].context = a.context
    BY <1>6, <2>1, <2>2, WritesOfTypes, WritesKeepContext
  <2> HIDE DEF v, l
  <2> QED
    BY <2>1, <2>2, <2>3, WriteMoves
<1>9. CASE Promote(h)
  <2>1. handler[h].kind = "repair" /\ handler[h].at # "origin" /\ Write(handler[h].artifact, Verdict(a))
    BY <1>9 DEF Promote, At
  <2> QED
    BY <1>6, <2>1, WritesOfTypes, WritesKeepContext, WriteMoves
<1>10. CASE RepairThrows(h)
  <2>1. handler[h].kind = "repair" /\ handler[h].at # "origin" /\ Write(handler[h].artifact,
        [a EXCEPT !.status = "error"])
    BY <1>10 DEF RepairThrows
  <2> QED
    BY <1>6, <2>1, WritesOfTypes, WritesKeepContext, WriteMoves
<1> QED
  BY <1>1, <1>2, <1>3, <1>4, <1>5, <1>7, <1>8, <1>9, <1>10 DEF Steps, JobStep, SearchStep

\* A repair begins with an artifact for the captured failure.
LEMMA ArtifactAppended ==
  ASSUME Base, NEW h \in Handlers, BeginRepair(h)
  PROVE  /\ failure # None /\ failure \in Ctx /\ Len(artifacts') = Len(artifacts) + 1 /\ artifacts' \in Seq(Artifact)
         /\ \A b \in 1..Len(artifacts) : artifacts'[b] = artifacts[b]
         /\ artifacts'[Len(artifacts) + 1] = NewArtifact(failure) /\ NewArtifact(failure).context = failure
<1>1. failure # None /\ failure \in Ctx /\ artifacts \in Seq(Artifact)
  BY DEF BeginRepair, FailureOf, Base, SharedTypes
<1>2. NewArtifact(failure) \in Artifact /\ NewArtifact(failure).context = failure
  BY <1>1 DEF NewArtifact, Artifact
<1>3. artifacts' = Append(artifacts, NewArtifact(failure))
  BY DEF BeginRepair
<1> QED
  BY <1>1, <1>2, <1>3

\* The context of an artifact stays, and a new one is the last failure.
LEMMA ContextsOfArtifacts ==
  ASSUME Base, NEW h \in Handlers, Steps(h), NEW a \in 1..Len(artifacts')
  PROVE  \/ a \in 1..Len(artifacts) /\ artifacts'[a].context = artifacts[a].context
         \/ failure # None /\ artifacts'[a].context = failure
<1>1. artifacts \in Seq(Artifact)
  BY DEF Base, SharedTypes
<1>2. CASE UNCHANGED artifacts
  BY <1>2
<1>3. CASE BeginRepair(h)
  BY <1>1, <1>3, ArtifactAppended
<1>4. ASSUME handler[h].kind = "repair", handler[h].at # "origin", NEW v \in Artifact,
             artifacts' = [artifacts EXCEPT ![handler[h].artifact] = v],
                v.context = artifacts[handler[h].artifact].context
      PROVE  a \in 1..Len(artifacts) /\ artifacts'[a].context = artifacts[a].context
  BY <1>1, <1>4, WorkingRepair, Written
<1> QED
  BY <1>2, <1>3, <1>4, ArtifactsMove DEF ArtifactMoves

\* A step brings handler h to a context of S, and to the artifact of l if both
\* repair, or to a new one.
Brings(h, S, l) ==
  /\ handler'[h].context \in S
  /\ handler'[h].kind = "repair" =>
       (l.kind = "repair" /\ handler'[h].artifact = l.artifact) \/ handler'[h].artifact \in {0, Len(artifacts) + 1}

\* The locals of a handler take their context from the failure or keep it.
LEMMA ContextKept ==
  ASSUME Base, NEW h \in Handlers, NEW l, {"at", "context", "kind", "artifact"} \subseteq DOMAIN l,
         CleanUp(h, l) \/ MeasureLoop(h, l) \/ NextHeldOut(h, l) \/ NextTurn(h, l) \/ NextTrial(h,
            l) \/ End(h) \/ Continue(h, l)
           \/ \E r : Await(h, [l EXCEPT !.at = "live"], r) \/ Measure(h, l, r)
  PROVE  Brings(h, {None, l.context}, l)
<1>0. handler \in [Handlers -> Locals]
  BY DEF Base
<1> USE <1>0 DEF Brings
<1>1. ASSUME End(h) PROVE Brings(h, {None, l.context}, l)
  BY <1>1 DEF End, Continue, Quiet
<1>2. ASSUME CleanUp(h, l) PROVE Brings(h, {None, l.context}, l)
  BY <1>2 DEF CleanUp, Await, Continue
<1>3. ASSUME MeasureLoop(h, l) PROVE Brings(h, {None, l.context}, l)
  <2>1. CASE CleanUp(h, l)
    BY <1>2, <2>1
  <2> QED
    BY <1>3, <2>1 DEF MeasureLoop, Await
<1>4. ASSUME NextHeldOut(h, l) PROVE Brings(h, {None, l.context}, l)
  BY <1>4 DEF NextHeldOut, Await
<1>5. ASSUME NextTurn(h, l) PROVE Brings(h, {None, l.context}, l)
  BY <1>5 DEF NextTurn, Continue
<1>6. ASSUME NextTrial(h, l) PROVE Brings(h, {None, l.context}, l)
  <2>1. CASE EndJob(h)
    BY <1>1, <2>1 DEF EndJob
  <2>2. CASE \E s \in TrialScenes(l.scene, l.count) : Await(h, [l EXCEPT !.at = "resetting"], ResetTo(s,
             Anything, Anything))
    BY <2>2 DEF Await
  <2> QED
    BY <1>6, <2>1, <2>2 DEF NextTrial
<1>7. ASSUME NEW r, Await(h, [l EXCEPT !.at = "live"], r) \/ Measure(h, l, r) PROVE Brings(h, {None, l.context}, l)
  BY <1>7 DEF Await, Measure
<1>8. ASSUME Continue(h, l) PROVE Brings(h, {None, l.context}, l)
  BY <1>8 DEF Continue
<1> QED
  BY <1>1, <1>2, <1>3, <1>4, <1>5, <1>6, <1>7, <1>8

LEMMA ContextArrivals ==
  ASSUME Base, NEW h \in Handlers, Steps(h), ~SearchCaptured(h)
  PROVE  Brings(h, {None, failure, handler[h].context}, handler[h])
<1>0. handler \in [Handlers -> Locals] /\ {"at", "context", "kind",
      "artifact"} \subseteq DOMAIN handler[h] /\ {"at", "context", "kind", "artifact"} \subseteq DOMAIN Quiet
  BY DEF Base, Locals, Quiet
<1> DEFINE Traceable == Brings(h, {None, failure, handler[h].context}, handler[h])
<1>k. ASSUME NEW l, {"at", "context", "kind", "artifact"} \subseteq DOMAIN l, l.context = handler[h].context,
             l.kind = handler[h].kind, l.artifact = handler[h].artifact, Brings(h, {None, l.context},
                l) PROVE Traceable
  BY <1>k DEF Brings
<1>1. ASSUME StartSearch(h) PROVE Traceable
  BY <1>0, <1>1 DEF StartSearch, Await, Continue, Quiet, Brings
<1>2. ASSUME StartRepair(h) PROVE Traceable
  BY <1>0, <1>2 DEF StartRepair, Await, Continue, Quiet, Brings
<1>3. ASSUME ApplyEdit(h) PROVE Traceable
  BY <1>0, <1>3 DEF ApplyEdit, Await, Continue, Quiet, Brings
<1>4. ASSUME RefuseEdit(h) PROVE Traceable
  BY <1>0, <1>4 DEF RefuseEdit, End, Await, Continue, Quiet, Brings
<1>5. ASSUME ConfirmCalibration(h) PROVE Traceable
  BY <1>0, <1>5 DEF ConfirmCalibration, End, Await, Continue, Quiet, Brings
<1>6. ASSUME ConfirmEdit(h) PROVE Traceable
  BY <1>0, <1>6 DEF ConfirmEdit, End, Await, Continue, Quiet, Brings
<1>7. ASSUME SearchReset(h) PROVE Traceable
  BY <1>0, <1>7 DEF SearchReset, Await, Continue, Quiet, Brings
<1>8. ASSUME SearchReread(h) PROVE Traceable
  BY <1>0, <1>8 DEF SearchReread, Await, Continue, Quiet, Brings
<1>9. ASSUME SearchEvaluated(h) PROVE Traceable
  BY <1>0, <1>9 DEF SearchEvaluated, Await, Continue, Quiet, Brings
<1>10. ASSUME SearchThrows(h) PROVE Traceable
  BY <1>0, <1>10 DEF SearchThrows, EndJob, End, Await, Continue, Quiet, Brings
<1>11. ASSUME Cleaned(h) PROVE Traceable
  BY <1>0, <1>11 DEF Cleaned, Await, Continue, Quiet, Brings
<1>12. ASSUME Refuse(h) PROVE Traceable
  BY <1>0, <1>12 DEF Refuse, End, Await, Continue, Quiet, Brings
<1>13. ASSUME Inspect(h) PROVE Traceable
  BY <1>0, <1>13 DEF Inspect, NextTurn, Await, Continue, Quiet, Brings
<1>14. ASSUME Promote(h) PROVE Traceable
  BY <1>0, <1>14 DEF Promote, Await, Continue, Quiet, Brings
<1>15. ASSUME Promoted(h) PROVE Traceable
  BY <1>0, <1>15 DEF Promoted, EndJob, End, Await, Continue, Quiet, Brings
<1>16. ASSUME RepairThrows(h) PROVE Traceable
  BY <1>0, <1>16 DEF RepairThrows, EndJob, End, Await, Continue, Quiet, Brings
<1>17. ASSUME BeginReplay(h) PROVE Traceable
  BY <1>0, <1>17 DEF BeginReplay, Measure, Await, Continue, Quiet, Brings
<1>18. ASSUME Replayed(h) PROVE Traceable
  BY <1>0, <1>18 DEF Replayed, EndJob, End, Await, Continue, Quiet, Brings
<1>19. ASSUME BeginHeldOut(h) PROVE Traceable
  BY <1>0, <1>19 DEF BeginHeldOut, Await, Continue, Quiet, Brings
<1>20. ASSUME HeldOutTemplate(h) PROVE Traceable
  BY <1>0, <1>20 DEF HeldOutTemplate, NextHeldOut, Await, Continue, Quiet, Brings
<1>21. ASSUME HeldOutRechecked(h) PROVE Traceable
  BY <1>0, <1>21 DEF HeldOutRechecked, Await, Continue, Quiet, Brings
<1>22. ASSUME HeldOutSampled(h) PROVE Traceable
  BY <1>0, <1>22 DEF HeldOutSampled, Measure, Await, Continue, Quiet, Brings
<1>23. ASSUME HeldOutReturns(h) PROVE Traceable
  BY <1>0, <1>23 DEF HeldOutReturns, Await, Continue, Quiet, Brings
<1>24. ASSUME HeldOutResponds(h) PROVE Traceable
  BY <1>0, <1>24 DEF HeldOutResponds, End, Await, Continue, Quiet, Brings
<1>25. ASSUME HeldOutThrows(h) PROVE Traceable
  BY <1>0, <1>25 DEF HeldOutThrows, EndJob, End, Await, Continue, Quiet, Brings
<1>26. ASSUME NEW kind \in {"replay", "heldout"}, Select(h, kind) PROVE Traceable
  BY <1>0, <1>26 DEF Select, Await, Quiet, Brings
<1>27. ASSUME NEW kind, NEW b, StartEdit(h, kind, b) PROVE Traceable
  BY <1>0, <1>27 DEF StartEdit, Await, Quiet, Brings
<1>28. ASSUME NEW f, StartCalibrate(h, f) PROVE Traceable
  BY <1>0, <1>28 DEF StartCalibrate, Await, Quiet, Brings
<1>29. ASSUME Forked(h) PROVE Traceable
  <2> DEFINE l == [handler[h] EXCEPT !.branch = call[h].reply.handle]
  <2>1. {"at", "context", "kind", "artifact"} \subseteq DOMAIN l /\ l.context = handler[h].context /\
        l.kind = handler[h].kind /\ l.artifact = handler[h].artifact
    BY <1>0
  <2>2. MeasureLoop(h, l)
    BY <1>29 DEF Forked
  <2> HIDE DEF l
  <2> QED
    BY <1>k, <2>1, <2>2, ContextKept
<1>30. ASSUME Stepped(h) PROVE Traceable
  <2> DEFINE l == handler[h]
  <2>1. {"at", "context", "kind", "artifact"} \subseteq DOMAIN l /\ l.context = handler[h].context /\
        l.kind = handler[h].kind /\ l.artifact = handler[h].artifact
    BY <1>0
  <2>2. MeasureLoop(h, l)
    BY <1>30 DEF Stepped
  <2> HIDE DEF l
  <2> QED
    BY <1>k, <2>1, <2>2, ContextKept
<1>31. ASSUME MeasureResult(h) PROVE Traceable
  <2> DEFINE l == [handler[h] EXCEPT !.result = [about |-> Told(h), source |-> artifacts[handler[h].artifact].source,
                                                passed |-> call[h].reply.passed]]
  <2>1. {"at", "context", "kind", "artifact"} \subseteq DOMAIN l /\ l.context = handler[h].context /\
        l.kind = handler[h].kind /\ l.artifact = handler[h].artifact
    BY <1>0
  <2>2. CleanUp(h, l)
    BY <1>31 DEF MeasureResult
  <2> HIDE DEF l
  <2> QED
    BY <1>k, <2>1, <2>2, ContextKept
<1>32. ASSUME MeasureThrows(h) PROVE Traceable
  <2> DEFINE l == handler[h]
  <2>1. {"at", "context", "kind", "artifact"} \subseteq DOMAIN l /\ l.context = handler[h].context /\
        l.kind = handler[h].kind /\ l.artifact = handler[h].artifact
    BY <1>0
  <2>2. CleanUp(h, l)
    BY <1>32 DEF MeasureThrows
  <2> HIDE DEF l
  <2> QED
    BY <1>k, <2>1, <2>2, ContextKept
<1>33. ASSUME HeldOutMeasured(h) PROVE Traceable
  <2> DEFINE l == [handler[h] EXCEPT !.measured = @ \cup {handler[h].result}, !.result = None,
                                     !.branch = NoHandle, !.steps = 0]
  <2>1. {"at", "context", "kind", "artifact"} \subseteq DOMAIN l /\ l.context = handler[h].context /\
        l.kind = handler[h].kind /\ l.artifact = handler[h].artifact
    BY <1>0
  <2>2. NextHeldOut(h, l)
    BY <1>33 DEF HeldOutMeasured
  <2> HIDE DEF l
  <2> QED
    BY <1>k, <2>1, <2>2, ContextKept
<1>34. ASSUME RepairMeasured(h) PROVE Traceable
  <2> DEFINE l == [handler[h] EXCEPT !.measured = @ \cup ({handler[h].result} \ {None}),
                                     !.result = None, !.branch = NoHandle, !.steps = 0]
  <2>1. {"at", "context", "kind", "artifact"} \subseteq DOMAIN l /\ l.context = handler[h].context /\
        l.kind = handler[h].kind /\ l.artifact = handler[h].artifact
    BY <1>0
  <2>2. (\E r : Await(h, [l EXCEPT !.at = "live"], r)) \/ NextTurn(h, l) \/ End(h)
    BY <1>34 DEF RepairMeasured, EndJob
  <2> HIDE DEF l
  <2> QED
    BY <1>k, <2>1, <2>2, ContextKept
<1>35. ASSUME SearchOriginal(h) PROVE Traceable
  <2> DEFINE l == [handler[h] EXCEPT !.scene = Told(h).scene, !.count = 1]
  <2>1. {"at", "context", "kind", "artifact"} \subseteq DOMAIN l /\ l.context = handler[h].context /\
        l.kind = handler[h].kind /\ l.artifact = handler[h].artifact
    BY <1>0
  <2>2. NextTrial(h, l)
    BY <1>35 DEF SearchOriginal
  <2> HIDE DEF l
  <2> QED
    BY <1>k, <2>1, <2>2, ContextKept
<1>36. ASSUME SearchRecorded(h) PROVE Traceable
  <2> DEFINE l == [handler[h] EXCEPT !.count = @ + 1]
  <2>1. {"at", "context", "kind", "artifact"} \subseteq DOMAIN l /\ l.context = handler[h].context /\
        l.kind = handler[h].kind /\ l.artifact = handler[h].artifact
    BY <1>0
  <2>2. NextTrial(h, l) \/ End(h)
    BY <1>36 DEF SearchRecorded, Conclude, EndJob
  <2> HIDE DEF l
  <2> QED
    BY <1>k, <2>1, <2>2, ContextKept
<1>37. ASSUME BeginRepair(h) PROVE Traceable
  <2>1. CASE End(h)
    BY <1>0, <1>k, <2>1, ContextKept
  <2>2. CASE Continue(h, [handler[h] EXCEPT !.at = "thinking", !.context = failure,
             !.artifact = Len(artifacts) + 1, !.count = 1])
    BY <1>0, <2>2 DEF Continue, Brings
  <2> QED
    BY <1>37, <2>1, <2>2 DEF BeginRepair
<1>38. ASSUME NEW source, NEW submit, Candidate(h, source, submit) PROVE Traceable
  <2> DEFINE l == [handler[h] EXCEPT !.submit = submit]
  <2>1. {"at", "context", "kind", "artifact"} \subseteq DOMAIN l /\ l.context = handler[h].context /\
        l.kind = handler[h].kind /\ l.artifact = handler[h].artifact
    BY <1>0
  <2>2. \/ \E e : Continue(h, [l EXCEPT !.at = "measured", !.result = e])
        \/ \E r : Measure(h, [l EXCEPT !.tests = @ + 1], r)
        \/ NextTurn(h, l)
    BY <1>38 DEF Candidate
  <2> HIDE DEF l
  <2> QED
    BY <1>0, <1>k, <2>1, <2>2, ContextKept DEF Continue, Measure, Await, Brings
<1> QED
  BY <1>1, <1>2, <1>3, <1>4, <1>5, <1>6, <1>7, <1>8, <1>9, <1>10, <1>11, <1>12, <1>13, <1>14, <1>15, <1>16,
     <1>17, <1>18, <1>19, <1>20, <1>21, <1>22, <1>23, <1>24, <1>25, <1>26, <1>27, <1>28, <1>29, <1>30, <1>31,
        <1>32, <1>33, <1>34, <1>35, <1>36, <1>37, <1>38 DEF Steps, StartRequest, JobStep, EditStep

\* The failures that are captured, repaired or replayed.
Contexts ==
  ({failure} \cup {artifacts[a].context : a \in 1..Len(artifacts)} \cup {handler[h].context : h \in Handlers}) \ {None}

\* Only a capture makes a new context.
LEMMA ContextsMove ==
  ASSUME Base, NEW h \in Handlers, Good(h), Steps(h),
         NEW c \in Contexts'
  PROVE  c \in Contexts \/ (SearchCaptured(h) /\ c = handler'[h].context)
<1>0. c # None
  BY DEF Contexts
<1>1. CASE c = failure'
  <2>1. failure' \in {failure, None, handler[h].context}
    BY OtherShared, SearchShared
  <2> QED
    BY <1>0, <1>1, <2>1 DEF Contexts
<1>2. CASE \E a \in 1..Len(artifacts') : c = artifacts'[a].context
  BY <1>0, <1>2, ContextsOfArtifacts DEF Contexts
<1>3. CASE \E d \in Handlers : c = handler'[d].context
  <2>1. PICK d \in Handlers : c = handler'[d].context
    BY <1>3
  <2>2. CASE d # h
    BY <1>0, <2>1, <2>2, GoodMoveFrame DEF Contexts
  <2>3. CASE d = h /\ ~SearchCaptured(h)
    BY <1>0, <2>1, <2>3, ContextArrivals DEF Brings, Contexts
  <2> QED
    BY <2>1, <2>2, <2>3
<1> QED
  BY <1>1, <1>2, <1>3 DEF Contexts

\* Checkpoint i of episode p and epoch e was issued, and what is kept under
\* this handle is of that date.
Traced(i, e, p, n, kept, w) ==
  /\ 1 <= i /\ i <= n
  /\ \A k \in 1..Len(kept) : kept[k].id = i => kept[k].world.epoch = e /\ kept[k].world.episode = p
  /\ AtOrPast(p, e, w)

\* What is traced stays traced.
LEMMA TracedMoves ==
  ASSUME SimFrame, WorldTypes, NEW i \in Nat, NEW e \in Nat, NEW p \in Nat, Traced(i, e, p, handles,
         checkpoints, world)
  PROVE  Traced(i, e, p, handles', checkpoints', world')
<1>1. AtOrPast(p, e, world') /\ 1 <= i /\ i <= handles'
  BY DatesMove DEF SimFrame, Traced
<1>2. ASSUME NEW k \in 1..Len(checkpoints'), checkpoints'[k].id = i
      PROVE  checkpoints'[k].world.epoch = e /\ checkpoints'[k].world.episode = p
  BY <1>2 DEF SimFrame, Traced
<1> QED
  BY <1>1, <1>2 DEF Traced

\* A context is traced to its checkpoint.
CtxOK(c) == c \in Ctx /\ Traced(c.checkpoint, c.epoch, c.episode, handles, checkpoints, world)

\* Every context of C is of an earlier episode.
Before(p, C) == p \in Nat /\ \A c \in C : c.episode < p

\* A search that has reset the stage captures in an episode of its own.
Capturing(h) ==
  handler[h].kind = "search" =>
    /\ handler[h].at = "resetting" /\ Answered(h) => Before(world.episode, Contexts)
    /\ handler[h].at = "rereading" => Before(world.episode, Contexts)
    /\ handler[h].at = "capturing" /\ ~Answered(h) => Before(world.episode, Contexts)
    /\ handler[h].at = "capturing" /\ Answered(h) =>
         /\ Before(Told(h).episode, Contexts)
         /\ Told(h).epoch \in Nat /\ call[h].reply.handle \in Nat
         /\ Traced(call[h].reply.handle, Told(h).epoch, Told(h).episode, handles, checkpoints, world)

\* What holds of contexts: they are traced, the episode identifies them, and a
\* search that captures is of an episode of its own.
CtxInv ==
  /\ \A c \in Contexts : CtxOK(c)
  /\ \A c, d \in Contexts : c.episode = d.episode => c = d
  /\ \A h \in Handlers : Capturing(h)
  /\ \A a \in 1..Len(artifacts) : artifacts[a].context # None

\* Later than the old contexts is later than the remaining ones.
LEMMA BeforeLater ==
  ASSUME NEW p, NEW q \in Nat, NEW C, NEW D, Before(p, C), p <= q, D \subseteq C, \A c \in C : c.episode \in Nat
  PROVE  Before(q, D)
BY DEF Before

\* The parts of a context.
LEMMA ContextTypes ==
  ASSUME CtxInv, NEW c \in Contexts
  PROVE  c \in Ctx /\ c.checkpoint \in Nat /\ c.epoch \in Nat /\ c.episode \in Nat
BY DEF CtxInv, CtxOK, Ctx

\* The service keeps it.
LEMMA ContextsUnderService ==
  ASSUME Sound, CtxInv, ServiceMoves, SimFrame, WorldTypes
  PROVE  CtxInv'
<1>0. Base /\ Types /\ UNCHANGED <<handler, failure, artifacts>> /\ Contexts' = Contexts /\
      world.episode <= world'.episode
  BY DEF Sound, Base, Coherent, ServiceMoves, gatewayVars, gatewayRest, Contexts, SimFrame, WorldMoves, WorldTypes
<1>1. ASSUME NEW c \in Contexts' PROVE CtxOK(c)'
  <2>1. CtxOK(c) /\ c \in Ctx /\ c.checkpoint \in Nat /\ c.epoch \in Nat /\ c.episode \in Nat
    BY <1>0, ContextTypes DEF CtxInv
  <2> QED
    BY <2>1, TracedMoves DEF CtxOK
<1>2. \A c, d \in Contexts' : c.episode = d.episode => c = d
  BY <1>0 DEF CtxInv
<1>3. ASSUME NEW d \in Handlers PROVE Capturing(d)'
  <2>1. Capturing(d) /\ Outcome(d) /\ call[d] \in Call
    BY <1>0, HandlerFacts DEF CtxInv, ServiceMoves
  <2>2. ASSUME Before(world.episode, Contexts) PROVE Before(world'.episode, Contexts')
    BY <1>0, <2>2, ContextTypes, BeforeLater DEF WorldTypes
  <2>3. CASE call'[d] = call[d] \/ call'[d].stage # "answered"
    <3>1. CASE handler[d].kind = "search" /\ handler[d].at = "capturing"
      <4>1. ~Answered(d) => Before(world'.episode, Contexts')
        BY <2>1, <2>2, <3>1 DEF Capturing
      <4>2. SUFFICES ASSUME Answered(d) PROVE Capturing(d)'
        BY <1>0, <2>3, <3>1, <4>1 DEF Capturing, Answered
      <4>3. /\ Before(Told(d).episode, Contexts) /\ Told(d).epoch \in Nat /\ call[d].reply.handle \in Nat
            /\ Traced(call[d].reply.handle, Told(d).epoch, Told(d).episode, handles, checkpoints, world)
            /\ Told(d).episode \in Nat
        BY <2>1, <3>1, <4>2 DEF Capturing, Before
      <4>4. Told(d).episode <= world.episode
        BY <4>3 DEF Traced, AtOrPast, WorldTypes
      <4>5. Before(world.episode, Contexts)
        BY <4>3, <4>4, ContextTypes, BeforeLater DEF WorldTypes
      <4>6. Traced(call[d].reply.handle, Told(d).epoch, Told(d).episode, handles', checkpoints', world')
        BY <4>3, TracedMoves
      <4>7. CASE call'[d] = call[d]
        BY <1>0, <3>1, <4>2, <4>3, <4>6, <4>7 DEF Capturing, Answered, Told
      <4>8. CASE call'[d].stage # "answered"
        BY <1>0, <2>2, <3>1, <4>5, <4>8 DEF Capturing, Answered
      <4> QED
        BY <2>3, <4>7, <4>8
    <3>2. CASE ~(handler[d].kind = "search" /\ handler[d].at = "capturing")
      BY <1>0, <2>1, <2>2, <2>3, <3>2 DEF Capturing, Answered
    <3> QED
      BY <3>1, <3>2
  <2>4. CASE call'[d] # call[d] /\ call'[d].stage = "answered"
    <3>1. CASE handler[d].kind = "search" /\ handler[d].at = "resetting"
      <4>1. TellsWorld(d) /\ call[d].request.op = "reset"
        BY <1>0, <2>1, <2>4, <3>1, OutcomeOfRequest DEF RequestOK
      <4>2. world.episode < world'.episode
        BY <4>1 DEF TellsWorld
      <4>3. \A c \in Contexts : c.episode <= world.episode /\ c.episode \in Nat
        BY ContextTypes DEF CtxInv, CtxOK, Traced, AtOrPast, WorldTypes
      <4>4. Before(world'.episode, Contexts')
        BY <1>0, <4>2, <4>3 DEF Before, WorldTypes
      <4> QED
        BY <1>0, <3>1, <4>4 DEF Capturing
    <3>2. CASE handler[d].kind = "search" /\ handler[d].at = "capturing"
      <4>1. Captures(d)
        BY <1>0, <2>1, <2>4, <3>2, OutcomeOfRequest
      <4>2. call'[d] = Tell(world, handles + 1) /\ world' = world /\ handles' = handles + 1
        BY <4>1 DEF Captures
      <4>3. Before(world.episode, Contexts)
        BY <2>1, <3>2, <4>1, StagesOfCalls DEF Capturing, Captures, Asked, Answered
      <4>4. Traced(handles + 1, world.epoch, world.episode, handles', checkpoints', world')
        <5>1. handles + 1 \in Nat /\ handles \in Nat /\
              \A k \in 1..Len(checkpoints) : checkpoints[k].id \in Nat /\ checkpoints[k].id <= handles
          BY <1>0, KeptCheckpoints DEF Types, SimTypeOK
        <5>2. AtOrPast(world.episode, world.epoch, world')
          BY <4>2 DEF AtOrPast, WorldTypes
        <5>3. ASSUME NEW k \in 1..Len(checkpoints'), checkpoints'[k].id = handles + 1
              PROVE  checkpoints'[k].world = world
          <6>1. \A j \in 1..Len(checkpoints) : checkpoints'[k] # checkpoints[j]
            BY <5>1, <5>3
          <6> QED
            BY <6>1 DEF SimFrame
        <5> QED
          BY <4>2, <5>1, <5>2, <5>3 DEF Traced
      <4>5. /\ call'[d].reply.handle = handles + 1 /\ call'[d].reply.about.episode = world.episode
            /\ call'[d].reply.about.epoch = world.epoch
        BY <4>2, TellEpisode
      <4>6. handles + 1 \in Nat
        BY <1>0 DEF Types, SimTypeOK
      <4> QED
        BY <1>0, <2>4, <3>2, <4>3, <4>4, <4>5, <4>6 DEF Capturing, Answered, Told, WorldTypes
    <3>3. CASE handler[d].kind = "search" /\ handler[d].at \notin {"resetting", "capturing"}
      BY <1>0, <2>1, <2>2, <3>3 DEF Capturing
    <3>4. CASE handler[d].kind # "search"
      BY <1>0, <3>4 DEF Capturing
    <3> QED
      BY <3>1, <3>2, <3>3, <3>4
  <2> QED
    BY <2>3, <2>4
<1> QED
  BY <1>0, <1>1, <1>2, <1>3 DEF CtxInv

\* What leads a search to read the scene again and to capture it.
LEMMA RereadArrivals ==
  ASSUME Base, NEW h \in Handlers, Steps(h), handler'[h].at \in {"rereading", "capturing"}
  PROVE  SearchReset(h) \/ SearchReread(h)
<1>0. handler \in [Handlers -> Locals] /\ "at" \in DOMAIN handler[h] /\ SearchStep(h)
  BY OtherArrivals DEF Base, Locals, Elsewhere, SearchStages
<1>1. ASSUME NEW l, "at" \in DOMAIN l, NextTrial(h, l) \/ EndJob(h) PROVE FALSE
  <2>1. CASE EndJob(h)
    BY <1>0, <2>1 DEF EndJob, End, Continue, Quiet
  <2>2. CASE \E s \in TrialScenes(l.scene, l.count) : Await(h, [l EXCEPT !.at = "resetting"], ResetTo(s,
             Anything, Anything))
    BY <1>0, <1>1, <2>2 DEF Await
  <2> QED
    BY <1>1, <2>1, <2>2 DEF NextTrial
<1>2. CASE SearchOriginal(h)
  <2>1. "at" \in DOMAIN [handler[h] EXCEPT !.scene = Told(h).scene, !.count = 1]
    BY <1>0
  <2> QED
    BY <1>1, <1>2, <2>1 DEF SearchOriginal
<1>3. CASE SearchCaptured(h)
  BY <1>0, <1>3 DEF SearchCaptured, Await
<1>4. CASE SearchEvaluated(h)
  BY <1>0, <1>4 DEF SearchEvaluated, Continue
<1>5. CASE SearchRecorded(h)
  <2>1. "at" \in DOMAIN [handler[h] EXCEPT !.count = @ + 1]
    BY <1>0
  <2> QED
    BY <1>0, <1>1, <1>5, <2>1 DEF SearchRecorded, Conclude
<1>6. CASE SearchThrows(h)
  BY <1>0, <1>1, <1>6 DEF SearchThrows
<1> QED
  BY <1>0, <1>2, <1>3, <1>4, <1>5, <1>6 DEF SearchStep

\* A handler keeps it, and so does every step.
LEMMA ContextsUnderHandler ==
  ASSUME Sound, CtxInv, NEW h \in Handlers, Good(h), Steps(h)
  PROVE  CtxInv'
<1>0. Base /\ UNCHANGED <<world, checkpoints, handles>> /\ call'[h].stage # "answered"
  BY GoodMoveFrame, StagesOfCalls DEF Sound, serverVars
<1>1. \A d \in Handlers : d # h => handler'[d] = handler[d] /\ call'[d] = call[d]
  BY <1>0, GoodMoveFrame
<1>4. \A a \in 1..Len(artifacts') : artifacts'[a].context # None
  BY <1>0, ContextsOfArtifacts DEF CtxInv
<1>2. CASE ~SearchCaptured(h)
  <2>1. Contexts' \subseteq Contexts
    BY <1>0, <1>2, ContextsMove
  <2>2. \A p : Before(p, Contexts) => Before(p, Contexts')
    BY <2>1 DEF Before
  <2>3. ASSUME NEW d \in Handlers, d # h PROVE Capturing(d)'
    BY <1>0, <1>1, <2>2, <2>3 DEF CtxInv, Capturing, Answered, Told
  <2>4. Capturing(h)'
    <3>1. CASE handler'[h].at \in {"rereading", "capturing"}
      <4>1. SearchReset(h) \/ SearchReread(h)
        BY <1>0, <3>1, RereadArrivals
      <4>2. Before(world.episode, Contexts)
        BY <4>1 DEF SearchReset, SearchReread, At, CtxInv, Capturing
      <4> QED
        BY <1>0, <2>2, <4>2 DEF Capturing, Answered
    <3>2. CASE handler'[h].at \notin {"rereading", "capturing"}
      BY <1>0, <3>2 DEF Capturing, Answered
    <3> QED
      BY <3>1, <3>2
  <2> QED
    BY <1>0, <1>4, <2>1, <2>3, <2>4 DEF CtxInv, CtxOK
<1>3. CASE SearchCaptured(h)
  <2> DEFINE captured == [scene |-> handler[h].start, checkpoint |-> call[h].reply.handle,
                          epoch |-> Told(h).epoch, episode |-> Told(h).episode]
             c == handler'[h].context
  <2>1. At(h, "search", "capturing") /\ Answered(h) /\ handler[h] \in Locals /\ handler \in [Handlers -> Locals]
    BY <1>0, <1>3, HandlerFacts DEF SearchCaptured, Base
  <2>2. handler'[h] = [handler[h] EXCEPT !.at = "evaluating", !.context = captured]
    BY <1>3, <2>1 DEF SearchCaptured, Await
  <2>3. c = captured /\ handler'[h].at = "evaluating" /\ handler'[h].kind = "search"
    <3> HIDE DEF captured
    <3> QED
      BY <2>1, <2>2 DEF Locals, At
  <2>4. c.checkpoint = call[h].reply.handle /\ c.epoch = Told(h).epoch /\ c.episode = Told(h).episode
    BY <2>3
  <2>5. c \in Ctx
    BY <1>0, <2>3, GoodMoveFrame DEF StageOK
  <2> HIDE DEF c, captured
  <2>6. Before(c.episode, Contexts) /\ Traced(c.checkpoint, c.epoch, c.episode, handles, checkpoints, world)
    BY <2>1, <2>4 DEF CtxInv, Capturing, At
  <2>7. \A x \in Contexts' : x \in Contexts \/ x = c
    BY <1>0, ContextsMove DEF c
  <2>8. \A x \in Contexts' : CtxOK(x)'
    BY <1>0, <2>5, <2>6, <2>7 DEF CtxInv, CtxOK
  <2>9. ASSUME NEW x \in Contexts', NEW y \in Contexts', x.episode = y.episode PROVE x = y
    BY <2>5, <2>6, <2>7, <2>9, ContextTypes DEF Before, CtxInv, Ctx
  <2>10. ASSUME NEW d \in Handlers PROVE Capturing(d)'
    <3>1. CASE d = h
      BY <2>3, <3>1 DEF Capturing
    <3>2. CASE d # h
      <4>1. handler[d].kind # "search"
        BY <1>0, <2>1, <3>2, HandlerFacts DEF ControlOK, InJob, At
      <4> QED
        BY <1>1, <3>2, <4>1 DEF Capturing
    <3> QED
      BY <3>1, <3>2
  <2> QED
    BY <1>4, <2>8, <2>9, <2>10 DEF CtxInv
<1> QED
  BY <1>2, <1>3

LEMMA ContextsUnderCancel ==
  ASSUME CtxInv, Cancel
  PROVE  CtxInv'
<1>1. UNCHANGED <<handler, call, failure, artifacts, world, checkpoints, handles>>
  BY DEF Cancel, simVars
<1>2. Contexts' = Contexts
  BY <1>1 DEF Contexts
<1> QED
  BY <1>1, <1>2 DEF CtxInv, CtxOK, Capturing, Answered, Told

LEMMA ContextsStep ==
  ASSUME Sound, CtxInv, [Next]_vars
  PROVE  CtxInv'
<1>0. SimFrame /\ WorldTypes
  BY SoundStep
<1> QED
  BY <1>0, NextCases, ContextsUnderHandler, ContextsUnderService, ContextsUnderCancel DEF Steps

LEMMA InitContexts == GatewayInit => CtxInv
<1> SUFFICES ASSUME GatewayInit PROVE CtxInv
  OBVIOUS
<1>1. \A h \in Handlers : handler[h].kind = "none" /\ handler[h].context = None
  BY DEF GatewayInit, Quiet
<1>2. Contexts = {}
  BY <1>1 DEF GatewayInit, Contexts
<1> QED
  BY <1>1, <1>2 DEF GatewayInit, CtxInv, Capturing

-----------------------------------------------------------------------------
(* What was measured.                                                      *)

\* The world that artifact a was repaired for has been replaced.
PastContext(a, w) == Past(a.context.episode, a.context.epoch, w)

\* Scene s has the floor and the obstacles that artifact a was measured on.
SameStage(s, a) ==
  a.evaluation # None => s.floor = a.evaluation.about.scene.floor /\ s.props = a.evaluation.about.scene.props

\* A scene on which artifact a may be measured in world w.
SceneOK(a, s, w) == PastContext(a, w) \/ SameStage(s, a)

\* Branch b is what a handler with the locals l and the artifact a is to
\* measure on: a fork of the checkpoint, or another start of the same stage
\* unless the world w has left it.
About(l, a, b, w) ==
  IF l.kind = "heldout"
  THEN PastContext(a, w) \/ (b.epoch = a.context.epoch /\ SameStage(b.scene, a))
  ELSE /\ b.origin = l.context.checkpoint /\ b.epoch = l.context.epoch /\ b.episode = l.context.episode
       /\ Dated(b, w)

\* The fork r is one on which artifact a may be measured.
ForkOK(l, a, r, w) ==
  IF l.kind = "heldout"
  THEN r.scene # Same /\ SceneOK(a, r.scene, w)
  ELSE r.scene = Same /\ r.checkpoint = l.context.checkpoint

\* What was measured by a handler with the locals l and the artifact a.
Evidence(l, a, w) ==
  /\ l.result # None => About(l, a, l.result.about, w) /\ l.result.source = a.source
  /\ \A r \in l.measured : About(l, a, r.about, w) /\ (l.kind = "heldout" => r.source = a.source)

\* A handler has a result only when its branch is to be deleted or has been.
Holds(l, a, w) == Evidence(l, a, w) /\ (l.result # None => l.at \in {"deleting", "measured"})

\* The branch that it measures on, of the branches bs; n handles were issued.
OnIt(l, a, bs, n, w) ==
  /\ l.branch <= n
  /\ l.at \in {"stepping", "resulting"} /\ l.branch \in DOMAIN bs => About(l, a, bs[l.branch], w)

\* What it awaits.
Awaits(l, x, a, bs, n, w) ==
  /\ l.at = "sampling" /\ x.stage = "answered" => SceneOK(a, x.reply.about.scene, w)
  /\ l.at = "forking" /\ Pending(x) => ForkOK(l, a, x.request, w)
  /\ l.at \in {"forking", "resulting"} /\ x.stage = "working" => About(l, a, x.branch, w)
  /\ l.at = "forking" /\ x.stage = "answered" =>
       x.reply.handle <= n /\ (x.reply.handle \in DOMAIN bs => About(l, a, bs[x.reply.handle], w))
  /\ l.at = "resulting" /\ x.stage = "answered" => About(l, a, x.reply.about, w)
  /\ l.at = "final" /\ x.stage = "answered" /\ x.reply.about.epoch = a.context.epoch /\
     x.reply.about.episode = a.context.episode =>
       \A r \in l.measured : r.about.epoch = a.context.epoch /\ SameStage(r.about.scene, a)

\* What its artifact has to do with it.
Mine(l, a) ==
  /\ l.kind \in {"repair", "replay"} /\ l.at # "origin" => a.context = l.context /\ l.context # None
  /\ l.kind = "repair" /\ l.at \notin {"origin", "saving"} => a.status # "passed"
  /\ l.kind = "repair" /\ l.at = "live" /\ a.evaluation # None => a.evaluation.source = a.source
  /\ l.kind = "heldout" /\ l.at = "responding" =>
       \A r \in l.measured : r.source = a.source /\ r.about.epoch = a.context.epoch /\ SameStage(r.about.scene, a)

\* The evaluation of an artifact is of its own checkpoint and world, and an
\* artifact that passed did so with its source.
ArtifactOK(a, w) ==
  /\ a.evaluation # None =>
       /\ a.evaluation.about.origin = a.context.checkpoint
       /\ a.evaluation.about.epoch = a.context.epoch /\ a.evaluation.about.episode = a.context.episode
       /\ Dated(a.evaluation.about, w)
  /\ a.status = "passed" => a.evaluation # None /\ a.evaluation.passed /\ a.evaluation.source = a.source

\* The artifact that handler h works on.
OwnArtifact(h) == artifacts[handler[h].artifact]

Artifacts == \A a \in 1..Len(artifacts) : ArtifactOK(artifacts[a], world)

\* It begins without a measurement.
Blank(l) ==
  l.at = "origin" =>
    l.measured = {} /\ l.result = None /\ l.branch = NoHandle /\ (l.kind = "repair" => l.artifact = 0)

\* A measurement at any of its stages.
Measures(l, x, a) ==
  /\ Holds(l, a, world)
  /\ OnIt(l, a, branches, handles, world)
  /\ Awaits(l, x, a, branches, handles, world)

\* What is right of a handler with the locals l and the call x, when the artifacts
\* are s.
Right(l, x, s) ==
  /\ Blank(l)
  /\ HasArtifact(l) => Measures(l, x, s[l.artifact]) /\ Mine(l, s[l.artifact])

Measuring(h) == Right(handler[h], call[h], artifacts)

\* A handler with these locals repairs its artifact.
Repairs(l) == l.kind = "repair" /\ l.at # "origin"

\* No repair works on the artifact of results that are being returned.
Apart == \A h, d \in Handlers :
  At(h, "heldout", "responding") /\ handler[d].kind = "repair" => handler[d].artifact # handler[h].artifact

\* The inductive invariant of what is measured.
MeasureInv == Artifacts /\ (\A h \in Handlers : Measuring(h)) /\ Apart

\* Whatever is said of a measurement stays true when the service moves.
LEMMA AboutMoves ==
  ASSUME WorldMoves, WorldTypes, NEW l, NEW a \in Artifact
  PROVE  /\ PastContext(a, world) => PastContext(a, world')
         /\ \A s : SceneOK(a, s, world) => SceneOK(a, s, world')
         /\ \A b \in Branch : About(l, a, b, world) => About(l, a, b, world')
<1>1. a.context.episode \in Nat /\ a.context.epoch \in Nat
  BY DEF Artifact, Ctx
<1>2. PastContext(a, world) => PastContext(a, world')
  BY <1>1, DatesMove DEF PastContext
<1>3. \A s : SceneOK(a, s, world) => SceneOK(a, s, world')
  BY <1>2 DEF SceneOK
<1>4. ASSUME NEW b \in Branch, About(l, a, b, world) PROVE About(l, a, b, world')
  <2>1. b.episode \in Nat /\ b.epoch \in Nat
    BY DEF Branch
  <2> QED
    BY <1>2, <1>4, <2>1, DatedMoves DEF About
<1> QED
  BY <1>2, <1>3, <1>4

\* The live world is the one of artifact a, or it is past.
LEMMA LiveScene ==
  ASSUME Base, CtxInv, Artifacts, NEW i \in 1..Len(artifacts)
  PROVE  \/ PastContext(artifacts[i], world)
         \/ /\ world.epoch = artifacts[i].context.epoch /\ world.episode = artifacts[i].context.episode
            /\ ~PastContext(artifacts[i], world) /\ SameStage(world.scene, artifacts[i])
<1> DEFINE a == artifacts[i]
<1>1. a.context \in Contexts /\ ArtifactOK(a, world)
  BY DEF CtxInv, Contexts, Artifacts
<1> HIDE DEF a
<1>2. a.context.episode \in Nat /\ a.context.epoch \in Nat /\ AtOrPast(a.context.episode, a.context.epoch, world)
  BY <1>1, ContextTypes DEF CtxInv, CtxOK, Traced
<1>3. world.epoch \in Nat /\ world.episode \in Nat
  BY DEF Base, Coherent, Types, SimTypeOK, World
<1>4. PastContext(a, world) \/ (~PastContext(a, world) /\ world.epoch = a.context.epoch /\
      world.episode = a.context.episode)
  BY <1>2, <1>3 DEF PastContext, Past, AtOrPast
<1>5. CASE world.episode = a.context.episode
  BY <1>1, <1>4, <1>5 DEF ArtifactOK, SameStage, Dated, a
<1> QED
  BY <1>4, <1>5 DEF a

LEMMA HoldsMoves ==
  ASSUME WorldMoves, WorldTypes, NEW l \in Locals, NEW a \in Artifact, Holds(l, a, world)
  PROVE  Holds(l, a, world')
<1>1. l.measured \subseteq Result /\ l.result \in Result \cup {None} /\ \A r \in Result : r.about \in Branch
  BY DEF Locals, Result
<1>2. \A r \in Result : About(l, a, r.about, world) => About(l, a, r.about, world')
  BY <1>1, AboutMoves
<1>3. l.result # None => About(l, a, l.result.about, world')
  BY <1>1, <1>2 DEF Holds, Evidence
<1>4. \A r \in l.measured : About(l, a, r.about, world')
  BY <1>1, <1>2 DEF Holds, Evidence
<1> QED
  BY <1>3, <1>4 DEF Holds, Evidence

LEMMA OnItMoves ==
  ASSUME SimFrame, WorldTypes, Types, NEW l \in Locals, NEW a \in Artifact, OnIt(l, a, branches, handles, world)
  PROVE  OnIt(l, a, branches', handles', world')
<1>1. l.branch \in Nat /\ WorldMoves /\ handles \in Nat
  BY DEF Locals, SimFrame
<1>2. l.branch <= handles'
  BY <1>1 DEF SimFrame, OnIt
<1>3. ASSUME l.at \in {"stepping", "resulting"}, l.branch \in DOMAIN branches' PROVE About(l, a,
             branches'[l.branch], world')
  <2>1. l.branch # handles + 1
    BY <1>1 DEF OnIt
  <2>2. l.branch \in DOMAIN branches /\ branches'[l.branch] = branches[l.branch]
    BY <1>3, <2>1 DEF SimFrame
  <2>3. branches[l.branch] \in Branch
    BY <2>2, BranchTypes
  <2> QED
    BY <1>1, <1>3, <2>2, <2>3, AboutMoves DEF OnIt
<1> QED
  BY <1>2, <1>3 DEF OnIt

LEMMA AwaitsMoves ==
  ASSUME SimFrame, WorldTypes, Types, NEW l \in Locals, NEW a \in Artifact, NEW x \in Call,
         Awaits(l, x, a, branches, handles, world)
  PROVE  Awaits(l, x, a, branches', handles', world')
<1>0. WorldMoves
  BY DEF SimFrame
<1>1. l.at = "sampling" /\ x.stage = "answered" => SceneOK(a, x.reply.about.scene, world')
  BY <1>0, AboutMoves DEF Awaits
<1>2. l.at = "forking" /\ Pending(x) => ForkOK(l, a, x.request, world')
  BY <1>0, AboutMoves DEF Awaits, ForkOK
<1>3. ASSUME l.at \in {"forking", "resulting"}, x.stage = "working" PROVE About(l, a, x.branch, world')
  <2>1. x.branch \in Branch
    BY <1>3 DEF Call, Idle, Refusal
  <2> QED
    BY <1>0, <1>3, <2>1, AboutMoves DEF Awaits
<1>4. ASSUME l.at = "forking", x.stage = "answered"
      PROVE  x.reply.handle <= handles' /\ (x.reply.handle \in DOMAIN branches' => About(l, a,
            branches'[x.reply.handle], world'))
  <2>1. x.reply.handle \in Nat /\ x.reply.handle <= handles /\ handles \in Nat
    BY <1>4, AnswersOfTypes DEF Awaits, SimFrame
  <2>2. x.reply.handle # handles + 1 /\ x.reply.handle <= handles'
    BY <2>1 DEF SimFrame
  <2>3. ASSUME x.reply.handle \in DOMAIN branches' PROVE About(l, a, branches'[x.reply.handle], world')
    <3>1. x.reply.handle \in DOMAIN branches /\ branches'[x.reply.handle] = branches[x.reply.handle]
      BY <2>2, <2>3 DEF SimFrame
    <3>2. branches[x.reply.handle] \in Branch
      BY <3>1, BranchTypes
    <3> QED
      BY <1>0, <1>4, <3>1, <3>2, AboutMoves DEF Awaits
  <2> QED
    BY <2>2, <2>3
<1>5. l.at = "resulting" /\ x.stage = "answered" => About(l, a, x.reply.about, world')
  BY <1>0, AboutMoves, AnswersOfTypes DEF Awaits
<1> QED
  BY <1>1, <1>2, <1>3, <1>4, <1>5 DEF Awaits

\* What the invariant says of a handler that works on an artifact.
LEMMA MeasurerHandler ==
  ASSUME Base, NEW h \in Handlers, HasArtifact(handler[h])
  PROVE  /\ handler[h] \in Locals /\ call[h] \in Call /\ handler[h].artifact \in 1..Len(artifacts)
         /\ handler[h].kind \in Measurers /\ artifacts[handler[h].artifact] \in Artifact
BY HandlerFacts, ArtifactFacts DEF ControlOK, HasArtifact, Measurers

\* The fork asked for is what is to be measured on.
LEMMA ForkIsAbout ==
  ASSUME Sound, CtxInv, Artifacts, NEW h \in Handlers, HasArtifact(handler[h]), handler[h].at = "forking",
         Mine(handler[h], OwnArtifact(h)),
         NEW r \in Request, r.op = "fork", Forkable(r), ForkOK(handler[h], OwnArtifact(h), r, world)
  PROVE  About(handler[h], OwnArtifact(h), ForkOf(r), world)
<1>0. Base /\ Dates /\ Types /\ SimTypeOK /\ handler[h].artifact \in 1..Len(artifacts)
  BY MeasurerHandler DEF Sound, Base, Coherent, Types
<1>1. CASE handler[h].kind = "heldout"
  <2>1. r.scene # Same /\ SceneOK(OwnArtifact(h), r.scene, world)
    BY <1>1 DEF ForkOK
  <2>2. ForkOf(r).epoch = world.epoch /\ ForkOf(r).scene = r.scene
    BY <2>1 DEF ForkOf, Copy, NewWorld
  <2>3. PastContext(OwnArtifact(h), world) \/ (world.epoch = OwnArtifact(h).context.epoch /\
        ~PastContext(OwnArtifact(h), world))
    BY <1>0, LiveScene DEF OwnArtifact
  <2> QED
    BY <1>1, <2>1, <2>2, <2>3 DEF About, SceneOK
<1>2. CASE handler[h].kind \in {"repair", "replay"}
  <2> DEFINE c == handler[h].context
  <2>1. r.scene = Same /\ r.checkpoint = c.checkpoint /\ c # None
    BY <1>2 DEF ForkOK, Mine
  <2>2. CtxOK(c)
    BY <2>1 DEF CtxInv, Contexts
  <2> HIDE DEF c
  <2>3. c.checkpoint # NoHandle
    BY <2>2 DEF CtxOK, Traced, NoHandle
  <2>4. \E k \in Kept(r.checkpoint) : TRUE
    BY <2>1, <2>3 DEF Forkable
  <2> DEFINE k == CHOOSE k \in Kept(r.checkpoint) : TRUE
  <2>5. k \in Kept(r.checkpoint)
    BY <2>4
  <2>6. ForkOf(r) = Copy(checkpoints[k].world, r.checkpoint)
    BY <2>1, <2>3 DEF ForkOf
  <2> HIDE DEF k
  <2>7. checkpoints[k].world.epoch = c.epoch /\ checkpoints[k].world.episode = c.episode
    BY <2>1, <2>2, <2>5 DEF Kept, CtxOK, Traced
  <2>8. Dated(ForkOf(r), world)
    BY <1>0, ForkIsDated
  <2> QED
    BY <1>2, <2>1, <2>6, <2>7, <2>8 DEF About, Copy, c
<1> QED
  BY <1>0, <1>1, <1>2, MeasurerHandler DEF Measurers

\* A request that the service answers or works on is awaited rightly.
LEMMA ServedRightly ==
  ASSUME Sound, CtxInv, MeasureInv, SimFrame, WorldTypes, NEW h \in Handlers, HasArtifact(handler[h]), Outcome(h)
  PROVE  Awaits(handler[h], call'[h], OwnArtifact(h), branches', handles', world')
<1> DEFINE l == handler[h]
           a == OwnArtifact(h)
           x == call[h]
           y == call'[h]
           Goal == Awaits(l, y, a, branches', handles', world')
<1> SUFFICES Goal
  OBVIOUS
<1>b. Base /\ Dates /\ Types /\ WorldMoves
  BY DEF Sound, Base, Coherent, SimFrame
<1>0. Base /\ Dates /\ Types /\ WorldMoves /\ l \in Locals /\ x \in Call /\ l.artifact \in 1..Len(artifacts)
  BY <1>b, MeasurerHandler
<1>1. a \in Artifact /\ Holds(l, a, world) /\ OnIt(l, a, branches, handles, world) /\ Awaits(l, x, a,
      branches, handles, world) /\ Mine(l, a)
  BY <1>0, ArtifactFacts DEF MeasureInv, Measuring, Right, Measures, OwnArtifact
<1>2. Pending(x) => RequestOK(l, x.request)
  BY <1>0, HandlerFacts DEF ControlOK
<1>3. /\ a.context.episode \in Nat /\ a.context.epoch \in Nat
      /\ \/ PastContext(a, world)
         \/ /\ world.epoch = a.context.epoch /\ world.episode = a.context.episode
            /\ ~PastContext(a, world) /\ SameStage(world.scene, a)
  BY <1>0, <1>1, LiveScene DEF MeasureInv, OwnArtifact, Artifact, Ctx
<1>l. Outcome(h)
  OBVIOUS
<1>f. ASSUME l.at = "forking", NEW r \in Request, r.op = "fork", Forkable(r), ForkOK(l, a, r, world)
      PROVE  About(l, a, ForkOf(r), world)
  BY <1>1, <1>f, ForkIsAbout DEF MeasureInv
<1> HIDE DEF l, a
<1>4. CASE y = x
  BY <1>0, <1>1, <1>4, AwaitsMoves
<1>5. CASE y = Refusal
  BY <1>5, StagesOfCalls DEF Awaits, Pending
<1>6. CASE TellsWorld(h)
  <2>1. y = Tell(world', NoHandle) /\ Pending(x) /\ l.at \notin {"forking", "resulting"}
    BY <1>2, <1>6 DEF TellsWorld, Pending, RequestOK
  <2>2. y.stage = "answered" /\ y.reply.about.episode = world'.episode /\
        y.reply.about.epoch = world'.epoch /\ y.reply.about.scene = world'.scene
    BY <2>1, TellEpisode
  <2>3. l.at \in {"sampling", "final"} => world' = world
    BY <1>2, <1>6, <2>1 DEF TellsWorld, RequestOK
  <2>4. l.at = "sampling" => SceneOK(a, world'.scene, world')
    BY <1>3, <2>3 DEF SceneOK
  <2>5. ASSUME l.at = "final", world'.epoch = a.context.epoch, world'.episode = a.context.episode,
               NEW r \in l.measured
        PROVE  r.about.epoch = a.context.epoch /\ SameStage(r.about.scene, a)
    <3>1. l.kind = "heldout" /\ About(l, a, r.about, world)
      BY <1>0, <1>1, <2>5, HandlerFacts DEF Holds, Evidence, ControlOK, StageOK, l, MeasureStages
    <3>2. ~PastContext(a, world)
      BY <1>3, <2>3, <2>5 DEF PastContext, Past
    <3> QED
      BY <3>1, <3>2 DEF About
  <2> QED
    BY <2>1, <2>2, <2>4, <2>5 DEF Awaits, Pending
<1>7. CASE Captures(h)
  <2>1. l.at \notin {"sampling", "forking", "resulting", "final"}
    BY <1>2, <1>7 DEF Captures, Asked, Pending, RequestOK
  <2> QED
    BY <2>1 DEF Awaits
<1>8. CASE Begins(h)
  <2>1. Pending(x) /\ world' = world /\ y.stage = "working" /\ y.request = x.request
    BY <1>8, StagesOfCalls DEF Begins, Pending
  <2>2. l.at \notin {"sampling", "final"}
    BY <1>2, <1>8, <2>1 DEF Begins, RequestOK
  <2>3. l.at = "forking" => ForkOK(l, a, x.request, world)
    BY <1>1, <2>1 DEF Awaits
  <2>4. ASSUME l.at = "forking" PROVE About(l, a, y.branch, world)
    <3>1. x.request.op = "fork" /\ x.request \in Request
      BY <1>0, <1>2, <2>1, <2>4, <1>8, OutcomeTypes, GatewayAssumption DEF RequestOK, Types, Begins
    <3>2. Forkable(x.request) /\ y.branch = ForkOf(x.request)
      BY <1>8, <3>1, StagesOfCalls DEF Begins
    <3> QED
      BY <1>f, <2>3, <2>4, <3>1, <3>2
  <2>5. ASSUME l.at = "resulting" PROVE About(l, a, y.branch, world)
    <3>1. x.request.op = "result" /\ x.request.branch = l.branch
      BY <1>2, <2>1, <2>5 DEF RequestOK
    <3>2. l.branch \in DOMAIN branches /\ y.branch = branches[l.branch]
      BY <1>8, <3>1, StagesOfCalls DEF Begins, Gettable
    <3> QED
      BY <1>1, <2>5, <3>2 DEF OnIt
  <2> QED
    BY <2>1, <2>2, <2>3, <2>4, <2>5 DEF Awaits, Pending
<1>9. CASE Forks(h)
  <2>1. y.stage = "answered" /\ y.reply.handle = handles + 1 /\ world' = world /\ handles' = handles + 1
        /\ branches'[handles + 1] = x.branch /\ handles \in Nat /\ x.stage = "working" /\ Pending(x) /\
           x.request.op = "fork"
    BY <1>9, StagesOfCalls DEF Forks, SimFrame, Working, Pending
  <2>2. l.at \notin {"sampling", "final", "resulting"}
    BY <1>2, <2>1 DEF RequestOK
  <2>3. l.at = "forking" => About(l, a, x.branch, world)
    BY <1>1, <2>1 DEF Awaits
  <2> QED
    BY <2>1, <2>2, <2>3 DEF Awaits, Pending
<1>10. CASE Evaluates(h)
  <2>1. l.at \notin {"sampling", "forking", "resulting", "final"}
    BY <1>2, <1>10 DEF Evaluates, Working, Pending, RequestOK
  <2> QED
    BY <2>1 DEF Awaits
<1>11. CASE Results(h)
  <2>1. y.stage = "answered" /\ y.reply.about = x.branch /\ world' = world /\ x.stage = "working" /\
        Pending(x) /\ x.request.op \in {"step", "result"}
    BY <1>11, StagesOfCalls DEF Results, Working, Pending
  <2>2. l.at \notin {"sampling", "final", "forking"}
    BY <1>2, <2>1 DEF RequestOK
  <2>3. l.at = "resulting" => About(l, a, x.branch, world)
    BY <1>1, <2>1 DEF Awaits
  <2> QED
    BY <2>1, <2>2, <2>3 DEF Awaits, Pending
<1> HIDE DEF x, y, Goal
<1> QED
  BY <1>l, <1>4, <1>5, <1>6, <1>7, <1>8, <1>9, <1>10, <1>11 DEF Outcome, x, y

\* The service keeps the invariant.
LEMMA MeasureUnderService ==
  ASSUME Sound, CtxInv, MeasureInv, ServiceMoves, SimFrame, WorldTypes
  PROVE  MeasureInv'
<1>0. Base /\ Types /\ UNCHANGED <<handler, artifacts>> /\ WorldMoves
  BY DEF Sound, Base, Coherent, ServiceMoves, gatewayVars, gatewayRest, SimFrame
<1>1. ASSUME NEW i \in 1..Len(artifacts') PROVE ArtifactOK(artifacts'[i], world')
  <2>1. ArtifactOK(artifacts[i], world) /\ artifacts[i] \in Artifact
    BY <1>0, ArtifactFacts DEF MeasureInv, Artifacts
  <2>2. artifacts[i].evaluation # None => artifacts[i].evaluation.about.episode \in Nat /\
        artifacts[i].evaluation.about.epoch \in Nat
    BY <2>1 DEF Artifact, Result, Branch
  <2> QED
    BY <1>0, <2>1, <2>2, DatedMoves DEF ArtifactOK
<1>2. ASSUME NEW h \in Handlers, HasArtifact(handler[h]) PROVE Measuring(h)'
  <2>1. /\ OwnArtifact(h) \in Artifact /\ handler[h] \in Locals /\ OwnArtifact(h)' = OwnArtifact(h)
        /\ Holds(handler[h], OwnArtifact(h), world) /\ OnIt(handler[h], OwnArtifact(h), branches, handles, world)
        /\ Mine(handler[h], OwnArtifact(h)) /\ Outcome(h)
    <3>1. handler[h] \in Locals /\ handler[h].artifact \in 1..Len(artifacts) /\ Measuring(h) /\ Outcome(h)
      BY <1>0, <1>2, MeasurerHandler DEF MeasureInv, ServiceMoves
    <3>2. OwnArtifact(h) \in Artifact /\ OwnArtifact(h)' = OwnArtifact(h)
      BY <1>0, <3>1, ArtifactFacts DEF OwnArtifact
    <3> QED
      BY <1>2, <3>1, <3>2 DEF Measuring, Right, Measures, OwnArtifact
  <2>2. Holds(handler[h], OwnArtifact(h), world') /\ OnIt(handler[h], OwnArtifact(h), branches', handles', world')
    BY <1>0, <2>1, HoldsMoves, OnItMoves
  <2>3. Awaits(handler[h], call'[h], OwnArtifact(h), branches', handles', world')
    BY <1>2, <2>1, ServedRightly
  <2> QED
    BY <1>0, <2>1, <2>2, <2>3 DEF MeasureInv, Measuring, Right, Measures, OwnArtifact
<1>3. Apart'
  BY <1>0 DEF MeasureInv, Apart, At
<1>4. ASSUME NEW h \in Handlers, ~HasArtifact(handler[h]) PROVE Measuring(h)'
  BY <1>0, <1>4 DEF MeasureInv, Measuring, Right, Measures, OwnArtifact
<1> QED
  BY <1>0, <1>1, <1>2, <1>3, <1>4 DEF MeasureInv, Artifacts

-----------------------------------------------------------------------------
(* Measurements, step by step.                                             *)

\* The fields of the locals that a measurement uses.
Fields == {"at", "kind", "context", "artifact", "count", "branch", "steps", "result", "measured", "tests",
   "submit", "scene"}

\* Locals m and l are of the same work.
SameWork(m, l) == m.kind = l.kind /\ m.context = l.context /\ m.artifact = l.artifact

LEMMA FieldsOfLocals ==
  /\ \A l \in Locals : Fields \subseteq DOMAIN l
  /\ Fields \subseteq DOMAIN Quiet
BY DEF Fields, Locals, Quiet

\* What does not depend on the other fields.
LEMMA AboutSame ==
  ASSUME NEW l, NEW m, NEW a, NEW c, NEW w, m.kind = l.kind, m.context = l.context,
         l.kind = "heldout" => c.context = a.context /\ c.evaluation = a.evaluation
  PROVE  /\ \A b : About(m, c, b, w) <=> About(l, a, b, w)
         /\ \A r : ForkOK(m, c, r, w) <=> ForkOK(l, a, r, w)
BY DEF About, ForkOK, PastContext, SameStage, SceneOK

LEMMA EvidenceSame ==
  ASSUME NEW l, NEW m, NEW a, NEW c, NEW w, m.kind = l.kind, m.context = l.context,
         l.kind = "heldout" => c = a,
         m.result # None => m.result = l.result /\ c.source = a.source,
         m.measured = l.measured, Evidence(l, a, w)
  PROVE  Evidence(m, c, w)
<1>1. \A b : About(m, c, b, w) <=> About(l, a, b, w)
  BY AboutSame
<1> QED
  BY <1>1 DEF Evidence

\* What handler h awaits after a step of its own is not there yet.
LEMMA StillAwaits ==
  ASSUME NEW l, NEW a, NEW y, y.stage \notin {"working", "answered"},
         l.at = "forking" /\ Pending(y) => ForkOK(l, a, y.request, world)
  PROVE  Awaits(l, y, a, branches, handles, world)
BY DEF Awaits

\* Where a handler is after it has gone on.
LEMMA Arrives ==
  ASSUME Base, NEW h \in Handlers, NEW l
  PROVE  /\ \A r : Await(h, l, r) => handler'[h] = l /\ call'[h] = Ask(r)
         /\ Continue(h, l) => handler'[h] = l /\ call'[h] = Idle
         /\ \A r : Ask(r).request = r /\ Ask(r).stage = "asked" /\ Idle.stage = "idle"
<1>1. handler \in [Handlers -> Locals] /\ call \in [Clients -> Call] /\ h \in Clients
  BY GatewayAssumption DEF Base, Coherent, Types, SimTypeOK
<1>2. \A r : Await(h, l, r) => handler'[h] = l /\ call'[h] = Ask(r)
  BY <1>1 DEF Await, SendRequest, Settle
<1>3. Continue(h, l) => handler'[h] = l /\ call'[h] = Idle
  BY <1>1 DEF Continue, Settle
<1>4. \A r : Ask(r).request = r /\ Ask(r).stage = "asked" /\ Idle.stage = "idle"
  BY DEF Ask, Idle
<1> QED
  BY <1>2, <1>3, <1>4

\* A step that measures nothing leaves what was measured.
LEMMA Plainly ==
  ASSUME NEW m, NEW a, NEW y, y.stage \notin {"working", "answered"}, m.at \notin {"forking", "stepping",
         "resulting"},
         m.result = None, m.branch <= handles, Evidence(m, a, world)
  PROVE  Measures(m, y, a)
BY StillAwaits DEF Measures, Holds, OnIt

\* The parts of evaluateSource measure what they should.
LEMMA CleansUp ==
  ASSUME Base, NEW h \in Handlers, NEW l, Fields \subseteq DOMAIN l, NEW a, CleanUp(h, l),
         Evidence(l, a, world), l.branch <= handles
  PROVE  /\ Measures(handler'[h], call'[h], a)
         /\ SameWork(handler'[h], l) /\ handler'[h].at \in {"deleting", "measured"}
<1> DEFINE m == [l EXCEPT !.at = "measured"]
           d == [l EXCEPT !.at = "deleting"]
<1>1. /\ \A x \in {m, d} : SameWork(x, l) /\ x.result = l.result /\ x.measured = l.measured /\ x.branch = l.branch
      /\ m.at = "measured" /\ d.at = "deleting"
  BY DEF Fields, SameWork
<1>2. \/ handler'[h] = m /\ call'[h] = Idle
      \/ \E r : handler'[h] = d /\ call'[h] = Ask(r)
  BY Arrives DEF CleanUp
<1> HIDE DEF m, d
<1>3. ASSUME NEW x \in {m, d}, NEW y, y.stage \notin {"working", "answered"} PROVE Measures(x, y, a)
  <2>1. Evidence(x, a, world)
    BY <1>1, EvidenceSame DEF SameWork
  <2>2. x.at \in {"deleting", "measured"} /\ x.branch <= handles
    BY <1>1
  <2> QED
    BY <1>3, <2>1, <2>2, StillAwaits DEF Measures, Holds, OnIt
<1> QED
  BY <1>1, <1>2, <1>3, Arrives

LEMMA Loops ==
  ASSUME Base, NEW h \in Handlers, NEW l, Fields \subseteq DOMAIN l, NEW a, MeasureLoop(h, l),
         Evidence(l, a, world), l.branch <= handles, l.result = None,
         l.branch \in DOMAIN branches => About(l, a, branches[l.branch], world)
  PROVE  /\ Measures(handler'[h], call'[h], a)
         /\ SameWork(handler'[h], l) /\ handler'[h].at \in {"stepping", "resulting", "deleting", "measured"}
<1>1. CASE CleanUp(h, l)
  BY <1>1, CleansUp
<1>2. ASSUME NEW x, NEW r, Await(h, x, r), x \in {[l EXCEPT !.at = "stepping", !.steps = @ + 1],
             [l EXCEPT !.at = "resulting"]}
      PROVE  /\ Measures(handler'[h], call'[h], a)
             /\ SameWork(handler'[h], l) /\ handler'[h].at \in {"stepping", "resulting", "deleting", "measured"}
  <2>1. SameWork(x, l) /\ x.result = None /\ x.measured = l.measured /\ x.branch = l.branch /\
        x.at \in {"stepping", "resulting"}
    BY <1>2 DEF Fields, SameWork
  <2>2. handler'[h] = x /\ call'[h].stage = "asked"
    BY <1>2, Arrives
  <2>3. Evidence(x, a, world) /\ (x.branch \in DOMAIN branches => About(x, a, branches[x.branch], world))
    BY <2>1, EvidenceSame, AboutSame DEF SameWork
  <2> QED
    BY <2>1, <2>2, <2>3, StillAwaits DEF Measures, Holds, OnIt
<1> QED
  BY <1>1, <1>2 DEF MeasureLoop

LEMMA MeasureBegins ==
  ASSUME Base, NEW h \in Handlers, NEW l, Fields \subseteq DOMAIN l, NEW a, NEW r, Measure(h, l, r),
         \A e \in l.measured : About(l, a, e.about, world) /\ (l.kind = "heldout" => e.source = a.source),
         ForkOK(l, a, r, world)
  PROVE  /\ Measures(handler'[h], call'[h], a)
         /\ SameWork(handler'[h], l) /\ handler'[h].at = "forking"
<1> DEFINE x == [l EXCEPT !.at = "forking", !.steps = 0, !.branch = NoHandle, !.result = None]
<1>1. SameWork(x, l) /\ x.result = None /\ x.measured = l.measured /\ x.branch = NoHandle /\ x.at = "forking"
  BY DEF Fields, SameWork
<1>2. handler'[h] = x /\ call'[h] = Ask(r) /\ call'[h].stage = "asked" /\ call'[h].request = r
  BY Arrives DEF Measure
<1> HIDE DEF x
<1>3. handles \in Nat /\ NoHandle <= handles
  BY DEF Base, Coherent, Types, SimTypeOK, NoHandle
<1>4. Evidence(x, a, world) /\ ForkOK(x, a, r, world)
  BY <1>1, AboutSame DEF SameWork, Evidence
<1> QED
  BY <1>1, <1>2, <1>3, <1>4, StillAwaits DEF Measures, Holds, OnIt

\* A handler that goes on with its work keeps what is its own.
LEMMA MineSame ==
  ASSUME NEW l, NEW m, NEW a, SameWork(m, l), Mine(l, a), l.at \notin {"origin", "saving"},
         m.at \notin {"origin", "live", "responding"}
  PROVE  Mine(m, a)
BY DEF Mine, SameWork

\* A handler that is not, or no longer, at work on an artifact.
LEMMA RightAtRest ==
  ASSUME NEW l, NEW x, NEW s, ~HasArtifact(l), l.at # "origin"
  PROVE  Right(l, x, s)
BY DEF Right, Blank

\* A handler before it has its artifact.
LEMMA RightAtOrigin ==
  ASSUME Base, NEW l, NEW x, NEW s, l.at = "origin", Blank(l)
  PROVE  Right(l, x, s)
<1>1. handles \in Nat /\ NoHandle <= handles
  BY DEF Base, Coherent, Types, SimTypeOK, NoHandle
<1> QED
  BY <1>1 DEF Right, Blank, Measures, Holds, Evidence, OnIt, Awaits, Mine

\* What the invariant says of a handler at work.
LEMMA AtWork ==
  ASSUME Base, MeasureInv, NEW h \in Handlers, HasArtifact(handler[h])
  PROVE  /\ Fields \subseteq DOMAIN handler[h] /\ handler[h] \in Locals /\ call[h] \in Call
         /\ OwnArtifact(h) \in Artifact /\ handler[h].artifact \in 1..Len(artifacts)
         /\ Holds(handler[h], OwnArtifact(h), world)
         /\ OnIt(handler[h], OwnArtifact(h), branches, handles, world)
         /\ Awaits(handler[h], call[h], OwnArtifact(h), branches, handles, world)
         /\ Mine(handler[h], OwnArtifact(h))
<1>1. Measuring(h)
  BY DEF MeasureInv
<1> QED
  BY <1>1, MeasurerHandler, FieldsOfLocals DEF Measuring, Right, Measures, OwnArtifact

\* A measurement of the same work is right.
LEMMA RightAtWork ==
  ASSUME NEW l, NEW m, NEW y, NEW a, Measures(m, y, a), SameWork(m, l), Mine(l, a), l.at \notin {"origin", "saving"},
         m.at \notin {"origin", "live", "responding"}, artifacts'[l.artifact] = a
  PROVE  Right(m, y, artifacts')
BY MineSame DEF Right, Blank, SameWork

\* Every step of a measurement is right.
LEMMA MeasureRight ==
  ASSUME Base, MeasureInv, NEW h \in Handlers,
         Forked(h) \/ Stepped(h) \/ MeasureResult(h) \/ MeasureThrows(h) \/ Cleaned(h)
  PROVE  Right(handler'[h], call'[h], artifacts')
<1> DEFINE l == handler[h]
           a == OwnArtifact(h)
           m == handler'[h]
           y == call'[h]
<1> SUFFICES Right(m, y, artifacts')
  OBVIOUS
<1>0. l.at \in {"forking", "stepping", "resulting", "deleting"} /\ HasArtifact(l) /\ UNCHANGED artifacts
  <2>1. l.at \in {"forking", "stepping", "resulting", "deleting"} /\ UNCHANGED artifacts
    BY DEF Forked, Stepped, MeasureResult, MeasureThrows, Cleaned, gatewayRest
  <2> QED
    BY <2>1, MeasurerFacts DEF MeasureStages, Measurers, HasArtifact
<1>1. /\ Fields \subseteq DOMAIN l /\ Holds(l, a, world) /\ OnIt(l, a, branches, handles, world)
      /\ Awaits(l, call[h], a, branches, handles, world) /\ Mine(l, a) /\ artifacts'[l.artifact] = a
  BY <1>0, AtWork DEF OwnArtifact
<1>2. Evidence(l, a, world) /\ l.branch <= handles /\ (l.result # None => l.at = "deleting")
  BY <1>0, <1>1 DEF Holds, OnIt
<1> HIDE DEF a
<1>3. ASSUME NEW k, SameWork(k, l), Measures(m, y, a), SameWork(m, k), m.at \in MeasureStages PROVE Right(m,
             y, artifacts')
  <2>1. SameWork(m, l)
    BY <1>3 DEF SameWork
  <2> QED
    BY <1>0, <1>1, <1>3, <2>1, RightAtWork DEF MeasureStages
<1>4. CASE Forked(h)
  <2> DEFINE k == [l EXCEPT !.branch = call[h].reply.handle]
  <2>1. l.at = "forking" /\ call[h].stage = "answered" /\ MeasureLoop(h, k)
    BY <1>4 DEF Forked, Answered
  <2>2. /\ Fields \subseteq DOMAIN k /\ SameWork(k, l) /\ k.result = l.result /\ k.measured = l.measured
        /\ k.branch = call[h].reply.handle
    BY <1>1 DEF Fields, SameWork
  <2> HIDE DEF k
  <2>3. k.branch <= handles /\ (k.branch \in DOMAIN branches => About(l, a, branches[k.branch], world))
    BY <1>1, <2>1, <2>2 DEF Awaits
  <2>4. Evidence(k, a, world) /\ k.result = None
    BY <1>2, <2>1, <2>2, EvidenceSame DEF SameWork
  <2>5. k.branch \in DOMAIN branches => About(k, a, branches[k.branch], world)
    BY <2>2, <2>3, AboutSame DEF SameWork
  <2> QED
    BY <1>3, <2>1, <2>2, <2>3, <2>4, <2>5, Loops DEF MeasureStages
<1>s. SameWork(l, l)
  BY DEF SameWork
<1>5. CASE Stepped(h)
  <2>1. l.at = "stepping" /\ MeasureLoop(h, l) /\ l.result = None
    BY <1>2, <1>5 DEF Stepped
  <2>2. l.branch \in DOMAIN branches => About(l, a, branches[l.branch], world)
    BY <1>1, <2>1 DEF OnIt
  <2> QED
    BY <1>1, <1>2, <1>3, <1>s, <2>1, <2>2, Loops DEF MeasureStages
<1>6. CASE MeasureResult(h)
  <2> DEFINE r == [about |-> Told(h), source |-> artifacts[handler[h].artifact].source,
             passed |-> call[h].reply.passed]
             k == [l EXCEPT !.result = r]
  <2>1. l.at = "resulting" /\ call[h].stage = "answered" /\ CleanUp(h, k)
    BY <1>6 DEF MeasureResult, Answered
  <2>2. r.about = call[h].reply.about /\ r.source = a.source
    BY DEF Told, OwnArtifact, a
  <2> HIDE DEF r
  <2>3. Fields \subseteq DOMAIN k /\ SameWork(k, l) /\ k.result = r /\ k.measured = l.measured /\ k.branch = l.branch
    BY <1>1 DEF Fields, SameWork
  <2> HIDE DEF k
  <2>4. About(l, a, call[h].reply.about, world)
    BY <1>1, <2>1 DEF Awaits
  <2>5. Evidence(k, a, world)
    <3>1. \A b : About(k, a, b, world) <=> About(l, a, b, world)
      BY <2>3, AboutSame DEF SameWork
    <3> QED
      BY <1>2, <2>2, <2>3, <2>4, <3>1 DEF Evidence, SameWork
  <2> QED
    BY <1>2, <1>3, <2>1, <2>3, <2>5, CleansUp DEF MeasureStages
<1>7. CASE MeasureThrows(h)
  <2>1. CleanUp(h, l)
    BY <1>7 DEF MeasureThrows
  <2> QED
    BY <1>1, <1>2, <1>3, <1>s, <2>1, CleansUp DEF MeasureStages
<1>8. CASE Cleaned(h)
  <2> DEFINE k == [l EXCEPT !.at = "measured"]
  <2>1. m = k /\ y.stage = "idle"
    BY <1>8, Arrives DEF Cleaned
  <2>2. SameWork(k, l) /\ k.result = l.result /\ k.measured = l.measured /\ k.branch = l.branch /\ k.at = "measured"
    BY <1>1 DEF Fields, SameWork
  <2> HIDE DEF k, m, y
  <2>3. Evidence(k, a, world)
    BY <1>2, <2>2, EvidenceSame DEF SameWork
  <2>4. Measures(m, y, a)
    BY <1>2, <2>1, <2>2, <2>3, StillAwaits DEF Measures, Holds, OnIt
  <2>5. SameWork(m, k) /\ m.at \in MeasureStages
    BY <2>1, <2>2 DEF SameWork, MeasureStages
  <2> QED
    BY <1>3, <2>2, <2>4, <2>5
<1> QED
  BY <1>4, <1>5, <1>6, <1>7, <1>8

\* Every artifact is right after the step.
ArtifactsRight == \A i \in 1..Len(artifacts') : ArtifactOK(artifacts'[i], world)

\* A repair that writes a right artifact.
LEMMA WrittenRight ==
  ASSUME Base, MeasureInv, NEW h \in Handlers, Repairs(handler[h]), NEW v \in Artifact,
         Write(handler[h].artifact, v), ArtifactOK(v, world)
  PROVE  ArtifactsRight /\ artifacts'[handler[h].artifact] = v
<1>1. handler[h].artifact \in 1..Len(artifacts) /\ artifacts \in Seq(Artifact)
  BY WorkingRepair DEF Repairs
<1>2. Len(artifacts') = Len(artifacts) /\
      \A b \in 1..Len(artifacts) : artifacts'[b] = IF b = handler[h].artifact THEN v ELSE artifacts[b]
  BY <1>1, Written DEF Write
<1> QED
  BY <1>1, <1>2 DEF ArtifactsRight, MeasureInv, Artifacts

\* A handler that ends.
LEMMA EndsRight ==
  ASSUME Base, NEW h \in Handlers, End(h)
  PROVE  Right(handler'[h], call'[h], artifacts')
<1>1. handler'[h] = Quiet
  BY Arrives DEF End
<1> QED
  BY <1>1, RightAtRest DEF Quiet, HasArtifact

\* What a repair works on.
LEMMA RepairAtWork ==
  ASSUME Base, MeasureInv, NEW h \in Handlers, Repairs(handler[h])
  PROVE  /\ HasArtifact(handler[h]) /\ OwnArtifact(h) \in Artifact /\ handler[h].kind = "repair" /\
            handler[h].at # "origin"
         /\ Evidence(handler[h], OwnArtifact(h), world) /\ handler[h].branch <= handles
         /\ OwnArtifact(h).context = handler[h].context /\ handler[h].context # None
         /\ (handler[h].at # "saving" => OwnArtifact(h).status # "passed")
         /\ (handler[h].result # None => handler[h].at \in {"deleting", "measured"})
         /\ ArtifactOK(OwnArtifact(h), world) /\ NoHandle <= handles
<1>1. HasArtifact(handler[h]) /\ handles \in Nat
  BY DEF Repairs, HasArtifact, Base, Coherent, Types, SimTypeOK
<1> QED
  BY <1>1, AtWork DEF Repairs, Holds, OnIt, Mine, NoHandle, MeasureInv, Artifacts, OwnArtifact

\* What is a repair's own, and when it is right.
LEMMA MineOfRepair ==
  ASSUME NEW m, NEW v, m.kind = "repair", v.context = m.context, m.context # None,
         m.at # "saving" => v.status # "passed", m.at # "live"
  PROVE  Mine(m, v)
BY DEF Mine

LEMMA RightOfRepair ==
  ASSUME NEW m, NEW y, NEW i, NEW v, m.kind = "repair", m.at # "origin", m.artifact = i, artifacts'[i] = v,
         Measures(m, y, v), Mine(m, v)
  PROVE  Right(m, y, artifacts')
BY DEF Right, Blank

\* A turn of the loop that inspects, and one that brings a candidate.
LEMMA InspectRight ==
  ASSUME Base, MeasureInv, NEW h \in Handlers, Inspect(h)
  PROVE  Right(handler'[h], call'[h], artifacts')
<1> DEFINE l == handler[h]
           a == OwnArtifact(h)
           m == [l EXCEPT !.at = "thinking", !.count = @ + 1, !.submit = FALSE]
<1>1. Repairs(l) /\ l.at = "thinking" /\ UNCHANGED artifacts
  BY DEF Inspect, At, Repairs, gatewayRest
<1>2. /\ a \in Artifact /\ l.kind = "repair" /\ Evidence(l, a, world) /\ l.branch <= handles /\
         a.context = l.context /\ l.context # None
      /\ a.status # "passed" /\ l.result = None
  BY <1>1, RepairAtWork
<1>3. Fields \subseteq DOMAIN l /\ artifacts'[l.artifact] = a
  BY <1>1, RepairAtWork, AtWork DEF OwnArtifact
<1>4. handler'[h] = m /\ call'[h].stage = "idle"
  BY Arrives DEF Inspect, NextTurn
<1>5. SameWork(m, l) /\ m.at = "thinking" /\ m.result = l.result /\ m.measured = l.measured /\ m.branch = l.branch
  BY <1>3 DEF Fields, SameWork
<1> HIDE DEF l, a, m
<1>6. Measures(m, call'[h], a)
  BY <1>2, <1>4, <1>5, EvidenceSame, Plainly DEF SameWork
<1>7. Mine(m, a)
  BY <1>2, <1>5, MineOfRepair DEF SameWork
<1> QED
  BY <1>2, <1>3, <1>4, <1>5, <1>6, <1>7, RightOfRepair DEF SameWork

LEMMA CandidateRight ==
  ASSUME Base, MeasureInv, NEW h \in Handlers, NEW source \in Sources, NEW submit \in BOOLEAN, Candidate(h,
         source, submit)
  PROVE  Right(handler'[h], call'[h], artifacts') /\ ArtifactsRight
<1> DEFINE l0 == handler[h]
           a == OwnArtifact(h)
           l == [l0 EXCEPT !.submit = submit]
           v == [a EXCEPT !.source = source, !.status = "testing"]
           m == handler'[h]
           y == call'[h]
<1>1. Repairs(l0) /\ l0.at = "thinking"
  BY DEF Candidate, At, Repairs
<1>2. /\ a \in Artifact /\ l0.kind = "repair" /\ Evidence(l0, a, world) /\ l0.branch <= handles /\
         a.context = l0.context /\ l0.context # None
      /\ l0.result = None /\ ArtifactOK(a, world) /\ Fields \subseteq DOMAIN l0
  BY <1>1, RepairAtWork, AtWork
<1>3. Fields \subseteq DOMAIN l /\ SameWork(l, l0) /\ l.result = None /\ l.measured = l0.measured /\
      l.branch = l0.branch /\ l.at = "thinking"
  BY <1>1, <1>2 DEF Fields, SameWork
<1>4. v \in Artifact /\ v.context = a.context /\ v.evaluation = a.evaluation /\ v.source = source /\
      v.status = "testing"
  <2>1. v \in Artifact
    BY <1>2, WritesOfTypes
  <2>2. v.context = a.context /\ v.evaluation = a.evaluation /\ v.source = source /\ v.status = "testing"
    BY <1>2 DEF Artifact
  <2> QED
    BY <2>1, <2>2
<1>5. artifacts[l.artifact] = a
  BY <1>3 DEF OwnArtifact, SameWork
<1>c. /\ Write(l.artifact, v)
      /\ \/ \E e \in Tested(l, source) : Continue(h, [l EXCEPT !.at = "measured", !.result = e])
         \/ Measure(h, [l EXCEPT !.tests = @ + 1], FromCheckpoint("fork", l.context.checkpoint))
         \/ NextTurn(h, l)
  BY <1>5 DEF Candidate
<1> HIDE DEF l, a, v, m, y
<1>6. ArtifactOK(v, world)
  BY <1>2, <1>4 DEF ArtifactOK
<1>7. ArtifactsRight /\ artifacts'[l.artifact] = v
  BY <1>1, <1>3, <1>4, <1>6, <1>c, WrittenRight DEF SameWork
<1>8. \A r \in l.measured : About(l, v, r.about, world) /\ l.kind # "heldout"
  BY <1>2, <1>3, AboutSame DEF Evidence, SameWork
<1> SUFFICES Right(m, y, artifacts')
  BY <1>7 DEF m, y
<1>9. ASSUME NEW k, SameWork(k, l), k.at \notin {"origin", "live", "saving"}, Measures(k, y, v), m = k
      PROVE Right(m, y, artifacts')
  <2>1. k.kind = "repair" /\ k.context = v.context /\ k.context # None /\ artifacts'[k.artifact] = v
    BY <1>2, <1>3, <1>4, <1>7, <1>9 DEF SameWork
  <2> QED
    BY <1>4, <1>9, <2>1, MineOfRepair, RightOfRepair
<1>10. ASSUME NEW e \in Tested(l, source), Continue(h, [l EXCEPT !.at = "measured", !.result = e])
      PROVE Right(m, y, artifacts')
  <2> DEFINE k == [l EXCEPT !.at = "measured", !.result = e]
  <2>1. m = k /\ y.stage = "idle"
    BY <1>10, Arrives DEF m, y
  <2>2. SameWork(k, l) /\ k.at = "measured" /\ k.result = e /\ k.measured = l.measured /\ k.branch = l.branch
    BY <1>3 DEF Fields, SameWork
  <2> HIDE DEF k
  <2>3. e \in l.measured /\ e.source = source
    BY DEF Tested
  <2>4. Evidence(k, v, world)
    <3>1. \A b : About(k, v, b, world) <=> About(l, v, b, world)
      BY <2>2, AboutSame DEF SameWork
    <3> QED
      BY <1>4, <1>8, <2>2, <2>3, <3>1 DEF Evidence, SameWork
  <2>5. Measures(k, y, v)
    BY <1>2, <1>3, <2>1, <2>2, <2>4, StillAwaits DEF Measures, Holds, OnIt
  <2> QED
    BY <1>9, <2>1, <2>2, <2>5
<1>11. ASSUME Measure(h, [l EXCEPT !.tests = @ + 1], FromCheckpoint("fork", l.context.checkpoint))
      PROVE Right(m, y, artifacts')
  <2> DEFINE k == [l EXCEPT !.tests = @ + 1]
             r == FromCheckpoint("fork", l.context.checkpoint)
  <2>1. Fields \subseteq DOMAIN k /\ SameWork(k, l) /\ k.measured = l.measured
    BY <1>3 DEF Fields, SameWork
  <2>2. ForkOK(l, v, r, world)
    BY <1>2, <1>3 DEF ForkOK, FromCheckpoint, SameWork
  <2>m. Measure(h, k, r)
    BY <1>11
  <2> HIDE DEF k, r
  <2>3. ForkOK(k, v, r, world) /\ \A b : About(k, v, b, world) <=> About(l, v, b, world)
    BY <2>1, <2>2, AboutSame DEF SameWork
  <2>4. Measures(m, y, v) /\ SameWork(m, k) /\ m.at = "forking"
    BY <1>8, <2>1, <2>3, <2>m, MeasureBegins DEF SameWork, m, y
  <2> QED
    BY <1>9, <2>1, <2>4 DEF SameWork
<1>12. ASSUME NextTurn(h, l) PROVE Right(m, y, artifacts')
  <2> DEFINE k == [l EXCEPT !.at = "thinking", !.count = @ + 1, !.submit = FALSE]
  <2>1. m = k /\ y.stage = "idle"
    BY <1>12, Arrives DEF NextTurn, m, y
  <2>2. SameWork(k, l) /\ k.at = "thinking" /\ k.result = None /\ k.measured = l.measured /\ k.branch = l.branch
    BY <1>3 DEF Fields, SameWork
  <2> HIDE DEF k
  <2>3. \A b : About(k, v, b, world) <=> About(l, v, b, world)
    BY <2>2, AboutSame DEF SameWork
  <2>4. Evidence(k, v, world)
    BY <1>8, <2>2, <2>3 DEF Evidence, SameWork
  <2> QED
    BY <1>2, <1>3, <1>9, <2>1, <2>2, <2>4, Plainly
<1> QED
  BY <1>c, <1>10, <1>11, <1>12

\* The measurement of a candidate is judged.
LEMMA RepairMeasuredRight ==
  ASSUME Base, MeasureInv, NEW h \in Handlers, RepairMeasured(h)
  PROVE  Right(handler'[h], call'[h], artifacts') /\ ArtifactsRight
<1> DEFINE l0 == handler[h]
           a == OwnArtifact(h)
           l == [l0 EXCEPT !.measured = @ \cup ({l0.result} \ {None}), !.result = None, !.branch = NoHandle,
              !.steps = 0]
           v == Judge(a, l0.result)
           e == [v EXCEPT !.status = "error"]
           m == handler'[h]
           y == call'[h]
<1>1. Repairs(l0) /\ l0.at = "measured"
  BY DEF RepairMeasured, At, Repairs
<1>2. /\ a \in Artifact /\ l0.kind = "repair" /\ Evidence(l0, a, world) /\ a.context = l0.context /\ l0.context # None
      /\ a.status # "passed" /\ ArtifactOK(a, world) /\ NoHandle <= handles
  BY <1>1, RepairAtWork
<1>f. Fields \subseteq DOMAIN l0 /\ l0 \in Locals
  BY <1>1, RepairAtWork, AtWork
<1>3. /\ Fields \subseteq DOMAIN l /\ SameWork(l, l0) /\ l.result = None /\ l.branch = NoHandle
      /\ l.measured = l0.measured \cup ({l0.result} \ {None})
  BY <1>f DEF Fields, SameWork
<1>4. /\ v \in Artifact /\ v.context = a.context /\ v.evaluation = l0.result /\ v.source = a.source /\
         v.status = a.status
      /\ e \in Artifact /\ e.context = a.context /\ e.evaluation = l0.result /\ e.source = a.source /\
         e.status = "error"
  <2>1. v \in Artifact /\ e \in Artifact
    BY <1>2, <1>f, WritesOfTypes DEF Locals
  <2>2. v.context = a.context /\ v.evaluation = l0.result /\ v.source = a.source /\ v.status = a.status
    BY <1>2 DEF Artifact, Judge
  <2>3. e.context = v.context /\ e.evaluation = v.evaluation /\ e.source = v.source /\ e.status = "error"
    <3> HIDE DEF v
    <3> QED
      BY <2>1 DEF Artifact
  <2> QED
    BY <2>1, <2>2, <2>3
<1>5. artifacts[l.artifact] = a
  BY <1>3 DEF OwnArtifact, SameWork
<1>c. \/ /\ Write(l.artifact, v)
         /\ IF l.submit THEN Await(h, [l EXCEPT !.at = "live"], LookAt("state")) ELSE NextTurn(h, l)
      \/ Write(l.artifact, e) /\ End(h)
  BY <1>5 DEF RepairMeasured, EndJob
<1> HIDE DEF l, a, v, e, m, y
<1>6. ArtifactOK(v, world) /\ ArtifactOK(e, world)
  <2>1. ASSUME l0.result # None
        PROVE  /\ l0.result.about.origin = a.context.checkpoint
               /\ l0.result.about.epoch = a.context.epoch /\ l0.result.about.episode = a.context.episode
               /\ Dated(l0.result.about, world)
    BY <1>2, <2>1 DEF Evidence, About
  <2> QED
    BY <1>2, <1>4, <2>1 DEF ArtifactOK
<1>7. \A x \in {v, e} : Write(l.artifact, x) => ArtifactsRight /\ artifacts'[l.artifact] = x
  BY <1>1, <1>3, <1>4, <1>6, WrittenRight DEF SameWork
<1>8. CASE Write(l.artifact, e) /\ End(h)
  BY <1>7, <1>8, EndsRight
<1>9. ASSUME NEW k, NEW n, Write(l.artifact, v), SameWork(k, l), k.at \in {"live", "thinking"},
             k.result = None, k.measured = l.measured,
             k.branch = l.branch, m = k, y = n, n.stage \in {"asked", "idle"}
      PROVE  Right(m, y, artifacts')
  <2>1. \A b : About(k, v, b, world) <=> About(l0, a, b, world)
    BY <1>2, <1>3, <1>9, AboutSame DEF SameWork
  <2>2. Evidence(k, v, world)
    BY <1>2, <1>3, <1>9, <2>1 DEF Evidence, SameWork
  <2>3. Measures(k, y, v)
    BY <1>2, <1>3, <1>9, <2>2, Plainly
  <2>4. v.evaluation # None => v.evaluation.source = v.source
    BY <1>2, <1>4 DEF Evidence
  <2>5. Mine(k, v)
    BY <1>2, <1>3, <1>4, <1>9, <2>4 DEF Mine, SameWork
  <2> QED
    BY <1>2, <1>3, <1>7, <1>9, <2>3, <2>5, RightOfRepair DEF SameWork
<1>10. CASE Write(l.artifact, v) /\ Await(h, [l EXCEPT !.at = "live"], LookAt("state"))
  <2> DEFINE k == [l EXCEPT !.at = "live"]
  <2>1. m = k /\ y.stage = "asked"
    BY <1>10, Arrives DEF m, y
  <2>2. SameWork(k, l) /\ k.at = "live" /\ k.result = None /\ k.measured = l.measured /\ k.branch = l.branch
    BY <1>3 DEF Fields, SameWork
  <2> HIDE DEF k
  <2> QED
    BY <1>7, <1>9, <1>10, <2>1, <2>2 DEF m, y
<1>11. CASE Write(l.artifact, v) /\ NextTurn(h, l)
  <2> DEFINE k == [l EXCEPT !.at = "thinking", !.count = @ + 1, !.submit = FALSE]
  <2>1. m = k /\ y.stage = "idle"
    BY <1>11, Arrives DEF NextTurn, m, y
  <2>2. SameWork(k, l) /\ k.at = "thinking" /\ k.result = None /\ k.measured = l.measured /\ k.branch = l.branch
    BY <1>3 DEF Fields, SameWork
  <2> HIDE DEF k
  <2> QED
    BY <1>7, <1>9, <1>11, <2>1, <2>2 DEF m, y
<1> QED
  BY <1>c, <1>8, <1>10, <1>11

\* The promotion writes the verdict on what was measured.
LEMMA PromoteRight ==
  ASSUME Base, MeasureInv, NEW h \in Handlers, Promote(h)
  PROVE  Right(handler'[h], call'[h], artifacts') /\ ArtifactsRight
<1> DEFINE l == handler[h]
           a == OwnArtifact(h)
           v == Verdict(a)
           m == [l EXCEPT !.at = "saving"]
<1>1. Repairs(l) /\ l.at = "live"
  BY DEF Promote, At, Repairs
<1>2. /\ a \in Artifact /\ l.kind = "repair" /\ Evidence(l, a, world) /\ l.branch <= handles /\
         a.context = l.context /\ l.context # None
      /\ l.result = None /\ ArtifactOK(a, world) /\ Fields \subseteq DOMAIN l
  BY <1>1, RepairAtWork, AtWork
<1>3. a.evaluation # None => a.evaluation.source = a.source
  BY <1>1, RepairAtWork, AtWork DEF Mine
<1>4. v \in Artifact
  BY <1>2, WritesOfTypes
<1>5. /\ v.context = a.context /\ v.evaluation = a.evaluation /\ v.source = a.source
      /\ v.status = "passed" => a.evaluation # None /\ a.evaluation.passed
  BY <1>2 DEF Verdict, Artifact
<1>6. Write(l.artifact, v) /\ handler'[h] = m /\ call'[h].stage = "idle"
  BY Arrives DEF Promote, OwnArtifact
<1>7. SameWork(m, l) /\ m.at = "saving" /\ m.result = None /\ m.measured = l.measured /\ m.branch = l.branch
  BY <1>2 DEF Fields, SameWork
<1> HIDE DEF l, a, v, m
<1>8. ArtifactOK(v, world)
  BY <1>2, <1>3, <1>5 DEF ArtifactOK
<1>9. ArtifactsRight /\ artifacts'[l.artifact] = v
  BY <1>1, <1>4, <1>6, <1>8, WrittenRight DEF l
<1>10. Evidence(m, v, world)
  BY <1>2, <1>5, <1>7, EvidenceSame DEF SameWork
<1>11. Measures(m, call'[h], v)
  BY <1>2, <1>6, <1>7, <1>10, Plainly
<1>12. Mine(m, v)
  BY <1>2, <1>5, <1>7, MineOfRepair DEF SameWork
<1> QED
  BY <1>2, <1>6, <1>7, <1>9, <1>11, <1>12, RightOfRepair DEF SameWork

\* A repair that throws.
LEMMA RepairEndsRight ==
  ASSUME Base, MeasureInv, NEW h \in Handlers, RepairThrows(h)
  PROVE  Right(handler'[h], call'[h], artifacts') /\ ArtifactsRight
<1> DEFINE a == OwnArtifact(h)
           v == [a EXCEPT !.status = "error"]
<1>1. Repairs(handler[h]) /\ Write(handler[h].artifact, v) /\ End(h)
  BY DEF RepairThrows, Repairs, EndJob, OwnArtifact
<1>2. a \in Artifact /\ ArtifactOK(a, world)
  BY <1>1, RepairAtWork
<1> HIDE DEF a
<1>3. v \in Artifact
  BY <1>2, WritesOfTypes
<1>4. v.context = a.context /\ v.evaluation = a.evaluation /\ v.source = a.source /\ v.status = "error"
  BY <1>2 DEF Artifact
<1> HIDE DEF v
<1>5. ArtifactOK(v, world)
  BY <1>2, <1>4 DEF ArtifactOK
<1> QED
  BY <1>1, <1>3, <1>5, WrittenRight, EndsRight

\* A repair that begins.
LEMMA BeginRepairRight ==
  ASSUME Base, MeasureInv, NEW h \in Handlers, BeginRepair(h)
  PROVE  Right(handler'[h], call'[h], artifacts') /\ ArtifactsRight
<1> DEFINE l == handler[h]
           i == Len(artifacts) + 1
           v == NewArtifact(failure)
           m == [l EXCEPT !.at = "thinking", !.context = failure, !.artifact = i, !.count = 1]
<1>1. /\ l.at = "origin" /\ l.kind = "repair" /\ l \in Locals /\ Fields \subseteq DOMAIN l
      /\ l.measured = {} /\ l.result = None /\ l.branch = NoHandle
  BY HandlerFacts, FieldsOfLocals DEF BeginRepair, At, MeasureInv, Measuring, Right, Blank
<1>2. failure # None /\ artifacts'[i] = v /\ v.context = failure /\ v.status = "generating" /\ v.evaluation = None
  BY ArtifactAppended DEF NewArtifact
<1>3. ArtifactsRight
  <2>1. ArtifactOK(v, world)
    BY <1>2 DEF ArtifactOK
  <2> QED
    BY <1>2, <2>1, ArtifactAppended DEF ArtifactsRight, MeasureInv, Artifacts
<1>4. handles \in Nat /\ NoHandle <= handles
  BY DEF Base, Coherent, Types, SimTypeOK, NoHandle
<1>5. CASE End(h)
  BY <1>3, <1>5, EndsRight
<1>6. CASE Continue(h, m)
  <2>1. handler'[h] = m /\ call'[h].stage = "idle"
    BY <1>6, Arrives
  <2>2. m.kind = "repair" /\ m.at = "thinking" /\ m.context = failure /\ m.artifact = i /\ m.measured = {} /\
        m.result = None /\ m.branch = NoHandle
    BY <1>1 DEF Fields
  <2> HIDE DEF m, v, i
  <2>3. Evidence(m, v, world)
    BY <2>2 DEF Evidence
  <2>4. Measures(m, call'[h], v)
    BY <1>4, <2>1, <2>2, <2>3, Plainly
  <2>5. Mine(m, v)
    BY <1>2, <2>2, MineOfRepair
  <2> QED
    BY <1>2, <1>3, <2>1, <2>2, <2>4, <2>5, RightOfRepair
<1> QED
  BY <1>5, <1>6 DEF BeginRepair

\* What a handler works on whose artifact was selected.
LEMMA SelectedAtWork ==
  ASSUME Base, MeasureInv, NEW h \in Handlers, handler[h].kind \in {"replay", "heldout"}
  PROVE  /\ HasArtifact(handler[h]) /\ OwnArtifact(h) \in Artifact /\ handler[h].artifact \in 1..Len(artifacts)
         /\ Fields \subseteq DOMAIN handler[h] /\ handler[h] \in Locals /\ call[h] \in Call
         /\ Blank(handler[h]) /\ Evidence(handler[h], OwnArtifact(h), world) /\ handler[h].branch <= handles
         /\ (handler[h].result # None => handler[h].at \in {"deleting", "measured"})
         /\ Awaits(handler[h], call[h], OwnArtifact(h), branches, handles, world)
         /\ NoHandle <= handles
<1>1. HasArtifact(handler[h]) /\ handles \in Nat
  BY DEF HasArtifact, Base, Coherent, Types, SimTypeOK
<1>2. Blank(handler[h])
  BY DEF MeasureInv, Measuring, Right
<1> QED
  BY <1>1, <1>2, AtWork DEF Holds, OnIt, NoHandle

\* Every step of a replay is right: the failure its checkpoint is of has the
\* episode of the artifact, hence is the one it was repaired for.
LEMMA ReplayRight ==
  ASSUME Base, CtxInv, MeasureInv, NEW h \in Handlers, BeginReplay(h) \/ Replayed(h)
  PROVE  Right(handler'[h], call'[h], artifacts')
<1>1. CASE Replayed(h)
  BY <1>1, EndsRight DEF Replayed, EndJob
<1>2. CASE BeginReplay(h)
  <2> DEFINE l == handler[h]
             a == OwnArtifact(h)
             k == [l EXCEPT !.context = failure]
             r == FromCheckpoint("fork", failure.checkpoint)
             m == handler'[h]
             y == call'[h]
  <2>1. l.at = "origin" /\ l.kind = "replay" /\ UNCHANGED artifacts /\ Measure(h, k, r)
    BY <1>2 DEF BeginReplay, At
  <2>2. /\ Fields \subseteq DOMAIN l /\ l.measured = {} /\ l.artifact \in 1..Len(artifacts) /\
           artifacts'[l.artifact] = a
    BY <2>1, SelectedAtWork DEF Blank, OwnArtifact
  <2>3. failure = a.context /\ failure # None
    <3>1. failure # None /\ failure.episode = a.context.episode
      BY <1>2 DEF BeginReplay, Replayable, FailureOf, OwnArtifact
    <3>2. a.context # None
      BY <2>2 DEF CtxInv, OwnArtifact
    <3>3. failure \in Contexts /\ a.context \in Contexts
      BY <2>2, <3>1, <3>2 DEF Contexts, OwnArtifact
    <3> QED
      BY <3>1, <3>3 DEF CtxInv
  <2>4. /\ Fields \subseteq DOMAIN k /\ k.kind = "replay" /\ k.context = failure /\ k.measured = {} /\
           k.artifact = l.artifact
    BY <2>1, <2>2 DEF Fields
  <2>5. ForkOK(k, a, r, world)
    BY <2>4 DEF ForkOK, FromCheckpoint
  <2> HIDE DEF l, a, k, r, m, y
  <2>6. Measures(m, y, a) /\ SameWork(m, k) /\ m.at = "forking"
    BY <2>1, <2>4, <2>5, MeasureBegins DEF m, y
  <2>7. Mine(m, a)
    BY <2>3, <2>4, <2>6 DEF Mine, SameWork
  <2>8. Right(m, y, artifacts')
    BY <2>2, <2>4, <2>6, <2>7 DEF Right, Blank, SameWork
  <2> QED
    BY <2>8 DEF m, y
<1> QED
  BY <1>1, <1>2

\* A held-out run between two measurements.
LEMMA HeldOutPlainly ==
  ASSUME NEW m, NEW y, NEW a, y.stage \notin {"working", "answered"}, m.kind = "heldout",
         m.at \in {"template", "rechecking", "sampling", "final"}, m.result = None, m.branch <= handles,
            Evidence(m, a, world),
         artifacts'[m.artifact] = a
  PROVE  Right(m, y, artifacts')
<1>1. Measures(m, y, a)
  BY Plainly
<1> QED
  BY <1>1 DEF Right, Blank, Mine

\* The next held-out trial is on the stage just read.
LEMMA NextHeldOutRight ==
  ASSUME Base, NEW h \in Handlers, NEW l, Fields \subseteq DOMAIN l, NEW a, NextHeldOut(h, l), l.kind = "heldout",
         l.result = None, l.branch <= handles, Evidence(l, a, world), artifacts'[l.artifact] = a
  PROVE  Right(handler'[h], call'[h], artifacts')
<1>1. ASSUME NEW k, NEW r, k \in {[l EXCEPT !.at = "rechecking", !.count = @ + 1],
             [l EXCEPT !.at = "final"]}, Await(h, k, r)
      PROVE  Right(handler'[h], call'[h], artifacts')
  <2>1. /\ SameWork(k, l) /\ k.result = None /\ k.measured = l.measured /\ k.branch = l.branch /\
           k.at \in {"rechecking", "final"}
    BY <1>1 DEF Fields, SameWork
  <2>2. handler'[h] = k /\ call'[h].stage = "asked"
    <3>1. Await(h, k, r)
      BY <1>1
    <3> QED
      BY <3>1, Arrives
  <2>3. Evidence(k, a, world)
    BY <2>1, EvidenceSame DEF SameWork
  <2> QED
    BY <2>1, <2>2, <2>3, HeldOutPlainly DEF SameWork
<1> QED
  BY <1>1 DEF NextHeldOut

\* Every step of the held-out trials is right.
LEMMA HeldOutRight ==
  ASSUME Base, MeasureInv, NEW h \in Handlers,
         BeginHeldOut(h) \/ HeldOutTemplate(h) \/ HeldOutRechecked(h) \/ HeldOutSampled(h) \/ HeldOutMeasured(h)
           \/ HeldOutReturns(h) \/ HeldOutResponds(h) \/ HeldOutThrows(h)
  PROVE  Right(handler'[h], call'[h], artifacts')
<1> DEFINE l == handler[h]
           a == OwnArtifact(h)
           m == handler'[h]
           y == call'[h]
<1> SUFFICES Right(m, y, artifacts')
  OBVIOUS
<1>1. l.kind = "heldout" /\ UNCHANGED artifacts
  BY DEF BeginHeldOut, HeldOutTemplate, HeldOutRechecked, HeldOutSampled, HeldOutMeasured, HeldOutReturns,
     HeldOutResponds, HeldOutThrows, At, gatewayRest
<1>2. /\ Fields \subseteq DOMAIN l /\ l \in Locals /\ call[h] \in Call /\ a \in Artifact
      /\ Evidence(l, a, world) /\ l.branch <= handles /\ Blank(l)
      /\ (l.result # None => l.at \in {"deleting", "measured"})
      /\ Awaits(l, call[h], a, branches, handles, world) /\ NoHandle <= handles
  BY <1>1, SelectedAtWork
<1>3. artifacts'[l.artifact] = a
  BY <1>1 DEF OwnArtifact
<1> HIDE DEF a
<1>4. ASSUME NEW k, SameWork(k, l), k.result = None, k.measured = l.measured, k.branch = l.branch,
             k.at \in {"template", "rechecking", "sampling", "final"}, m = k, y.stage \in {"asked", "idle"}
      PROVE  Right(m, y, artifacts')
  <2>1. Evidence(k, a, world)
    BY <1>2, <1>4, EvidenceSame DEF SameWork
  <2> QED
    BY <1>1, <1>2, <1>3, <1>4, <2>1, HeldOutPlainly DEF SameWork
<1>5. CASE BeginHeldOut(h)
  <2> DEFINE k == [l EXCEPT !.at = "template"]
  <2>1. m = k /\ y.stage = "asked" /\ l.at = "origin"
    <3>1. Await(h, k, LookAt("scene")) /\ l.at = "origin"
      BY <1>5 DEF BeginHeldOut, At
    <3> HIDE DEF k
    <3> QED
      BY <3>1, Arrives
  <2>2. SameWork(k, l) /\ k.result = None /\ k.measured = l.measured /\ k.branch = l.branch /\ k.at = "template"
    BY <1>2, <2>1 DEF Fields, SameWork, Blank
  <2> HIDE DEF k, l, m, y
  <2> QED
    BY <1>4, <2>1, <2>2
<1>6. CASE HeldOutTemplate(h)
  <2> DEFINE k == [l EXCEPT !.scene = Told(h).scene]
  <2>1. NextHeldOut(h, k) /\ l.at = "template"
    BY <1>6 DEF HeldOutTemplate, At
  <2>2. Fields \subseteq DOMAIN k /\ SameWork(k, l) /\ k.result = None /\ k.measured = l.measured /\
        k.branch = l.branch
    BY <1>2, <2>1 DEF Fields, SameWork
  <2> HIDE DEF k
  <2>3. Evidence(k, a, world)
    BY <1>2, <2>2, EvidenceSame DEF SameWork
  <2> QED
    BY <1>1, <1>2, <1>3, <2>1, <2>2, <2>3, NextHeldOutRight DEF SameWork
<1>7. CASE HeldOutRechecked(h)
  <2> DEFINE k == [l EXCEPT !.at = "sampling"]
  <2>1. m = k /\ y.stage = "asked" /\ l.at = "rechecking"
    <3>1. Await(h, k, LookAt("scene")) /\ l.at = "rechecking"
      BY <1>7 DEF HeldOutRechecked, At
    <3> HIDE DEF k
    <3> QED
      BY <3>1, Arrives
  <2>2. SameWork(k, l) /\ k.result = None /\ k.measured = l.measured /\ k.branch = l.branch /\ k.at = "sampling"
    BY <1>2, <2>1 DEF Fields, SameWork
  <2> HIDE DEF k, l, m, y
  <2> QED
    BY <1>4, <2>1, <2>2
<1>8. CASE HeldOutSampled(h)
  <2>1. PICK seed \in Seeds : Measure(h, l, FromScene([Told(h).scene EXCEPT !.seed = seed]))
    BY <1>8 DEF HeldOutSampled
  <2> DEFINE s == Told(h).scene
             t == [s EXCEPT !.seed = seed]
             r == FromScene(t)
  <2>2. l.at = "sampling" /\ call[h].stage = "answered"
    BY <1>8 DEF HeldOutSampled, At, Answered
  <2>3. s \in Scenes
    BY <1>2, <2>2, AnswersOfTypes DEF Told
  <2>4. SceneOK(a, s, world)
    BY <1>2, <2>2 DEF Awaits, Told
  <2> HIDE DEF s
  <2>5. t \in Scenes /\ t.floor = s.floor /\ t.props = s.props
    BY <2>3, SceneParts, GatewayAssumption DEF GatewayScenes
  <2>6. r.scene = t
    BY DEF FromScene
  <2>7. ForkOK(l, a, r, world)
    BY <1>1, <2>4, <2>5, <2>6, SimAssumption DEF ForkOK, SceneOK, SameStage, Same
  <2>8. \A e \in l.measured : About(l, a, e.about, world) /\ (l.kind = "heldout" => e.source = a.source)
    BY <1>2 DEF Evidence
  <2>m. Measure(h, l, r)
    BY <2>1 DEF s
  <2> HIDE DEF t, r
  <2>9. Measures(m, y, a) /\ SameWork(m, l) /\ m.at = "forking"
    BY <1>2, <2>7, <2>8, <2>m, MeasureBegins
  <2> HIDE DEF l, m, y
  <2> QED
    BY <1>1, <1>3, <2>9 DEF Right, Blank, Mine, SameWork
<1>9. CASE HeldOutMeasured(h)
  <2> DEFINE k == [l EXCEPT !.measured = @ \cup {l.result}, !.result = None, !.branch = NoHandle, !.steps = 0]
  <2>1. NextHeldOut(h, k) /\ l.result # None
    BY <1>9 DEF HeldOutMeasured
  <2>2. Fields \subseteq DOMAIN k /\ SameWork(k, l) /\ k.result = None /\
        k.measured = l.measured \cup {l.result} /\ k.branch = NoHandle
    BY <1>2, <2>1 DEF Fields, SameWork
  <2> HIDE DEF k
  <2>3. Evidence(k, a, world)
    <3>1. \A b : About(k, a, b, world) <=> About(l, a, b, world)
      BY <2>2, AboutSame DEF SameWork
    <3> QED
      BY <1>2, <2>1, <2>2, <3>1 DEF Evidence, SameWork
  <2> QED
    BY <1>1, <1>2, <1>3, <2>1, <2>2, <2>3, NextHeldOutRight DEF SameWork
<1>10. CASE HeldOutReturns(h)
  <2> DEFINE k == [l EXCEPT !.at = "responding"]
  <2>1. m = k /\ y.stage = "idle" /\ l.at = "final" /\ call[h].stage = "answered" /\ OfOrigin(a, Told(h))
    BY <1>10, Arrives DEF HeldOutReturns, At, Answered, OwnArtifact, a
  <2>2. SameWork(k, l) /\ k.result = None /\ k.measured = l.measured /\ k.branch = l.branch /\ k.at = "responding"
    BY <1>2, <2>1 DEF Fields, SameWork
  <2> HIDE DEF k
  <2>3. Evidence(k, a, world)
    BY <1>2, <2>2, EvidenceSame DEF SameWork
  <2>4. \A r \in l.measured : r.about.epoch = a.context.epoch /\ SameStage(r.about.scene, a)
    BY <1>2, <2>1 DEF Awaits, OfOrigin, Told
  <2>5. Mine(k, a)
    BY <1>1, <2>2, <2>3, <2>4 DEF Mine, Evidence, SameWork
  <2>6. Measures(k, y, a)
    BY <1>2, <2>1, <2>2, <2>3, Plainly
  <2> HIDE DEF l, m, y
  <2> QED
    BY <1>1, <1>3, <2>1, <2>2, <2>5, <2>6 DEF Right, Blank, SameWork
<1>11. CASE HeldOutResponds(h) \/ HeldOutThrows(h)
  BY <1>11, EndsRight DEF HeldOutResponds, HeldOutThrows, EndJob
<1> QED
  BY <1>5, <1>6, <1>7, <1>8, <1>9, <1>10, <1>11

-----------------------------------------------------------------------------
(* What a step of handler h makes of its own measurement.                  *)

\* A handler that measures nothing.
LEMMA RestsRight ==
  ASSUME Base, NEW h \in Handlers, Good(h), handler'[h].kind \in Kinds \ {"repair", "replay", "heldout"}
  PROVE  Right(handler'[h], call'[h], artifacts')
<1>1. StageOK(handler'[h])
  BY GoodMoveFrame
<1>2. ~HasArtifact(handler'[h]) /\ handler'[h].at # "origin"
  BY <1>1 DEF StageOK, HasArtifact, MeasureStages
<1> QED
  BY <1>2, RightAtRest

\* Searches and edits neither measure nor write.
LEMMA SearchLoops ==
  ASSUME Base, NEW h \in Handlers, NEW l, {"at", "kind"} \subseteq DOMAIN l, l.kind = "search", NextTrial(h,
         l) \/ End(h)
  PROVE  handler'[h].kind \in {"search", "none"}
<1> DEFINE m == [l EXCEPT !.at = "resetting"]
<1>1. m.kind = "search"
  OBVIOUS
<1>2. End(h) \/ \E r : Await(h, m, r)
  BY DEF NextTrial, EndJob
<1> HIDE DEF m
<1>3. CASE End(h)
  <2>1. handler'[h] = Quiet
    BY <1>3, Arrives DEF End
  <2> QED
    BY <2>1 DEF Quiet
<1> QED
  BY <1>1, <1>2, <1>3, Arrives

LEMMA SearchKinds ==
  ASSUME Base, NEW h \in Handlers, SearchStep(h)
  PROVE  handler'[h].kind \in {"search", "none"} /\ UNCHANGED artifacts
<1> SUFFICES handler'[h].kind \in {"search", "none"}
  BY DEF SearchStep, SearchOriginal, SearchReset, SearchReread, SearchCaptured, SearchEvaluated, SearchRecorded,
     SearchThrows, searchKeeps
<1>0. {"at", "kind", "scene", "start", "context", "passed", "count"} \subseteq DOMAIN handler[h] /\
      handler[h].kind = "search"
  BY HandlerFacts DEF SearchStep, SearchOriginal, SearchReset, SearchReread, SearchCaptured, SearchEvaluated,
     SearchRecorded,
     SearchThrows, At, Locals
<1>1. CASE SearchOriginal(h)
  <2> DEFINE l == [handler[h] EXCEPT !.scene = Told(h).scene, !.count = 1]
  <2>1. {"at", "kind"} \subseteq DOMAIN l /\ l.kind = "search"
    BY <1>0
  <2>2. NextTrial(h, l)
    BY <1>1 DEF SearchOriginal
  <2> HIDE DEF l
  <2> QED
    BY <2>1, <2>2, SearchLoops
<1>2. CASE SearchRecorded(h) \/ SearchThrows(h)
  <2> DEFINE l == [handler[h] EXCEPT !.count = @ + 1]
  <2>1. {"at", "kind"} \subseteq DOMAIN l /\ l.kind = "search"
    BY <1>0
  <2>2. NextTrial(h, l) \/ End(h)
    BY <1>2 DEF SearchRecorded, SearchThrows, Conclude, EndJob
  <2> HIDE DEF l
  <2> QED
    BY <2>1, <2>2, SearchLoops
<1>3. CASE SearchReset(h)
  <2> DEFINE l == [handler[h] EXCEPT !.at = "rereading"]
  <2>1. l.kind = "search"
    BY <1>0
  <2>2. Await(h, l, LookAt("scene"))
    BY <1>3 DEF SearchReset
  <2> HIDE DEF l
  <2> QED
    BY <2>1, <2>2, Arrives
<1>4. CASE SearchReread(h)
  <2> DEFINE l == [handler[h] EXCEPT !.at = "capturing", !.start = Told(h).scene]
  <2>1. l.kind = "search"
    BY <1>0
  <2>2. Await(h, l, LookAt("checkpoint"))
    BY <1>4 DEF SearchReread
  <2> HIDE DEF l
  <2> QED
    BY <2>1, <2>2, Arrives
<1>5. CASE SearchCaptured(h)
  <2> DEFINE captured == [scene |-> handler[h].start, checkpoint |-> call[h].reply.handle,
                          epoch |-> Told(h).epoch, episode |-> Told(h).episode]
  <2> DEFINE l == [handler[h] EXCEPT !.at = "evaluating", !.context = captured]
  <2>1. l.kind = "search"
    BY <1>0
  <2>2. Await(h, l, FromCheckpoint("evaluate", captured.checkpoint))
    BY <1>5 DEF SearchCaptured
  <2> HIDE DEF l
  <2> QED
    BY <2>1, <2>2, Arrives
<1>6. CASE SearchEvaluated(h)
  <2> DEFINE l == [handler[h] EXCEPT !.at = "recording", !.passed = call[h].reply.passed]
  <2>1. l.kind = "search"
    BY <1>0
  <2>2. Continue(h, l)
    BY <1>6 DEF SearchEvaluated
  <2> HIDE DEF l
  <2> QED
    BY <2>1, <2>2, Arrives
<1> QED
  BY <1>1, <1>2, <1>3, <1>4, <1>5, <1>6 DEF SearchStep

LEMMA EditKinds ==
  ASSUME Base, NEW h \in Handlers, EditStep(h) \/ ConfirmEdit(h)
  PROVE  handler'[h].kind \in {"add", "remove", "calibrate", "none"} /\ UNCHANGED artifacts
<1>1. ASSUME End(h) PROVE handler'[h].kind = "none"
  BY <1>1, Arrives DEF End, Quiet
<1>2. CASE ApplyEdit(h)
  <2> DEFINE l == [handler[h] EXCEPT !.at = "applying"]
  <2>1. handler[h] \in Locals /\ handler[h].kind \in {"add", "remove"}
    BY <1>2, HandlerFacts DEF ApplyEdit, ControlOK, StageOK, MeasureStages
  <2>2. l.kind \in {"add", "remove"}
    BY <2>1 DEF Locals
  <2>3. \E r : Await(h, l, r)
    BY <1>2 DEF ApplyEdit
  <2> HIDE DEF l
  <2> QED
    BY <1>2, <2>2, <2>3, Arrives DEF ApplyEdit, gatewayRest
<1> QED
  BY <1>1, <1>2 DEF EditStep, RefuseEdit, ConfirmCalibration, ConfirmEdit, gatewayRest

\* A request that begins.
LEMMA RequestsRight ==
  ASSUME Base, NEW h \in Handlers, Good(h), StartRequest(h)
  PROVE  Right(handler'[h], call'[h], artifacts') /\ UNCHANGED artifacts
<1>1. CASE StartSearch(h)
  <2> DEFINE l == [Quiet EXCEPT !.kind = "search", !.at = "original"]
  <2>0. l.kind = "search"
    BY DEF Quiet
  <2>a. Await(h, l, LookAt("scene"))
    BY <1>1 DEF StartSearch
  <2> HIDE DEF l
  <2>1. handler'[h].kind = "search"
    BY <2>0, <2>a, Arrives
  <2> QED
    BY <1>1, <2>1, RestsRight DEF Kinds, StartSearch, searchKeeps
<1>2. CASE StartRepair(h)
  <2>1. handler'[h] = [Quiet EXCEPT !.kind = "repair", !.at = "origin"]
    BY <1>2, Arrives DEF StartRepair
  <2>2. handler'[h].at = "origin" /\ Blank(handler'[h])
    BY <2>1 DEF Quiet, Blank
  <2> QED
    BY <1>2, <2>2, RightAtOrigin DEF StartRepair, gatewayRest
<1>3. ASSUME NEW kind \in {"replay", "heldout"}, Select(h, kind)
      PROVE  Right(handler'[h], call'[h], artifacts') /\ UNCHANGED artifacts
  <2>0. \E a : Await(h, [Quiet EXCEPT !.kind = kind, !.at = "origin", !.artifact = a], LookAt("state"))
    BY <1>3 DEF Select
  <2>1. \E a : handler'[h] = [Quiet EXCEPT !.kind = kind, !.at = "origin", !.artifact = a]
    BY <2>0, Arrives
  <2>2. handler'[h].at = "origin" /\ Blank(handler'[h])
    BY <2>1 DEF Quiet, Blank
  <2> QED
    BY <1>3, <2>2, RightAtOrigin DEF Select, gatewayRest
<1>4. ASSUME NEW kind \in {"add", "remove"}, NEW o, StartEdit(h, kind, o)
      PROVE  Right(handler'[h], call'[h], artifacts') /\ UNCHANGED artifacts
  <2> DEFINE l == [Quiet EXCEPT !.kind = kind, !.at = "editing", !.obstacle = o, !.epoch = world.epoch,
             !.episode = world.episode]
  <2>0. l.kind = kind
    BY DEF Quiet
  <2>a. Await(h, l, LookAt("scene"))
    BY <1>4 DEF StartEdit
  <2> HIDE DEF l
  <2>1. handler'[h].kind = kind
    BY <2>0, <2>a, Arrives
  <2> QED
    BY <1>4, <2>1, RestsRight DEF Kinds, StartEdit, gatewayRest
<1>5. ASSUME NEW f, StartCalibrate(h, f)
      PROVE  Right(handler'[h], call'[h], artifacts') /\ UNCHANGED artifacts
  <2> DEFINE l == [Quiet EXCEPT !.kind = "calibrate", !.at = "applying", !.scene = Bare(f)]
  <2>0. l.kind = "calibrate"
    BY DEF Quiet
  <2>a. Await(h, l, ResetTo(Bare(f), Anything, Anything))
    BY <1>5 DEF StartCalibrate
  <2> HIDE DEF l
  <2>1. handler'[h].kind = "calibrate"
    BY <2>0, <2>a, Arrives
  <2> QED
    BY <1>5, <2>1, RestsRight DEF Kinds, StartCalibrate
<1> QED
  BY <1>1, <1>2, <1>3, <1>4, <1>5 DEF StartRequest

\* Every step of a handler is right.
LEMMA StepsRight ==
  ASSUME Base, CtxInv, MeasureInv, NEW h \in Handlers, Good(h), Steps(h)
  PROVE  Right(handler'[h], call'[h], artifacts') /\ ArtifactsRight
<1> DEFINE Goal == Right(handler'[h], call'[h], artifacts') /\ ArtifactsRight
<1>1. ASSUME UNCHANGED artifacts PROVE ArtifactsRight
  BY <1>1 DEF ArtifactsRight, MeasureInv, Artifacts
<1>2. CASE StartRequest(h)
  BY <1>1, <1>2, RequestsRight
<1>3. CASE SearchStep(h)
  BY <1>1, <1>3, SearchKinds, RestsRight DEF Kinds
<1>4. CASE EditStep(h) \/ ConfirmEdit(h)
  BY <1>1, <1>4, EditKinds, RestsRight DEF Kinds
<1>5. CASE Refuse(h) \/ Promoted(h)
  BY <1>1, <1>5, EndsRight DEF Refuse, Promoted, EndJob, gatewayRest
<1>6. CASE Forked(h) \/ Stepped(h) \/ MeasureResult(h) \/ MeasureThrows(h) \/ Cleaned(h)
  <2>1. UNCHANGED artifacts
    BY <1>6 DEF Forked, Stepped, MeasureResult, MeasureThrows, Cleaned, gatewayRest
  <2> QED
    BY <1>1, <1>6, <2>1, MeasureRight
<1>7. CASE Inspect(h)
  BY <1>1, <1>7, InspectRight DEF Inspect, gatewayRest
<1>8. CASE \E source \in Sources, submit \in BOOLEAN : Candidate(h, source, submit)
  BY <1>8, CandidateRight
<1>9. CASE RepairMeasured(h) \/ Promote(h) \/ RepairThrows(h) \/ BeginRepair(h)
  BY <1>9, RepairMeasuredRight, PromoteRight, RepairEndsRight, BeginRepairRight
<1>10. CASE BeginReplay(h) \/ Replayed(h)
  <2>1. UNCHANGED artifacts
    BY <1>10 DEF BeginReplay, Replayed
  <2> QED
    BY <1>1, <1>10, <2>1, ReplayRight
<1>11. CASE BeginHeldOut(h) \/ HeldOutTemplate(h) \/ HeldOutRechecked(h) \/ HeldOutSampled(h) \/ HeldOutMeasured(h)
            \/ HeldOutReturns(h) \/ HeldOutResponds(h) \/ HeldOutThrows(h)
  <2>1. UNCHANGED artifacts
    BY <1>11 DEF BeginHeldOut, HeldOutTemplate, HeldOutRechecked, HeldOutSampled, HeldOutMeasured, HeldOutReturns,
       HeldOutResponds, HeldOutThrows, gatewayRest
  <2> QED
    BY <1>1, <1>11, <2>1, HeldOutRight
<1> QED
  BY <1>2, <1>3, <1>4, <1>5, <1>6, <1>7, <1>8, <1>9, <1>10, <1>11 DEF Steps, JobStep, SearchStep

-----------------------------------------------------------------------------
(* What it leaves of the measurements of the others.                       *)

\* A handler writes no artifact but its own.
LEMMA OnlyMineChanges ==
  ASSUME Base, NEW h \in Handlers, Steps(h), NEW i \in 1..Len(artifacts), artifacts'[i] # artifacts[i]
  PROVE  Repairs(handler[h]) /\ handler[h].artifact = i
<1>1. ~UNCHANGED artifacts
  OBVIOUS
<1>2. ~BeginRepair(h)
  BY ArtifactAppended
<1>3. artifacts \in Seq(Artifact)
  BY DEF Base, SharedTypes
<1> QED
  BY <1>1, <1>2, <1>3, ArtifactsMove, WorkingRepair, Written DEF ArtifactMoves, Repairs

\* So the others stay right,
LEMMA OthersRight ==
  ASSUME Base, MeasureInv, NEW h \in Handlers, Good(h), Steps(h), NEW d \in Handlers, d # h
  PROVE  Right(handler[d], call[d], artifacts')
<1> DEFINE l == handler[d]
<1>1. Right(l, call[d], artifacts)
  BY DEF MeasureInv, Measuring
<1>2. CASE ~HasArtifact(l)
  BY <1>1, <1>2 DEF Right
<1>3. ASSUME HasArtifact(l), artifacts'[l.artifact] = artifacts[l.artifact] PROVE Right(l, call[d], artifacts')
  BY <1>1, <1>3 DEF Right
<1>4. ASSUME HasArtifact(l), artifacts'[l.artifact] # artifacts[l.artifact] PROVE Right(l, call[d], artifacts')
  <2>1. l.artifact \in 1..Len(artifacts)
    BY <1>4, MeasurerHandler
  <2>2. Repairs(handler[h]) /\ handler[h].artifact = l.artifact
    BY <1>4, <2>1, OnlyMineChanges
  <2>3. ~InJob(l)
    BY <2>2, HandlerFacts DEF Repairs, ControlOK, InJob
  <2>4. l.at # "origin" => At(d, "heldout", "responding")
    BY <1>4, <2>3 DEF HasArtifact, InJob, At
  <2>5. ~At(d, "heldout", "responding")
    BY <2>2 DEF MeasureInv, Apart, Repairs
  <2> QED
    BY <1>1, <2>4, <2>5, RightAtOrigin DEF Right
<1> QED
  BY <1>2, <1>3, <1>4

\* and no repair takes up an artifact whose held-out results are being returned.
LEMMA StaysApart ==
  ASSUME Base, MeasureInv, NEW h \in Handlers, Good(h), Steps(h)
  PROVE  Apart'
<1>0. \A d \in Handlers : d # h => handler'[d] = handler[d]
  BY GoodMoveFrame
<1>1. ASSUME NEW e \in Handlers, NEW d \in Handlers, e # h, d = h,
             handler[e].kind = "heldout", handler[e].at = "responding", handler'[h].kind = "repair"
      PROVE  handler'[h].artifact # handler[e].artifact
  <2>1. handler[e].artifact \in 1..Len(artifacts) /\ Len(artifacts) \in Nat
    BY <1>1, MeasurerHandler, HandlerFacts DEF HasArtifact
  <2>2. ~SearchCaptured(h)
    BY <1>1, SearchKinds DEF SearchStep
  <2>3. Brings(h, {None, failure, handler[h].context}, handler[h])
    BY <2>2, ContextArrivals
  <2>4. (handler[h].kind = "repair" /\
        handler'[h].artifact = handler[h].artifact) \/ handler'[h].artifact \in {0, Len(artifacts) + 1}
    BY <1>1, <2>3 DEF Brings
  <2> QED
    BY <1>1, <2>1, <2>4 DEF MeasureInv, Apart, At
<1>2. ASSUME NEW d \in Handlers, d # h, handler'[h].kind = "heldout", handler'[h].at = "responding",
             handler[d].kind = "repair"
      PROVE  handler[d].artifact # handler'[h].artifact
  <2>1. ~SearchStep(h)
    BY <1>2, SearchKinds
  <2>2. HeldOutReturns(h)
    BY <1>2, <2>1, OtherArrivals DEF Elsewhere
  <2>3. handler[h].kind = "heldout" /\ handler[h].at = "final" /\ handler[h] \in Locals
    BY <2>2, HandlerFacts DEF HeldOutReturns, At
  <2>4. handler'[h].artifact = handler[h].artifact
    <3>1. handler'[h] = [handler[h] EXCEPT !.at = "responding"]
      BY <2>2, Arrives DEF HeldOutReturns
    <3> QED
      BY <2>3, <3>1 DEF Locals
  <2>5. handler[h].artifact \in 1..Len(artifacts) /\ Len(artifacts) \in Nat
    BY <2>3, MeasurerHandler, HandlerFacts DEF HasArtifact
  <2>6. ~InJob(handler[d])
    BY <1>2, <2>3, HandlerFacts DEF ControlOK, InJob
  <2>7. handler[d].at = "origin"
    BY <1>2, <2>6 DEF InJob
  <2>8. handler[d].artifact = 0
    BY <1>2, <2>7 DEF MeasureInv, Measuring, Right, Blank
  <2> QED
    BY <2>4, <2>5, <2>8
<1> SUFFICES ASSUME NEW e \in Handlers, NEW d \in Handlers, handler'[e].kind = "heldout",
                    handler'[e].at = "responding",
                    handler'[d].kind = "repair"
             PROVE  handler'[d].artifact # handler'[e].artifact
  BY DEF Apart, At
<1>3. CASE e # h /\ d # h
  BY <1>0, <1>3 DEF MeasureInv, Apart, At
<1> QED
  BY <1>0, <1>1, <1>2, <1>3

\* A handler keeps the invariant, and so does every step.
LEMMA MeasureUnderHandler ==
  ASSUME Base, CtxInv, MeasureInv, NEW h \in Handlers, Good(h), Steps(h)
  PROVE  MeasureInv'
<1>1. UNCHANGED serverVars /\ \A d \in Handlers : d # h => handler'[d] = handler[d] /\ call'[d] = call[d]
  BY GoodMoveFrame
<1>2. Right(handler'[h], call'[h], artifacts') /\ ArtifactsRight
  BY StepsRight
<1>3. \A d \in Handlers : Right(handler'[d], call'[d], artifacts')
  BY <1>1, <1>2, OthersRight
<1>4. Artifacts'
  BY <1>1, <1>2 DEF Artifacts, ArtifactsRight, serverVars
<1>5. ASSUME NEW d \in Handlers PROVE Measuring(d)'
  BY <1>1, <1>3 DEF Measuring, Right, Measures, serverVars
<1> QED
  BY <1>4, <1>5, StaysApart DEF MeasureInv

LEMMA MeasureUnderCancel ==
  ASSUME MeasureInv, Cancel
  PROVE  MeasureInv'
BY DEF Cancel, simVars, MeasureInv, Artifacts, Measuring, Right, Measures, Apart, At

LEMMA MeasureStep ==
  ASSUME Sound, CtxInv, MeasureInv, [Next]_vars
  PROVE  MeasureInv'
<1>0. SimFrame /\ WorldTypes /\ Base
  BY SoundStep DEF Sound
<1> QED
  BY <1>0, NextCases, MeasureUnderHandler, MeasureUnderService, MeasureUnderCancel DEF Steps

LEMMA InitMeasure == GatewayInit => MeasureInv
<1> SUFFICES ASSUME GatewayInit PROVE MeasureInv
  OBVIOUS
<1>1. \A h \in Handlers : handler[h] = Quiet
  BY DEF GatewayInit
<1>2. \A h \in Handlers : Measuring(h)
  BY <1>1, RightAtRest DEF Measuring, Quiet, HasArtifact
<1>3. Artifacts
  BY DEF GatewayInit, Artifacts
<1>4. Apart
  BY <1>1 DEF Apart, At, Quiet
<1> QED
  BY <1>2, <1>3, <1>4 DEF MeasureInv

\* Everything together.
MeasureSound == Sound /\ CtxInv /\ MeasureInv

LEMMA MeasureAlways == Spec => []MeasureSound
<1>1. GatewayInit => MeasureSound
  BY InitBase, InitDates, InitContexts, InitMeasure DEF MeasureSound, Sound, GatewayInit
<1>2. MeasureSound /\ [Next]_vars => MeasureSound'
  BY SoundStep, ContextsStep, MeasureStep DEF MeasureSound
<1> QED
  BY <1>1, <1>2, PTL DEF Spec

\* An artifact that passed (gateway/astra.ts, submit_candidate) did so with the
\* very source it keeps, on the checkpoint and in the world of its failure,
\* whatever throws, is aborted or replaced between measurement and promotion.
THEOREM PromotedWereMeasured == Spec => []PromotedWasMeasured
<1>1. MeasureSound => PromotedWasMeasured
  BY DEF MeasureSound, MeasureInv, Artifacts, ArtifactOK, PromotedWasMeasured
<1> QED
  BY <1>1, MeasureAlways, PTL

\* A replay (gateway/index.ts, /api/replay) measures its artifact's source on the
\* checkpoint the artifact was repaired for, though it forks the checkpoint of the
\* failure captured last: assertArtifactOrigin is enough, also over restarts in
\* which the epochs count from one again.
THEOREM ReplaysOfOrigin == Spec => []ReplayOfOrigin
<1>1. ASSUME MeasureSound, NEW h \in Handlers, At(h, "replay", "measured"), handler[h].result # None
      PROVE  /\ handler[h].result.source = artifacts[handler[h].artifact].source
             /\ handler[h].result.about.origin = artifacts[handler[h].artifact].context.checkpoint
  <2>1. handler[h].kind = "replay" /\ handler[h].at = "measured" /\ Base /\ MeasureInv
    BY <1>1 DEF At, MeasureSound, Sound
  <2>2. Evidence(handler[h], OwnArtifact(h), world)
    BY <2>1, SelectedAtWork
  <2>3. Mine(handler[h], OwnArtifact(h))
    BY <2>1, AtWork DEF HasArtifact
  <2> QED
    BY <1>1, <2>1, <2>2, <2>3 DEF Evidence, About, Mine, OwnArtifact
<1>2. MeasureSound => ReplayOfOrigin
  BY <1>1 DEF ReplayOfOrigin
<1> QED
  BY <1>2, MeasureAlways, PTL

\* Held-out results that are returned (gateway/index.ts, /api/heldout) are all of
\* the artifact's source, its epoch and the stage it was measured on: no edit
\* between two trials, or within one, is overlooked.
THEOREM HeldOutsOnOrigin == Spec => []HeldOutOnOrigin
<1>1. ASSUME MeasureSound, NEW h \in Handlers, At(h, "heldout", "responding")
      PROVE  Mine(handler[h], OwnArtifact(h))
  BY <1>1, AtWork DEF At, HasArtifact, MeasureSound, Sound
<1>2. MeasureSound => HeldOutOnOrigin
  BY <1>1 DEF HeldOutOnOrigin, Mine, SameStage, OwnArtifact, At
<1> QED
  BY <1>2, MeasureAlways, PTL

-----------------------------------------------------------------------------
(* No branch is leaked.                                                    *)

\* Handler h will delete branch b.
Owns(h, b) ==
  \/ handler[h].at = "forking" /\ Answered(h) /\ call[h].reply.handle = b
  \/ handler[h].at \in {"stepping", "resulting", "deleting"} /\ handler[h].branch = b

\* A branch whose deletion was answered is gone.
Deleted(h) == handler[h].at = "deleting" /\ (Answered(h) \/ Refused(h)) => handler[h].branch \notin DOMAIN branches

\* The inductive invariant of NoLeakedBranch.
LeakInv ==
  /\ Pending(call[Operator]) => call[Operator].request.op # "fork"
  /\ ~lost => (\A b \in DOMAIN branches : \E h \in Handlers : Owns(h, b)) /\ \A h \in Handlers : Deleted(h)

\* The answer to a request is not lost, and a deletion is not refused.
Kindly(d) ==
  /\ ~Pending(call[d]) => call'[d] = call[d]
  /\ Pending(call[d]) /\ call[d].request.op = "delete" => call'[d] = call[d] \/ TellsWorld(d)

\* What the service does without a crash.
LEMMA ServedKindly ==
  ASSUME Types, Dates, NEW c \in Clients, Serve(c)
  PROVE  \A d \in Clients : Kindly(d)
<1>0. call \in [Clients -> Call]
  BY DEF Types, SimTypeOK
<1>1. \A d \in Clients : d # c => call'[d] = call[d]
  <2>1. \E outcome : Settle(c, outcome)
    BY DEF Serve, Look, Reset, Invalidate, Capture, Delete, ForkBegins, ForkEnds, EvaluateBegins, EvaluateEnds,
       BranchBegins, BranchEnds
  <2> QED
    BY <1>0, <2>1 DEF Settle
<1>2. CASE Delete(c)
  <2>1. call'[c] = Tell(world, NoHandle) /\ world' = world /\ call[c].request.branch \notin DOMAIN branches'
    BY <1>0, <1>2 DEF Delete, Settle
  <2>2. TellsWorld(c) /\ Pending(call[c])
    BY <1>2, <2>1 DEF Delete, Asked, TellsWorld, Pending
  <2> QED
    BY <1>1, <2>2 DEF Kindly
<1>3. CASE ~Delete(c)
  <2>1. Pending(call[c]) /\ call[c].request.op # "delete"
    BY <1>3 DEF Serve, Look, Reset, Invalidate, Capture, ForkBegins, ForkEnds, EvaluateBegins, EvaluateEnds,
       BranchBegins, BranchEnds, Asked, Working, Pending
  <2> QED
    BY <1>1, <2>1 DEF Kindly
<1> QED
  BY <1>2, <1>3

\* A handler in one of these steps measures on a branch.
LEMMA OnBranchSteps ==
  ASSUME Base, NEW h \in Handlers, Steps(h), handler[h].at \in {"forking", "stepping", "resulting", "deleting"}
  PROVE  Forked(h) \/ Stepped(h) \/ MeasureResult(h) \/ MeasureThrows(h) \/ Cleaned(h)
<1>0. handler[h].kind \in Measurers
  BY MeasurerFacts DEF MeasureStages
<1>1. ~StartRequest(h)
  BY DEF StartRequest, StartSearch, StartRepair, Select, StartEdit, StartCalibrate
<1>2. ~EditStep(h) /\ ~ConfirmEdit(h)
  BY DEF EditStep, ApplyEdit, RefuseEdit, ConfirmCalibration, ConfirmEdit, At
<1>3. ~SearchStep(h)
  BY <1>0 DEF SearchStep, SearchOriginal, SearchReset, SearchReread, SearchCaptured, SearchEvaluated, SearchRecorded,
     SearchThrows, At, Measurers
<1>4. ~Refuse(h) /\ ~BeginRepair(h) /\ ~Inspect(h) /\ ~RepairMeasured(h) /\ ~Promote(h) /\ ~Promoted(h) /\
      ~RepairThrows(h)
  BY DEF Refuse, BeginRepair, Inspect, RepairMeasured, Promote, Promoted, RepairThrows, At
<1>5. \A source \in Sources, submit \in BOOLEAN : ~Candidate(h, source, submit)
  BY DEF Candidate, At
<1>6. ~BeginReplay(h) /\ ~Replayed(h) /\ ~BeginHeldOut(h) /\ ~HeldOutTemplate(h) /\ ~HeldOutRechecked(h)
      /\ ~HeldOutSampled(h) /\ ~HeldOutMeasured(h) /\ ~HeldOutReturns(h) /\ ~HeldOutResponds(h) /\ ~HeldOutThrows(h)
  BY DEF BeginReplay, Replayed, BeginHeldOut, HeldOutTemplate, HeldOutRechecked, HeldOutSampled, HeldOutMeasured,
     HeldOutReturns, HeldOutResponds, HeldOutThrows, At
<1> QED
  BY <1>1, <1>2, <1>3, <1>4, <1>5, <1>6 DEF Steps, JobStep, SearchStep

\* A handler that loops or cleans up still owns its branch.
LEMMA LoopKeepsBranch ==
  ASSUME Base, NEW h \in Handlers, NEW l, Fields \subseteq DOMAIN l, l.branch # NoHandle, MeasureLoop(h,
         l) \/ CleanUp(h, l)
  PROVE  Owns(h, l.branch)'
<1>1. ASSUME NEW m, NEW r, Await(h, m, r),
             m \in {[l EXCEPT !.at = "deleting"], [l EXCEPT !.at = "stepping", !.steps = @ + 1],
                [l EXCEPT !.at = "resulting"]}
      PROVE  Owns(h, l.branch)'
  <2>1. m.at \in {"stepping", "resulting", "deleting"} /\ m.branch = l.branch
    BY <1>1 DEF Fields
  <2>2. Await(h, m, r)
    BY <1>1
  <2>3. handler'[h] = m
    BY <2>2, Arrives
  <2> QED
    BY <2>1, <2>3 DEF Owns
<1>2. CASE CleanUp(h, l)
  <2>1. Await(h, [l EXCEPT !.at = "deleting"], OnBranch("delete", l.branch))
    BY <1>2 DEF CleanUp
  <2> QED
    BY <1>1, <2>1
<1>3. CASE ~CleanUp(h, l)
  <2>1. \/ Await(h, [l EXCEPT !.at = "stepping", !.steps = @ + 1], OnBranch("step", l.branch))
        \/ Await(h, [l EXCEPT !.at = "resulting"], OnBranch("result", l.branch))
    BY <1>3 DEF MeasureLoop
  <2> QED
    BY <1>1, <2>1
<1> QED
  BY <1>2, <1>3

\* A handler gives up a branch only when it is gone.
LEMMA OwnerKeeps ==
  ASSUME Base, NEW h \in Handlers, Steps(h), Deleted(h), NEW b \in DOMAIN branches, Owns(h, b)
  PROVE  Owns(h, b)'
<1> DEFINE l == handler[h]
<1>0. b # NoHandle /\ Fields \subseteq DOMAIN l
  BY HandlerFacts, FieldsOfLocals DEF Base, Coherent, Types, SimTypeOK, NoHandle
<1>1. Forked(h) \/ Stepped(h) \/ MeasureResult(h) \/ MeasureThrows(h) \/ Cleaned(h)
  BY OnBranchSteps DEF Owns
<1>2. CASE Forked(h)
  <2> DEFINE k == [l EXCEPT !.branch = call[h].reply.handle]
  <2>1. MeasureLoop(h, k) /\ call[h].reply.handle = b
    BY <1>2 DEF Forked, Owns
  <2>2. Fields \subseteq DOMAIN k /\ k.branch = b
    BY <1>0, <2>1 DEF Fields
  <2> HIDE DEF k
  <2> QED
    BY <1>0, <2>1, <2>2, LoopKeepsBranch
<1>3. CASE Stepped(h)
  <2>1. MeasureLoop(h, l) /\ l.branch = b
    BY <1>3 DEF Stepped, Owns
  <2> HIDE DEF l
  <2> QED
    BY <1>0, <2>1, LoopKeepsBranch
<1>4. CASE MeasureResult(h)
  <2> DEFINE k == [l EXCEPT !.result = [about |-> Told(h), source |-> artifacts[handler[h].artifact].source,
             passed |-> call[h].reply.passed]]
  <2>1. CleanUp(h, k) /\ l.branch = b
    BY <1>4 DEF MeasureResult, Owns
  <2>2. Fields \subseteq DOMAIN k /\ k.branch = b
    BY <1>0, <2>1 DEF Fields
  <2> HIDE DEF k
  <2> QED
    BY <1>0, <2>1, <2>2, LoopKeepsBranch
<1>5. CASE MeasureThrows(h)
  <2>1. CleanUp(h, l) /\ l.branch = b
    BY <1>5 DEF MeasureThrows, Owns, Answered, Refused
  <2> HIDE DEF l
  <2> QED
    BY <1>0, <2>1, LoopKeepsBranch
<1>6. CASE Cleaned(h)
  BY <1>6 DEF Cleaned, Owns, Deleted
<1> QED
  BY <1>1, <1>2, <1>3, <1>4, <1>5, <1>6

\* Only a measurement asks for a fork.
LEMMA ForkerForks ==
  ASSUME Base, NEW h \in Handlers, Pending(call[h]), call[h].request.op = "fork"
  PROVE  handler[h].at = "forking"
BY HandlerFacts DEF ControlOK, RequestOK, QuietStages, Idle, Pending, Locals, Stages, MeasureStages

\* The service answers kindly: owners stay, forks find an owner, and what was
\* deleted stays so.
LEMMA LeakUnderKindness ==
  ASSUME Base, MeasureInv, LeakInv, SimFrame, \A d \in Clients : Kindly(d), UNCHANGED <<handler, lost>>,
         Pending(call'[Operator]) => call'[Operator].request.op # "fork"
  PROVE  LeakInv'
<1>0. Handlers \subseteq Clients /\ call \in [Clients -> Call] /\ Clients = Handlers \cup {Operator}
  BY GatewayAssumption DEF Base, Coherent, Types, SimTypeOK
<1> SUFFICES ASSUME ~lost PROVE (\A b \in DOMAIN branches' : \E h \in Handlers : Owns(h, b)') /\
                    \A h \in Handlers : Deleted(h)'
  BY DEF LeakInv
<1>1. (\A b \in DOMAIN branches : \E h \in Handlers : Owns(h, b)) /\ \A h \in Handlers : Deleted(h)
  BY DEF LeakInv
<1>2. ASSUME NEW b \in DOMAIN branches' PROVE \E h \in Handlers : Owns(h, b)'
  <2>1. CASE b \in DOMAIN branches
    <3>1. PICK h \in Handlers : Owns(h, b)
      BY <1>1, <2>1
    <3>2. handler[h].at = "forking" /\ Answered(h) => call'[h] = call[h]
      BY <1>0 DEF Kindly, Answered, Pending
    <3>3. Owns(h, b)'
      BY <3>1, <3>2 DEF Owns, Answered
    <3> QED
      BY <3>3
  <2>2. CASE b \notin DOMAIN branches
    <3>1. PICK c \in Clients : b = handles + 1 /\ handles' = handles + 1 /\ ForkEnds(c) /\ Working(c, "fork")
      BY <2>2 DEF SimFrame
    <3>2. Pending(call[c]) /\ call[c].request.op = "fork"
      BY <3>1 DEF Working, Pending
    <3>3. c \in Handlers
      BY <1>0, <3>2 DEF LeakInv
    <3>4. handler[c].at = "forking"
      BY <3>2, <3>3, ForkerForks
    <3>5. handles \in Nat /\ handles' # handles
      BY <3>1 DEF SimFrame
    <3>6. Settle(c, Answer([about |-> call[c].branch, handle |-> handles + 1, passed |-> FALSE]))
      BY <3>1, <3>5 DEF ForkEnds
    <3>7. call'[c] = Answer([about |-> call[c].branch, handle |-> handles + 1, passed |-> FALSE])
      BY <1>0, <3>6 DEF Settle
    <3>8. call'[c].stage = "answered" /\ call'[c].reply.handle = b
      BY <3>1, <3>7 DEF Answer
    <3>9. Owns(c, b)'
      BY <3>4, <3>8 DEF Owns, Answered
    <3> QED
      BY <3>3, <3>9
  <2> QED
    BY <2>1, <2>2
<1>3. ASSUME NEW h \in Handlers, handler[h].at = "deleting", call'[h].stage \in {"answered", "refused"}
      PROVE  handler[h].branch \notin DOMAIN branches'
  <2>1. handler[h].branch <= handles /\ handles \in Nat /\ handler[h].branch \in Nat
    <3>1. HasArtifact(handler[h])
      BY <1>3, MeasurerFacts DEF MeasureStages, Measurers, HasArtifact
    <3> QED
      BY <3>1, AtWork DEF OnIt, SimFrame, Locals
  <2>2. CASE ~Pending(call[h])
    <3>1. call'[h] = call[h]
      BY <1>0, <2>2 DEF Kindly
    <3>2. handler[h].branch \notin DOMAIN branches
      BY <1>1, <1>3, <3>1 DEF Deleted, Answered, Refused
    <3> QED
      BY <2>1, <3>2 DEF SimFrame
  <2>3. CASE Pending(call[h])
    <3>1. call[h].request.op = "delete" /\ call[h].request.branch = handler[h].branch
      BY <1>3, <2>3, HandlerFacts DEF ControlOK, RequestOK
    <3>2. call'[h] # call[h]
      BY <1>3, <2>3 DEF Pending
    <3>3. TellsWorld(h)
      BY <1>0, <2>3, <3>1, <3>2 DEF Kindly
    <3> QED
      BY <3>1, <3>3 DEF TellsWorld
  <2> QED
    BY <2>2, <2>3
<1> QED
  BY <1>2, <1>3 DEF Deleted, Answered, Refused

\* A handler keeps the invariant, and so does every step.
LEMMA LeakUnderHandler ==
  ASSUME Base, LeakInv, NEW h \in Handlers, Good(h), Steps(h), UNCHANGED lost
  PROVE  LeakInv'
<1>1. UNCHANGED serverVars /\ \A d \in Handlers : d # h => handler'[d] = handler[d] /\ call'[d] = call[d]
  BY GoodMoveFrame
<1>2. call'[h].stage \notin {"answered", "refused"}
  <2>1. call'[h] = Idle \/ \E r \in Request : call'[h] = Ask(r)
    BY GoodMoveFrame
  <2> QED
    BY <2>1, StagesOfCalls
<1>3. call'[Operator] = call[Operator]
  <2>1. PICK l \in Locals, x \in Call : Moves(h, l, x)
    BY DEF Good, GoodMove
  <2>2. call \in [Clients -> Call] /\ Operator \in Clients /\ Operator # h
    BY GatewayAssumption DEF Base, Coherent, Types, SimTypeOK
  <2> QED
    BY <2>1, <2>2 DEF Moves
<1> SUFFICES ASSUME ~lost PROVE (\A b \in DOMAIN branches' : \E d \in Handlers : Owns(d, b)') /\
                    \A d \in Handlers : Deleted(d)'
  BY <1>3 DEF LeakInv
<1>4. ASSUME NEW b \in DOMAIN branches PROVE \E d \in Handlers : Owns(d, b)'
  <2>1. PICK d \in Handlers : Owns(d, b)
    BY DEF LeakInv
  <2>2. Owns(d, b)'
    <3>1. CASE d = h
      BY <2>1, <3>1, OwnerKeeps DEF LeakInv
    <3>2. CASE d # h
      BY <1>1, <2>1, <3>2 DEF Owns, Answered
    <3> QED
      BY <3>1, <3>2
  <2> QED
    BY <2>2
<1>5. ASSUME NEW d \in Handlers PROVE Deleted(d)'
  BY <1>1, <1>2 DEF LeakInv, Deleted, Answered, Refused, serverVars
<1> QED
  BY <1>1, <1>4, <1>5 DEF serverVars

LEMMA LeakStep ==
  ASSUME \A r \in OperatorRequests : r.op # "fork", MeasureSound, LeakInv, [Next]_vars
  PROVE  LeakInv'
<1>0. Base /\ Dates /\ Types /\ MeasureInv /\ SimFrame /\ Operator \in Clients /\
      Handlers \subseteq Clients /\ call \in [Clients -> Call]
  BY SoundStep, GatewayAssumption DEF MeasureSound, Sound, Base, Coherent, Types, SimTypeOK
<1>1. ASSUME NEW h \in Handlers, Steps(h), UNCHANGED lost PROVE LeakInv'
  BY <1>0, <1>1, StepsAreGood, LeakUnderHandler
<1>2. ASSUME Outcome(Operator), Pending(call'[Operator]) PROVE call'[Operator].request.op # "fork"
  <2>1. CASE call'[Operator] = call[Operator]
    BY <1>2, <2>1 DEF LeakInv
  <2>2. CASE Begins(Operator)
    <3>1. Pending(call[Operator]) /\ call'[Operator].request = call[Operator].request
      BY <2>2 DEF Begins, Pending, Work
    <3> QED
      BY <3>1 DEF LeakInv
  <2>3. ~TellsWorld(Operator) /\ ~Captures(Operator) /\ ~Forks(Operator) /\ ~Evaluates(Operator) /\ ~Results(Operator)
    <3>1. \A reply : ~Pending(Answer(reply))
      BY DEF Pending, Answer
    <3>2. ~TellsWorld(Operator) /\ ~Captures(Operator)
      BY <1>2, <3>1 DEF TellsWorld, Captures, Tell
    <3>3. ~Forks(Operator) /\ ~Evaluates(Operator) /\ ~Results(Operator)
      BY <1>2, <3>1 DEF Forks, Evaluates, Results
    <3> QED
      BY <3>2, <3>3
  <2>4. ~Pending(Refusal)
    BY DEF Pending, Refusal
  <2> QED
    BY <1>2, <2>1, <2>2, <2>3, <2>4 DEF Outcome
<1>3. CASE BrowserStep
  BY <1>1, <1>3 DEF BrowserStep, Steps, history
<1>4. CASE HandlerStep
  BY <1>1, <1>4 DEF HandlerStep, Steps, history
<1>5. CASE ServiceStep
  <2>1. PICK c \in Clients : Serve(c) /\ UNCHANGED gatewayVars /\ UNCHANGED lost
    BY <1>5 DEF ServiceStep
  <2>2. (\A d \in Clients : Kindly(d)) /\ Outcome(Operator)
    BY <1>0, <2>1, ServedKindly, Outcomes
  <2> QED
    BY <1>0, <1>2, <2>1, <2>2, LeakUnderKindness DEF gatewayVars
<1>6. CASE UNCHANGED vars
  BY <1>6 DEF vars, simVars, gatewayVars, gatewayRest, history, LeakInv, Owns, Deleted, Answered, Refused
<1>7. CASE Cancel /\ UNCHANGED history
  BY <1>7 DEF Cancel, simVars, history, LeakInv, Owns, Deleted, Answered, Refused
<1>8. ASSUME NEW r \in OperatorRequests, SendRequest(Operator, r), UNCHANGED <<serverVars, gatewayVars,
             history>> PROVE LeakInv'
  <2>1. \A d \in Clients : d # Operator => call'[d] = call[d]
    BY <1>0, <1>8 DEF SendRequest, Settle
  <2>2. call'[Operator] = Ask(r) /\ ~Pending(call[Operator])
    BY <1>0, <1>8 DEF SendRequest, Settle, Free, Pending
  <2>3. call'[Operator].request.op # "fork"
    BY <2>2 DEF Ask
  <2>4. \A h \in Handlers : call'[h] = call[h]
    BY <1>0, <2>1, GatewayAssumption
  <2> QED
    BY <1>8, <2>3, <2>4 DEF serverVars, gatewayVars, history, LeakInv, Owns, Deleted, Answered, Refused
<1>9. ASSUME NEW h \in Handlers, LoseReply(h), lost' PROVE LeakInv'
  <2>1. call'[Operator] = call[Operator]
    BY <1>0, <1>9, GatewayAssumption DEF LoseReply, Settle
  <2> QED
    BY <1>9, <2>1 DEF LeakInv
<1>10. CASE Restart
  <2>1. DOMAIN branches' = {}
    BY <1>10 DEF Restart, Restarted, NoBranches
  <2>2. Pending(call'[Operator]) => call'[Operator].request.op # "fork"
    BY <1>0, <1>2, <1>10, RestartOutcomes
  <2> QED
    BY <2>1, <2>2 DEF LeakInv, Deleted
<1> QED
  BY <1>3, <1>4, <1>5, <1>6, <1>7, <1>8, <1>9, <1>10 DEF Next, Disturb

\* Every branch of the service has a measurement that will delete it
\* (gateway/sim-client.ts, the finally of evaluateSource), as long as no reply of
\* the service is lost and the operator forks none himself: aborts, failed steps
\* and replaced scenes leak no branch.
THEOREM NoLeakedBranches ==
  ASSUME \A r \in OperatorRequests : r.op # "fork"
  PROVE  Spec => []NoLeakedBranch
<1>1. GatewayInit => LeakInv
  <2> SUFFICES ASSUME GatewayInit PROVE LeakInv
    OBVIOUS
  <2>1. \A c \in Clients : ~Pending(call[c])
    BY DEF GatewayInit, SimInit, Pending, Idle
  <2>2. DOMAIN branches = {}
    BY DEF GatewayInit, SimInit, NoBranches
  <2> QED
    BY <2>1, <2>2, GatewayAssumption DEF LeakInv, Deleted
<1>2. MeasureSound /\ LeakInv /\ [Next]_vars => LeakInv'
  BY LeakStep
<1>3. LeakInv => NoLeakedBranch
  BY DEF LeakInv, NoLeakedBranch, Owns
<1> QED
  BY <1>1, <1>2, <1>3, MeasureAlways, PTL DEF Spec
===============================================================================
