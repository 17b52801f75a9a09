--------------------------- MODULE CurationSystem ---------------------------
(***************************************************************************)
(* The curation API of CurationJobs composed with its one worker process   *)
(* (worker/curation.py): a main thread that claims and executes jobs and a *)
(* heartbeat thread per job, both talking HTTP to the API.  A request may  *)
(* time out in the worker before the API serves it, in which case it can   *)
(* still be served later; a response may be lost; the worker may crash at  *)
(* any point and is started again; the API may refuse an update (quota, a  *)
(* file that changed size), which the worker sees as any other error.  The *)
(* files under the source root can change at any moment.                   *)
(*                                                                         *)
(* A crash of the API loses the requests and responses in flight and, for  *)
(* the native worker, ends the worker through its parent pipe: it is one   *)
(* of the combinations of Timeout and Crash below.                         *)
(***************************************************************************)
EXTENDS CurationJobs

CONSTANTS
  MaxFaults,     \* BOUND: lost or late exchanges and worker crashes
  MaxLate        \* BOUND: abandoned requests still on their way

ASSUME FaultsAssumption == MaxFaults \in Nat /\ MaxLate \in Nat

VARIABLES
  disk,          \* contents of each source's files now
  pc,            \* where the worker's main thread is
  lease,         \* the job and attempt in the claim's response, then executed
  acked,         \* episodes of the current import the API has acknowledged
  lost,          \* the lease_lost event of the current execution
  req,           \* the request each thread is waiting on
  reply,         \* and what has come back for it
  late,          \* requests abandoned by the worker, not served yet
  faults         \* faults so far

workerVars == <<pc, lease, acked, lost>>
netVars == <<req, reply, late>>
vars == <<apiVars, disk, workerVars, netVars, faults>>

Threads == {"main", "beat"}
Types == {"none", "claim", "beat", "episode", "failed", "completed"}
Messages == [type : Types, job : 0..MaxJobs, attempt : Nat,
             episode : 0..NumEpisodes, found : OptVersions]
Leases == [job : 0..MaxJobs, attempt : Nat]

NoLease == [job |-> 0, attempt |-> 0]
Msg(type, l, e, v) ==
  [type |-> type, job |-> l.job, attempt |-> l.attempt, episode |-> e, found |-> v]
NoMsg == Msg("none", NoLease, 0, None)

\* Points of the main thread: before a step, or waiting for its request.
Working == {"start", "announce", "inspect", "raised"}
Waiting == {"claiming", "announcing", "publishing", "completing", "failing"}

SystemTypeOK ==
  /\ TypeOK
  /\ disk \in [Sources -> Versions]
  /\ pc \in {"down", "idle"} \cup Working \cup Waiting
  /\ lease \in Leases
  /\ acked \in 0..NumEpisodes
  /\ lost \in BOOLEAN
  /\ req \in [Threads -> Messages]
  /\ reply \in [Threads -> {"pending", "ok", "error"}]
  /\ late \in SUBSET Messages
  /\ faults \in 0..MaxFaults

SystemInit ==
  /\ Init
  /\ disk \in [Sources -> Versions]
  /\ pc = "down" /\ lease = NoLease /\ acked = 0 /\ lost = FALSE
  /\ req = [t \in Threads |-> NoMsg]
  /\ reply = [t \in Threads |-> "pending"]
  /\ late = {} /\ faults = 0

-----------------------------------------------------------------------------
(* The worker.                                                             *)

Executing == pc \in (Working \cup Waiting) \ {"claiming"}
Source == subject[lease.job]       \* payload fields never change

\* request(route, data) by the main thread, which then waits at point next.
Send(next, m) ==
  /\ req' = [req EXCEPT !["main"] = m]
  /\ pc' = next
  /\ UNCHANGED <<apiVars, disk, lease, acked, lost, reply, late, faults>>

Claim == pc = "idle" /\ Send("claiming", Msg("claim", NoLease, 0, None))

\* send(...): raises at once when the lease is known to be lost.
Report(next, m) == ~lost /\ Send(next, m)

\* preflight: what is on disk is the result.
Preflight ==
  /\ pc = "start" /\ kind[lease.job] = "preflight"
  /\ Report("completing", Msg("completed", lease, 0, disk[Source]))

\* import: the files are hashed afresh and compared with the approved plan.
CompareFiles ==
  /\ pc = "start" /\ kind[lease.job] = "import"
  /\ disk[Source] = payload[lease.job]
  /\ pc' = "announce"
  /\ UNCHANGED <<apiVars, disk, lease, acked, lost, netVars, faults>>

AnnounceEpisode ==
  /\ pc = "announce" /\ acked < NumEpisodes
  /\ Report("announcing", Msg("beat", lease, 0, None))

\* import_episode hashes the episode's files again and reports what it hashed.  It
\* opens them once more to decode them: that what it decodes is what it hashed is
\* not modelled, and no property speaks of it.
InspectEpisode ==
  /\ pc = "inspect"
  /\ Report("publishing", Msg("episode", lease, acked + 1, disk[Source]))

FinishEpisodes ==
  /\ pc = "announce" /\ acked = NumEpisodes
  /\ Report("completing", Msg("completed", lease, acked, None))

Read ==
  /\ pc = "start" /\ kind[lease.job] \in {"preview", "export"}
  /\ Report("completing", Msg("completed", lease, 0, None))

\* Any step may raise: changed files, undecodable media, a lost lease.
Raise ==
  /\ pc \in Working \ {"raised"}
  /\ pc' = "raised"
  /\ UNCHANGED <<apiVars, disk, lease, acked, lost, netVars, faults>>

ReportFailure == pc = "raised" /\ Report("failing", Msg("failed", lease, 0, None))

\* The end of execute: a heartbeat still in flight is left behind.
Leave ==
  /\ pc' = "idle" /\ lease' = NoLease /\ acked' = 0 /\ lost' = FALSE
  /\ req' = [t \in Threads |-> NoMsg]
  /\ reply' = [t \in Threads |-> "pending"]
  /\ late' = IF /\ req["beat"].type # "none" /\ reply["beat"] = "pending"
                /\ Cardinality(late) < MaxLate
             THEN late \cup {req["beat"]} ELSE late
  /\ UNCHANGED <<apiVars, disk, faults>>

GiveUp == pc = "raised" /\ lost /\ Leave

\* The main thread receives the answer it waits for and goes on at next.
Resume(next, count) ==
  /\ pc' = next
  /\ acked' = count
  /\ req' = [req EXCEPT !["main"] = NoMsg]
  /\ reply' = [reply EXCEPT !["main"] = "pending"]
  /\ UNCHANGED <<apiVars, disk, lease, lost, late, faults>>

ReceiveJob ==
  pc = "claiming" /\ reply["main"] = "ok" /\ lease.job # 0 /\ Resume("start", 0)

\* Mutant of ReceiveNothing: a claim that fails is not survived.
ReceiveNothingStops ==
  pc = "claiming" /\ reply["main"] = "ok" /\ lease.job = 0 /\ Resume("idle", 0)

ReceiveNothing ==
  /\ pc = "claiming"
  /\ reply["main"] = "error" \/ (reply["main"] = "ok" /\ lease.job = 0)
  /\ Resume("idle", 0)

\* Mutant of ReceiveOk: the announcement of an episode counts as the episode.
ReceiveOkCountsTwice ==
  /\ reply["main"] = "ok"
  /\ \/ pc = "announcing" /\ Resume("inspect", acked + 1)
     \/ pc = "publishing" /\ Resume("announce", acked + 1)
     \/ pc \in {"completing", "failing"} /\ Leave

ReceiveOk ==
  /\ reply["main"] = "ok"
  /\ \/ pc = "announcing" /\ Resume("inspect", acked)
     \/ pc = "publishing" /\ Resume("announce", acked + 1)
     \/ pc \in {"completing", "failing"} /\ Leave

\* Mutant of ReceiveError: an episode that was not acknowledged is passed over.
ReceiveErrorGoesOn ==
  /\ reply["main"] = "error"
  /\ \/ pc = "publishing" /\ Resume("announce", acked + 1)
     \/ pc \in {"announcing", "completing"} /\ Resume("raised", acked)
     \/ pc = "failing" /\ Leave

ReceiveError ==
  /\ reply["main"] = "error"
  /\ \/ pc \in {"announcing", "publishing", "completing"} /\ Resume("raised", acked)
     \/ pc = "failing" /\ Leave

Main ==
  \/ Claim \/ Preflight \/ CompareFiles \/ AnnounceEpisode \/ InspectEpisode
  \/ FinishEpisodes \/ Read \/ Raise \/ ReportFailure \/ GiveUp
  \/ ReceiveJob \/ ReceiveNothing \/ ReceiveOk \/ ReceiveError

\* The heartbeat thread: one beat at a time until one of them fails.
Beat ==
  /\ Executing /\ ~lost /\ req["beat"].type = "none"
  /\ req' = [req EXCEPT !["beat"] = Msg("beat", lease, 0, None)]
  /\ UNCHANGED <<apiVars, disk, workerVars, reply, late, faults>>

BeatAnswered ==
  /\ req["beat"].type # "none" /\ reply["beat"] # "pending"
  /\ lost' = (lost \/ reply["beat"] = "error")
  /\ req' = [req EXCEPT !["beat"] = NoMsg]
  /\ reply' = [reply EXCEPT !["beat"] = "pending"]
  /\ UNCHANGED <<apiVars, disk, pc, lease, acked, late, faults>>

\* The supervisor starts the worker, at first and after each crash.
Start ==
  /\ pc = "down" /\ pc' = "idle"
  /\ UNCHANGED <<apiVars, disk, lease, acked, lost, netVars, faults>>

-----------------------------------------------------------------------------
(* The API serving a request.                                              *)

Acceptable(m) ==
  CASE m.type = "episode" -> CanPublish(m.job, m.attempt, m.episode, m.found)
    [] m.type = "completed" -> CanComplete(m.job, m.attempt, m.found, m.episode)
    [] OTHER -> Accepts(m.job, m.attempt)

\* An update is applied or refused as a whole.
Apply(m) ==
  \/ m.type = "beat" /\ Heartbeat(m.job, m.attempt)
  \/ m.type = "episode" /\ PublishEpisode(m.job, m.attempt, m.episode, m.found)
  \/ m.type = "failed" /\ Fail(m.job, m.attempt)
  \/ m.type = "completed" /\ Complete(m.job, m.attempt, m.found, m.episode)

ServeClaim ==
  /\ req["main"].type = "claim" /\ reply["main"] = "pending"
  /\ \/ ClaimNothing /\ UNCHANGED lease
     \/ \E j \in Jobs : ClaimJob(j) /\ lease' = [job |-> j, attempt |-> attempt[j] + 1]
  /\ reply' = [reply EXCEPT !["main"] = "ok"]
  /\ UNCHANGED <<disk, pc, acked, lost, req, late, faults>>

ServeUpdate(t) ==
  /\ req[t].type \notin {"none", "claim"} /\ reply[t] = "pending"
  /\ \/ Apply(req[t]) /\ reply' = [reply EXCEPT ![t] = "ok"]
     \/ /\ ~Acceptable(req[t])
        /\ reply' = [reply EXCEPT ![t] = "error"]
        /\ UNCHANGED apiVars
  /\ UNCHANGED <<disk, workerVars, req, late, faults>>

\* A late request is served although nobody waits for the answer.
ServeLate(m) ==
  /\ m \in late
  /\ late' = late \ {m}
  /\ \/ Apply(m)
     \/ m.type = "claim" /\ (ClaimNothing \/ \E j \in Jobs : ClaimJob(j))
     \/ m.type # "claim" /\ ~Acceptable(m) /\ UNCHANGED apiVars
  /\ UNCHANGED <<disk, workerVars, req, reply, faults>>

-----------------------------------------------------------------------------
(* Faults and the environment.                                             *)

\* A thread sees an error instead of its answer: its request was lost, is
\* still under way, was refused, or had already been served.
Timeout(t) ==
  /\ faults < MaxFaults
  /\ req[t].type # "none" /\ reply[t] # "error"
  /\ reply' = [reply EXCEPT ![t] = "error"]
  /\ lease' = IF req[t].type = "claim" THEN NoLease ELSE lease
  /\ \/ UNCHANGED late
     \/ /\ reply[t] = "pending" /\ Cardinality(late) < MaxLate
        /\ late' = late \cup {req[t]}
  /\ faults' = faults + 1
  /\ UNCHANGED <<apiVars, disk, pc, acked, lost, req>>

\* The worker dies; requests it had sent may still be served.
Crash ==
  /\ faults < MaxFaults
  /\ pc # "down"
  /\ pc' = "down" /\ lease' = NoLease /\ acked' = 0 /\ lost' = FALSE
  /\ req' = [t \in Threads |-> NoMsg]
  /\ reply' = [t \in Threads |-> "pending"]
  /\ \E T \in SUBSET {t \in Threads : req[t].type # "none" /\ reply[t] = "pending"} :
       /\ T = {} \/ Cardinality(late) + Cardinality(T) <= MaxLate
       /\ late' = late \cup {req[t] : t \in T}
  /\ faults' = faults + 1
  /\ UNCHANGED <<apiVars, disk>>

\* Somebody edits the files of a source.
ChangeFiles(s) ==
  /\ \E v \in Versions \ {disk[s]} : disk' = [disk EXCEPT ![s] = v]
  /\ UNCHANGED <<apiVars, workerVars, netVars, faults>>

ApiStep == (Operator \/ Tick \/ Reconcile)
  /\ UNCHANGED <<disk, workerVars, netVars, faults>>

SystemNext ==
  \/ ApiStep
  \/ Main \/ Beat \/ BeatAnswered \/ Start
  \/ ServeClaim
  \/ \E t \in Threads : ServeUpdate(t) \/ Timeout(t)
  \/ \E m \in late : ServeLate(m)
  \/ Crash
  \/ \E s \in Sources : ChangeFiles(s)

SystemSpec == SystemInit /\ [][SystemNext]_vars

\* The API serves what reaches it and reconciles on a timer, the clock runs,
\* the worker's threads make progress and the supervisor starts the worker.
\* Nothing is assumed of the operator, of faults or of the files.
Fairness ==
  /\ WF_vars(Main) /\ WF_vars(BeatAnswered) /\ WF_vars(Start)
  /\ WF_vars(ServeClaim)
  /\ \A t \in Threads : WF_vars(ServeUpdate(t))
  /\ WF_vars(Tick /\ UNCHANGED <<disk, workerVars, netVars, faults>>)
  /\ WF_vars(Reconcile /\ UNCHANGED <<disk, workerVars, netVars, faults>>)

FairSpec == SystemSpec /\ Fairness

-----------------------------------------------------------------------------
(* Properties.                                                             *)

\* A source counts as imported only when every episode of its plan is
\* committed with the approved contents, although the API checks no more than
\* the number of episodes the worker reports: the worker reports it only after
\* each episode was acknowledged, whatever expired, crashed or came late.
ImportedIsComplete ==
  \A s \in Sources : sourceStatus[s] = "imported" =>
    plan[s] # None /\ \A e \in Episodes : episodes[s][e] = plan[s]

\* What the worker believes committed is committed.
AcknowledgedIsCommitted ==
  Executing /\ kind[lease.job] = "import" =>
    \A e \in 1..acked : episodes[Source][e] = payload[lease.job]

\* No thread, message or crashed worker holds an attempt number from the
\* future: the fencing token alone decides whose update counts.
TokensWereHandedOut ==
  \A l \in {lease} \cup {req[t] : t \in Threads} \cup late :
    l.job # 0 => l.attempt \in 1..attempt[l.job]

\* The inductive strengthening of the three above.  A message on its way names a
\* job unless it is a claim, and one that reports an import complete is true;
AllCommitted(j) == \A e \in Episodes : episodes[subject[j]][e] = payload[j]
MessagesTrue ==
  \A m \in {req[t] : t \in Threads} \cup late :
    /\ m.type \in {"none", "claim"} <=> m.job = 0
    /\ m.type = "episode" => m.episode # 0
    /\ m.type = "completed" /\ kind[m.job] = "import" => AllCommitted(m.job)

\* the main thread waits for the request of the point it is at, and an episode
\* it is told was stored is stored.
RequestAt ==
  [claiming |-> "claim", announcing |-> "beat", publishing |-> "episode",
   completing |-> "completed", failing |-> "failed"]
MainThread ==
  /\ pc \in Waiting => req["main"].type = RequestAt[pc]
  /\ pc \notin Waiting => req["main"] = NoMsg /\ reply["main"] = "pending"
  /\ Executing => lease.job # 0
  /\ pc \in {"announce", "announcing", "inspect", "publishing"} => kind[lease.job] = "import"
  /\ pc \in {"announcing", "inspect", "publishing"} => acked < NumEpisodes
  /\ pc = "publishing" => req["main"].job = lease.job /\ req["main"].episode = acked + 1
  /\ pc = "publishing" /\ reply["main"] = "ok" =>
       episodes[Source][acked + 1] = payload[lease.job]
  /\ req["beat"].type \in {"none", "beat"}

SystemInv ==
  /\ JobsInv /\ SystemTypeOK /\ ImportedIsComplete /\ AcknowledgedIsCommitted
  /\ TokensWereHandedOut /\ MessagesTrue /\ MainThread

\* The service keeps the promises of EvidenceCatalog.
Promise == INSTANCE EvidenceCatalog
KeepsPromise == Promise!Spec

\* A job that is waiting or running ends, or is cancelled: lost claims, lost
\* answers, dead workers and expired leases delay it but cannot wedge it.
Settled(j) == status[j] \in {"completed", "failed", "cancelled"}
JobsSettle == \A j \in Jobs : status[j] \in {"queued", "running"} ~> Settled(j)
=============================================================================
