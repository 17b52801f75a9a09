------------------------------ MODULE Dashboard ------------------------------
(***************************************************************************)
(* Repairs on the dashboard (web/src/App.tsx and the repair half of        *)
(* web/src/product/useWorkspace.ts).  The page learns of them by events,   *)
(* which are lost while their socket is closed, by the history it restores *)
(* when it is opened, and by a poll; a revision counter tells it which     *)
(* answers were overtaken by news, here those whose request has left       *)
(* "fresh".  It asks for repairs and for held-out runs, which take minutes, *)
(* and shows what came of them only while it is about the world and the    *)
(* source on display.  The world on display is that of LiveView.           *)
(***************************************************************************)
EXTENDS LiveView, Sequences

CONSTANTS
  None, Idle, Asked,   \* no value; the states of a request without an answer
  MaxRepairs,          \* bound: repairs begun while the page is open
  MaxSources,          \* bound: different sources among the candidates
  MaxTurns,            \* the candidates a repair may put forward
  MaxFaults            \* bound: sockets closed, requests failed or given up

\* A repair passes and fails alike, as "final".  The gateway says that a candidate
\* is "testing" also when its test is over, here "tested", and that a repair has
\* passed or failed before that is saved, here "saving".
Told == {"generating", "testing", "final", "error"}
Statuses == Told \cup {"tested", "saving"}
Sources == 0..MaxSources   \* 0: there is none yet
Artifacts == [world : Nat, status : Statuses, source : Sources]
Copies == [id : Nat, world : Nat, source : Sources, status : Told, full : BOOLEAN]

ASSUME DashboardAssumption == None \notin Copies /\ MaxWorlds \in Nat /\ MaxSources \in Nat \ {0} /\ MaxTurns \in Nat

VARIABLES
  artifacts,  \* the gateway's repairs, in the order of their creation
  job,        \* its job: a repair, HeldOut, or NoJob
  turns,      \* candidates the repair at work has put forward
  news,       \* the repair events on their way, in order
  listening,  \* the event socket is open
  get,        \* each request: Idle, Asked, or its answer
  fresh,      \* the requests out since which no repair was published
  hydrate,    \* the refresh under way also restores the history
  since,      \* the repair on display when the poll asked for the saved ones
  repair,     \* the repair on display, or None
  running,    \* health.job on display: None before the first answer
  ran,        \* what the poll was told last
  post,       \* the long request of this page, or None
  heldout,    \* the held-out results on display, as they were measured, or None
  faults

gatewayVars == <<artifacts, job, turns>>
socketVars == <<news, listening>>
requestVars == <<get, fresh, hydrate, since>>
healthVars == <<running, ran>>
shownVars == <<repair, heldout>>
vars == <<viewVars, gatewayVars, socketVars, requestVars, healthVars, shownVars, post, faults>>

HeldOut == -1
NoJob == 0

\* The health in a refresh, the history after it, and the saved repairs the poll
\* may ask for.
Slots == {"refresh", "history", "saved"}

Settled(r) == r.status \in {"final", "error"}

\* A copy of a repair.  The answer to a request carries its recorded frames; an
\* event does not.
Copy(id, full) ==
  LET status == CASE artifacts[id].status = "tested" -> "testing"
                  [] artifacts[id].status = "saving" -> "final"
                  [] OTHER -> artifacts[id].status
  IN  [id |-> id, world |-> artifacts[id].world, source |-> artifacts[id].source,
       status |-> status, full |-> full /\ status = "final"]

Newest == IF artifacts = <<>> THEN None ELSE Copy(Len(artifacts), TRUE)

Answered(slot) == get[slot] \notin {Idle, Asked}
Begin(slot) == get' = [get EXCEPT ![slot] = Asked]
Finish(slot) == get' = [get EXCEPT ![slot] = Idle] /\ fresh' = fresh \ {slot}

\* The hash is of the source alone: two repairs may arrive at the same.
Hash(r) == r.source

To(at) == post' = [post EXCEPT !.at = at]

\* The page is opened over a gateway with an earlier repair; its first refresh
\* restores the history.
Init ==
  /\ ViewInit /\ job = NoJob /\ turns = 0
  /\ artifacts = <<[world |-> 1, status |-> "final", source |-> 1]>>
  /\ news = <<>> /\ listening = TRUE
  /\ get = [s \in Slots |-> IF s = "refresh" THEN Asked ELSE Idle]
  /\ fresh = {"history"} /\ hydrate = TRUE /\ since = 0
  /\ repair = None /\ running = None /\ ran = FALSE
  /\ post = None /\ heldout = None /\ faults = 0

-----------------------------------------------------------------------------
(* The gateway, as far as it is seen from here.                            *)

\* A repair starts from the gateway's own failure, which must be of the live world.
BeginRepair ==
  /\ Len(artifacts) <= MaxRepairs /\ job = NoJob
  /\ artifacts' = Append(artifacts, [world |-> live, status |-> "generating", source |-> 0])
  /\ job' = Len(artifacts') /\ UNCHANGED turns

\* The repair of another page.
OtherRepair ==
  /\ BeginRepair
  /\ UNCHANGED <<viewVars, socketVars, requestVars, healthVars, shownVars, post, faults>>

\* The repair at work goes on; emit() tells the browsers that are listening.
Advance(status, source, emit) ==
  /\ artifacts' = [artifacts EXCEPT ![job].status = status, ![job].source = source]
  /\ UNCHANGED <<viewVars, job, listening, requestVars, healthVars, shownVars, post, faults>>
  /\ news' = IF emit /\ listening THEN Append(news, Copy(job, FALSE)') ELSE news

\* The model puts a candidate forward, in place of the one before, if that was
\* tested or there was no test left for it.
Candidate ==
  /\ artifacts[job].status \in {"generating", "testing", "tested"}
  /\ turns < MaxTurns /\ turns' = turns + 1
  /\ \E s \in Sources \ {0} : Advance("testing", s, TRUE)

\* Its test is over.  A verdict needs one, in a world that is still live, and is
\* told when it is saved.  Anything may fail on the way, the saving of the failure
\* too: then nobody is told.
RepairGoesOn ==
  /\ job > 0 /\ ~Settled(artifacts[job])
  /\ LET now == artifacts[job]
     IN  \/ Candidate
         \/ now.status = "testing" /\ Advance("tested", now.source, TRUE) /\ UNCHANGED turns
         \/ now.status = "tested" /\ now.world = live /\ Advance("saving", now.source, FALSE) /\ UNCHANGED turns
         \/ now.status = "saving" /\ Advance("final", now.source, TRUE) /\ UNCHANGED turns
         \/ (\E emit \in BOOLEAN : Advance("error", now.source, emit)) /\ UNCHANGED turns

\* What a request of the page is told when it is served.  The job, in a refresh
\* and in the poll, is shown as soon as it is told.
Serve(slot) ==
  /\ slot # "refresh" /\ get[slot] = Asked
  /\ get' = [get EXCEPT ![slot] = Newest]
  /\ UNCHANGED <<viewVars, gatewayVars, socketVars, fresh, hydrate, since, healthVars, shownVars, post, faults>>

\* The page does not say which failure it means.  The gateway refuses when it is at
\* work, or has no failure of the live world.
ServeRepair ==
  /\ post # None /\ post.kind = "repair" /\ post.at = "sent"
  /\ \/ /\ BeginRepair
        /\ post' = [post EXCEPT !.at = "running", !.id = Len(artifacts')]
     \/ To("refused") /\ UNCHANGED gatewayVars
  /\ UNCHANGED <<viewVars, socketVars, requestVars, healthVars, shownVars, faults>>

\* assertArtifactOrigin()
OfOrigin(id) ==
  /\ artifacts[id].source # 0 /\ artifacts[id].status \in {"saving", "final"}
  /\ artifacts[id].world = live

ServeHeldOut ==
  /\ post # None /\ post.kind = "heldout" /\ post.at = "sent"
  /\ \/ OfOrigin(post.id) /\ job = NoJob /\ job' = HeldOut /\ To("running")
     \/ ~(OfOrigin(post.id) /\ job = NoJob) /\ To("refused") /\ UNCHANGED job
  /\ UNCHANGED <<viewVars, artifacts, turns, socketVars, requestVars, healthVars, shownVars, faults>>

\* The job is over, and its request, if the page still waits for it, answered.  A
\* held-out run may fail, and is given up when its repair is no longer of the live
\* world.
JobOver ==
  /\ job' = NoJob /\ turns' = 0
  /\ IF post # None /\ post.at = "running" /\ (post.kind = "heldout" \/ post.id = job)
     THEN \/ post.kind = "repair" /\ To(IF artifacts[job].status = "final" THEN "answered" ELSE "refused")
          \/ /\ post.kind = "heldout" /\ OfOrigin(post.id)
             /\ post' = [post EXCEPT !.at = "answered",
                         !.measured = [world |-> live, hash |-> Hash(artifacts[post.id])]]
          \/ post.kind = "heldout" /\ To("refused")
     ELSE UNCHANGED post
  /\ UNCHANGED <<viewVars, artifacts, socketVars, requestVars, healthVars, shownVars, faults>>

EndJob == (job = HeldOut \/ (job > 0 /\ Settled(artifacts[job]))) /\ JobOver

\* The start of a repair could not be recorded: it is left as it was begun.
Abandoned == job > 0 /\ artifacts[job].status = "generating" /\ JobOver

-----------------------------------------------------------------------------
(* What changes the repair on display.                                     *)

\* Held-out results of another world or another source are put away.
Purge(world, r) == heldout' = IF heldout # None /\ (world # shown \/ Hash(r) # Hash(repair)) THEN None ELSE heldout

\* publishRepair()
Publish(r) == repair' = r /\ Purge(shown, r)

Event ==
  /\ news # <<>> /\ news' = Tail(news)
  /\ Publish(Head(news)) /\ fresh' = {}
  /\ UNCHANGED <<viewVars, gatewayVars, listening, get, hydrate, since, healthVars, post, faults>>

\* refresh(): the health, among others, is shown if it could be had, and then the
\* history asked for.
Refresh(running2) ==
  /\ get["refresh"] = Asked
  /\ running' = running2
  /\ get' = [get EXCEPT !["refresh"] = Idle, !["history"] = IF hydrate THEN Asked ELSE @]
  /\ hydrate' = FALSE
  /\ UNCHANGED <<viewVars, gatewayVars, socketVars, fresh, since, ran, shownVars, post>>

Refreshed == Refresh(job # NoJob) /\ UNCHANGED faults

\* hydratedRepair(): nothing was published meanwhile, and it is not an older one.
Hydrated ==
  /\ Answered("history") /\ Finish("history")
  /\ IF /\ get["history"] # None /\ "history" \in fresh
        /\ (repair # None => repair.id <= get["history"].id)
     THEN Publish(get["history"]) ELSE UNCHANGED shownVars
  /\ UNCHANGED <<viewVars, gatewayVars, socketVars, hydrate, since, healthVars, post, faults>>

\* Mutant of NeedsSaved: the saved repairs are read only after a job was seen.
NeedsSavedAfter == ran

\* A job has ended, or the repair on display is not complete.
NeedsSaved == ran \/ (repair # None /\ ~(Settled(repair) /\ repair.full))

\* Every 8 seconds the job is asked for; with none at work the saved repairs are,
\* if there is reason to.
Poll ==
  /\ get["saved"] = Idle
  /\ IF job = NoJob /\ NeedsSaved
     THEN Begin("saved") /\ fresh' = fresh \cup {"saved"} /\ since' = IF repair = None THEN 0 ELSE repair.id
     ELSE UNCHANGED <<get, fresh, since>>
  /\ running' = (job # NoJob) /\ ran' = (job # NoJob)
  /\ UNCHANGED <<viewVars, gatewayVars, socketVars, hydrate, shownVars, post, faults>>

\* The newest one is taken unless another was published meanwhile.
Saved ==
  /\ Answered("saved") /\ since' = 0
  /\ get' = [get EXCEPT !["saved"] = Idle]
  /\ IF get["saved"] # None /\ "saved" \in fresh /\ get["saved"].id >= since
     THEN Publish(get["saved"]) /\ fresh' = {}
     ELSE fresh' = fresh \ {"saved"} /\ UNCHANGED shownVars
  /\ UNCHANGED <<viewVars, gatewayVars, socketVars, hydrate, healthVars, post, faults>>

Lost(slot) ==
  /\ slot # "refresh" /\ get[slot] = Asked /\ Finish(slot)
  /\ since' = IF slot = "saved" THEN 0 ELSE since
  /\ UNCHANGED <<viewVars, gatewayVars, socketVars, hydrate, healthVars, shownVars, post>>

\* What is on its way when the event socket closes is lost.
Disconnect ==
  /\ listening /\ listening' = FALSE /\ news' = <<>>
  /\ UNCHANGED <<viewVars, gatewayVars, requestVars, healthVars, shownVars, post>>

\* The event socket closes, or a request fails.
Fault ==
  /\ faults < MaxFaults /\ faults' = faults + 1
  /\ Disconnect \/ Refresh(running) \/ (\E s \in Slots : Lost(s))

Connect ==
  /\ ~listening /\ listening' = TRUE
  /\ UNCHANGED <<viewVars, gatewayVars, news, requestVars, healthVars, shownVars, post, faults>>

-----------------------------------------------------------------------------
(* execute(): one long request at a time.                                  *)

\* repairWithAstra(): offered for a counterexample in the world on display.
AskRepair ==
  /\ post = None /\ running = FALSE /\ shown # 0
  /\ post' = [kind |-> "repair", at |-> "sent", id |-> 0, previous |-> IF repair = None THEN 0 ELSE repair.id]
  /\ UNCHANGED <<viewVars, gatewayVars, socketVars, requestVars, healthVars, shownVars, faults>>

\* Mutant of Offered: also for a repair of another world.
OfferedAnyway == repair # None

\* hasCurrentRepair: the repair on display is of the world on display.  It need
\* not be settled, as it is displayed.
Offered == repair # None /\ repair.world = shown

\* runHeldout(): the world and the source are those on display at the click.
AskHeldOut ==
  /\ post = None /\ running # TRUE /\ shown # 0 /\ Offered
  /\ post' = [kind |-> "heldout", at |-> "sent", world |-> shown, id |-> repair.id,
              hash |-> Hash(repair), measured |-> None]
  /\ UNCHANGED <<viewVars, gatewayVars, socketVars, requestVars, healthVars, shownVars, faults>>

Refused ==
  /\ post # None /\ post.at = "refused" /\ post' = None
  /\ UNCHANGED <<viewVars, gatewayVars, socketVars, requestVars, healthVars, shownVars, faults>>

\* The page gives up after four minutes; the gateway goes on.
GiveUp ==
  /\ faults < MaxFaults /\ faults' = faults + 1
  /\ post # None /\ post.at \in {"sent", "running"} /\ post' = None
  /\ UNCHANGED <<viewVars, gatewayVars, socketVars, requestVars, healthVars, shownVars>>

\* The repair has come back: the view is refreshed first.
Repaired ==
  /\ post # None /\ post.kind = "repair" /\ post.at = "answered"
  /\ get["refresh"] = Idle /\ Begin("refresh") /\ To("refreshing")
  /\ UNCHANGED <<viewVars, gatewayVars, socketVars, fresh, hydrate, since, healthVars, shownVars, faults>>

\* It is shown if it is of the world on display and no newer one is.
ShowResult ==
  /\ post # None /\ post.at = "refreshing" /\ get["refresh"] = Idle
  /\ post' = None
  /\ IF artifacts[post.id].world = shown /\ (repair # None => repair.id <= post.id)
     THEN Publish(Copy(post.id, TRUE)) /\ fresh' = {} ELSE UNCHANGED <<shownVars, fresh>>
  /\ UNCHANGED <<viewVars, gatewayVars, socketVars, get, hydrate, since, healthVars, faults>>

\* Mutant of Applies: what the results were measured with is not looked at.
AppliesToShown == shown = post.world /\ post.hash \in {0, Hash(repair)}

\* The world and the source on display are still those of the click, and those are
\* what was measured: the repair may have got another source before it was final.
\* Without a source at the click, any source is that of the click.
Applies == shown = post.world /\ post.hash \in {0, Hash(repair)} /\ post.measured.hash = post.hash

HeldOutDone ==
  /\ post # None /\ post.kind = "heldout" /\ post.at = "answered" /\ post' = None
  /\ heldout' = IF Applies THEN post.measured ELSE heldout
  /\ UNCHANGED <<viewVars, gatewayVars, socketVars, requestVars, healthVars, repair, faults>>

\* The effect that shows how a repair ended before its request is answered: a
\* settled repair other than the one on display when it was asked for.  What the
\* request brings later is not looked at.
Conclude ==
  /\ post # None /\ post.kind = "repair" /\ post.at # "refreshing" /\ running = FALSE
  /\ repair # None /\ repair.id # post.previous /\ Settled(repair)
  /\ repair.world # shown \/ repair.full \/ repair.status = "error"
  /\ post' = None
  /\ UNCHANGED <<viewVars, gatewayVars, socketVars, requestVars, healthVars, shownVars, faults>>

ViewStep ==
  /\ Replace \/ Show
  /\ Purge(shown', repair)
  /\ UNCHANGED <<gatewayVars, socketVars, requestVars, healthVars, repair, post, faults>>

GatewayStep == OtherRepair \/ RepairGoesOn \/ ServeRepair \/ ServeHeldOut \/ EndJob \/ Abandoned \/ (\E s \in Slots : Serve(s))
BrowserStep == Event \/ Refreshed \/ Hydrated \/ Poll \/ Saved \/ Fault \/ Connect
PageStep == AskRepair \/ AskHeldOut \/ Refused \/ GiveUp \/ Repaired \/ ShowResult \/ HeldOutDone \/ Conclude

Next == ViewStep \/ GatewayStep \/ BrowserStep \/ PageStep

\* The gateway goes on with what it began, the poll fires, and the saved repairs it
\* asks for are served and taken, unless that request is among those that fail.
\* Neither events nor the socket are counted on, and nobody has to click.
Fairness ==
  /\ WF_vars(RepairGoesOn) /\ WF_vars(EndJob)
  /\ WF_vars(Poll) /\ WF_vars(Serve("saved")) /\ WF_vars(Saved)

Spec == Init /\ [][Next]_vars
FairSpec == Spec /\ Fairness

-----------------------------------------------------------------------------

\* Held-out results on display were measured with the source and in the world
\* on display, whatever was replaced while they ran (App.tsx:83, 149).
HeldOutIsOfShown ==
  heldout # None => repair # None /\ heldout = [world |-> shown, hash |-> Hash(repair)]

\* A repair that the gateway has settled does not stay unsettled on display,
\* though its last event was lost (the poll of useWorkspace.ts:113).
RepairSettles ==
  (repair # None /\ ~Settled(repair) /\ Settled(artifacts[repair.id]))
    ~> (repair = None \/ Settled(repair) \/ ~Settled(artifacts[repair.id]))
=============================================================================
