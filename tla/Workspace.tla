------------------------------ MODULE Workspace ------------------------------
(***************************************************************************)
(* The dashboard's view of the live world and its model                    *)
(* (web/src/product/useWorkspace.ts).  It is fed by a socket that may      *)
(* close and be opened again, and by requests whose answers arrive late,   *)
(* in any order or never.  An answer that was overtaken is recognised by a *)
(* revision counter; here its request has left the set "fresh".            *)
(***************************************************************************)
EXTENDS Integers

CONSTANTS
  None, Idle, Asked, Failed,   \* no value; the states of a request without an answer
  MaxWorlds,                   \* bound: worlds that become live
  MaxFaults                    \* bound: socket failures and failed requests

ASSUME WorkspaceAssumption ==
  MaxWorlds \in Nat \ {0} /\ {None, Idle, Asked, Failed} \cap 1..MaxWorlds = {}

VARIABLES
  live,       \* the world that is live
  frame,      \* the state frame on its way, None, or Failed while the socket is closed
  get,        \* each request: Idle, Asked, or its answer
  models,     \* the model requests, by the world whose arrival caused them
  fresh,      \* the requests since which no snapshot has been accepted
  shown,      \* the world of the snapshot on display, 0 before the first
  model,      \* the world of the model on display, or 0
  faults

vars == <<live, frame, get, models, fresh, shown, model, faults>>

Worlds == 1..MaxWorlds

\* The state and the model of a refresh, and the state the poll asks for.
Slots == {"state", "model", "watch"}
OfRefresh == {"state", "model"}

Answered(answer) == answer \notin {Idle, Asked}

\* Mutant of Told: the page does not look at what it was told.
ToldAnything(slot) == Answered(get[slot])

Told(slot) == get[slot] \in Worlds
Begin(requests) == get' = [s \in Slots |-> IF s \in requests THEN Asked ELSE get[s]]
Finish(requests) == get' = [s \in Slots |-> IF s \in requests THEN Idle ELSE get[s]]

\* The page is opened: its first refresh is on its way.
Init ==
  /\ live = 1 /\ frame = None
  /\ get = [s \in Slots |-> IF s \in OfRefresh THEN Asked ELSE Idle]
  /\ models = [w \in Worlds |-> Idle] /\ fresh = {"state"}
  /\ shown = 0 /\ model = 0 /\ faults = 0

-----------------------------------------------------------------------------
(* The simulation, as far as it is seen from here.                         *)

Reset ==
  /\ live < MaxWorlds /\ live' = live + 1
  /\ UNCHANGED <<frame, get, models, fresh, shown, model, faults>>

\* The live state is sent again and again.
SendFrame ==
  /\ frame = None /\ frame' = live
  /\ UNCHANGED <<live, get, models, fresh, shown, model, faults>>

Serve(slot) ==
  /\ get[slot] = Asked /\ get' = [get EXCEPT ![slot] = live]
  /\ UNCHANGED <<live, frame, models, fresh, shown, model, faults>>

ServeModel(w) ==
  /\ models[w] = Asked /\ models' = [models EXCEPT ![w] = live]
  /\ UNCHANGED <<live, frame, get, fresh, shown, model, faults>>

-----------------------------------------------------------------------------
(* acceptSnapshot() and acceptModel().                                     *)

\* Mutant of ModelFor: the model asked for last is shown.
ModelAlways(world, offered, previous) == IF offered # 0 THEN offered ELSE previous

\* A model of another world is ignored.
ModelFor(world, offered, previous) == IF offered = world THEN offered ELSE previous

\* A new world drops the model of the old one.
Keeps(w) == IF model = w THEN model ELSE 0

\* Mutant of Accept: only the first snapshot asks for a model.
AcceptQuietly(w, offered) ==
  /\ shown' = w /\ fresh' = {}
  /\ model' = ModelFor(w, offered, Keeps(w))
  /\ models' = IF shown = 0 THEN [models EXCEPT ![w] = Asked] ELSE models

\* The snapshot is shown, what was asked for before it is out of date, and a
\* new world asks for its model.
Accept(w, offered) ==
  /\ shown' = w /\ fresh' = {}
  /\ model' = ModelFor(w, offered, Keeps(w))
  /\ models' = IF w # shown THEN [models EXCEPT ![w] = Asked] ELSE models

\* A frame is accepted as it comes.
Frame ==
  /\ frame \in Worlds /\ frame' = None
  /\ Accept(frame, 0)
  /\ UNCHANGED <<live, get, faults>>

TakeModel(w) ==
  /\ models[w] \in Worlds
  /\ models' = [models EXCEPT ![w] = Idle]
  /\ model' = ModelFor(shown, models[w], model)
  /\ UNCHANGED <<live, frame, get, fresh, shown, faults>>

\* Mutant of Current: late answers are taken as well.
CurrentAlways(slot) == Told(slot)

\* The state arrived, and none was accepted since it was asked for.
Current(slot) == Told(slot) /\ slot \in fresh

-----------------------------------------------------------------------------
(* refresh(), after a task of the page, and the poll.                      *)

Refresh ==
  /\ \A s \in OfRefresh : get[s] = Idle
  /\ Begin(OfRefresh) /\ fresh' = fresh \cup {"state"}
  /\ UNCHANGED <<live, frame, models, shown, model, faults>>

\* Both are in: first the state, then the model.
Refreshed ==
  /\ \A s \in OfRefresh : Answered(get[s])
  /\ Finish(OfRefresh)
  /\ LET offered == IF Told("model") THEN get["model"] ELSE 0
     IN  \/ Current("state") /\ Accept(get["state"], offered)
         \/ /\ ~Current("state") /\ model' = ModelFor(shown, offered, model)
            /\ fresh' = fresh \ {"state"} /\ UNCHANGED <<shown, models>>
  /\ UNCHANGED <<live, frame, faults>>

\* The socket has been silent for 5 seconds.
Watch ==
  /\ get["watch"] = Idle
  /\ Begin({"watch"}) /\ fresh' = fresh \cup {"watch"}
  /\ UNCHANGED <<live, frame, models, shown, model, faults>>

Watched ==
  /\ Answered(get["watch"]) /\ Finish({"watch"})
  /\ \/ Current("watch") /\ Accept(get["watch"], 0)
     \/ ~Current("watch") /\ fresh' = fresh \ {"watch"} /\ UNCHANGED <<shown, model, models>>
  /\ UNCHANGED <<live, frame, faults>>

\* The socket closes, with the frame on its way, or a request fails.
Fault ==
  /\ faults < MaxFaults /\ faults' = faults + 1
  /\ \/ frame # Failed /\ frame' = Failed /\ UNCHANGED <<get, models>>
     \/ /\ \E s \in Slots : get[s] = Asked /\ get' = [get EXCEPT ![s] = Failed]
        /\ UNCHANGED <<frame, models>>
     \/ /\ \E w \in Worlds : models[w] = Asked /\ models' = [models EXCEPT ![w] = Failed]
        /\ UNCHANGED <<frame, get>>
  /\ UNCHANGED <<live, fresh, shown, model>>

Connect ==
  /\ frame = Failed /\ frame' = None
  /\ UNCHANGED <<live, get, models, fresh, shown, model, faults>>

Next ==
  \/ Reset \/ SendFrame \/ Frame \/ Refresh \/ Refreshed \/ Watch \/ Watched \/ Fault \/ Connect
  \/ \E s \in Slots : Serve(s)
  \/ \E w \in Worlds : ServeModel(w) \/ TakeModel(w)

\* The simulation answers and sends, the browser takes what arrives, the poll
\* fires and the socket is opened again.  Nobody has to refresh or to reset.
Fairness ==
  /\ WF_vars(SendFrame) /\ WF_vars(Frame) /\ WF_vars(Connect)
  /\ WF_vars(Refreshed) /\ WF_vars(Watch) /\ WF_vars(Watched)
  /\ \A s \in Slots : WF_vars(Serve(s))
  /\ \A w \in Worlds : WF_vars(ServeModel(w)) /\ WF_vars(TakeModel(w))

Spec == Init /\ [][Next]_vars
FairSpec == Spec /\ Fairness

-----------------------------------------------------------------------------

\* The model on display is that of the world on display: a trajectory is never
\* drawn in the scene of another world (App.tsx:256 relies on it).
ModelOfShown == model \in {0, shown}

\* The answer to a request never sets the display back to an earlier world: one
\* that was overtaken is dropped (snapshotRevision, useWorkspace.ts:65, 111).
\* Frames are trusted: one that was overtaken by an answer is shown for a moment.
AnswersNeverSetBack == [][frame' = frame => shown' >= shown]_vars

\* The page ends up with the live world, and with its model unless the one
\* request for it failed: nothing repeats that one (useWorkspace.ts:49, 108).
CatchesUp == <>[](shown = live /\ (model = live \/ models[live] = Failed))

\* The dashboard relies on no more of the view than that it shows worlds that
\* are or were live.
View == INSTANCE LiveView WITH MaxWorlds <- MaxWorlds, live <- live, shown <- shown
ShowsLiveWorlds == View!ViewSpec
=============================================================================
