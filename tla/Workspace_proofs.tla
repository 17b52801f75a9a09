-------------------------- MODULE Workspace_proofs ---------------------------
(***************************************************************************)
(* Proofs about the dashboard's view of the live world: what it shows was  *)
(* live, the model belongs to it, and no answer sets it back, for any      *)
(* number of worlds and failures.                                          *)
(***************************************************************************)
EXTENDS Workspace, TLAPS

\* What a request or a frame may carry besides a world.
Blank == {None, Idle, Asked, Failed}

\* Worlds are told only once they are live; the request of an answer that is
\* still fresh was made after the world on display had become live.
ViewInv ==
  /\ live \in 1..MaxWorlds /\ shown \in 0..live
  /\ frame \in 1..live \cup Blank
  /\ get \in [Slots -> 1..live \cup Blank]
  /\ models \in [Worlds -> 1..live \cup Blank]
  /\ \A s \in fresh \cap Slots : get[s] \in 1..live => get[s] >= shown
  /\ model \in {0, shown}

\* A world that was told is or was live.
LEMMA ToldLive == ASSUME ViewInv, NEW s \in Slots, Told(s) PROVE get[s] \in 1..live
BY WorkspaceAssumption DEF ViewInv, Told, Worlds, Blank

\* Showing a world that is or was live.
LEMMA AcceptKeeps ==
  ASSUME ViewInv, NEW w \in 1..live, NEW offered, Accept(w, offered), live' = live,
         frame' \in 1..live \cup Blank, get' \in [Slots -> 1..live \cup Blank]
  PROVE  ViewInv'
<1>1. live \in Nat /\ MaxWorlds \in Nat BY WorkspaceAssumption DEF ViewInv
<1>2. shown' = w /\ fresh' = {} BY DEF Accept
<1>3. models' \in [Worlds -> 1..live \cup Blank] BY DEF Accept, ViewInv, Blank
<1>4. model' \in {0, w} BY DEF Accept, ModelFor, Keeps, ViewInv
<1> QED BY <1>1, <1>2, <1>3, <1>4 DEF ViewInv

\* An answer that is not shown.
LEMMA PassedOver ==
  ASSUME ViewInv, live' = live, shown' = shown, models' = models, frame' = frame,
         get' \in [Slots -> 1..live \cup Blank], fresh' \subseteq fresh,
         \A s \in fresh' \cap Slots : get'[s] = get[s] \/ get'[s] \notin 1..live,
         model' \in {0, shown}
  PROVE  ViewInv'
BY DEF ViewInv

\* Requests that begin or end.
LEMMA Requests ==
  ASSUME ViewInv, NEW requests
  PROVE  /\ Begin(requests) => /\ get' \in [Slots -> 1..live \cup Blank]
                               /\ \A s \in Slots : get'[s] = get[s] \/ get'[s] = Asked
         /\ Finish(requests) => /\ get' \in [Slots -> 1..live \cup Blank]
                                /\ \A s \in Slots : get'[s] = get[s] \/ get'[s] = Idle
BY DEF Begin, Finish, ViewInv, Blank

\* A state that none is accepted for is no world.
LEMMA BlankIsNoWorld == ViewInv => Blank \cap 1..live = {}
BY WorkspaceAssumption DEF ViewInv, Blank

\* The first page view.
LEMMA ViewStarts == Init => ViewInv
<1> SUFFICES ASSUME Init PROVE ViewInv OBVIOUS
<1>1. live = 1 /\ shown = 0 /\ model = 0 /\ frame = None BY DEF Init
<1>2. get \in [Slots -> 1..live \cup Blank] BY DEF Init, Blank
<1>3. models \in [Worlds -> 1..live \cup Blank] BY DEF Init, Blank
<1>4. \A s \in Slots : get[s] \notin 1..live
  <2>1. \A s \in Slots : get[s] \in {Asked, Idle} BY DEF Init
  <2> QED BY <2>1, <1>1, WorkspaceAssumption
<1> QED BY <1>1, <1>2, <1>3, <1>4, WorkspaceAssumption DEF ViewInv, Blank

\* What a step does to the world on display, and that it keeps the invariant.
LEMMA ViewStep ==
  ASSUME ViewInv, [Next]_vars
  PROVE  /\ ViewInv'
         /\ \/ live' = live /\ shown' = shown
            \/ live < MaxWorlds /\ live' = live + 1 /\ shown' = shown
            \/ live' = live /\ shown' \in 1..live
         /\ frame' = frame => shown' >= shown
<1> DEFINE Goal == /\ ViewInv'
                   /\ \/ live' = live /\ shown' = shown
                      \/ live < MaxWorlds /\ live' = live + 1 /\ shown' = shown
                      \/ live' = live /\ shown' \in 1..live
                   /\ frame' = frame => shown' >= shown
<1>t. live \in Nat /\ MaxWorlds \in Nat /\ shown \in Nat BY WorkspaceAssumption DEF ViewInv
<1>1. CASE Reset
  <2>1. /\ live < MaxWorlds /\ live' = live + 1 /\ shown' = shown /\ frame' = frame /\ get' = get
        /\ models' = models /\ fresh' = fresh /\ model' = model
    BY <1>1 DEF Reset
  <2>2. 1..live \subseteq 1..live' /\ live' \in 1..MaxWorlds /\ shown' \in 0..live'
    BY <1>t, <2>1 DEF ViewInv
  <2>3. frame' \in 1..live' \cup Blank BY <2>1, <2>2 DEF ViewInv
  <2>4. \A s \in Slots : get'[s] \in 1..live' \cup Blank BY <2>1, <2>2 DEF ViewInv
  <2>5. \A w \in Worlds : models'[w] \in 1..live' \cup Blank BY <2>1, <2>2 DEF ViewInv
  <2>6. get' \in [Slots -> 1..live' \cup Blank] /\ models' \in [Worlds -> 1..live' \cup Blank]
    BY <2>1, <2>4, <2>5 DEF ViewInv
  <2>7. \A s \in fresh' \cap Slots : get'[s] \in 1..live' => get'[s] >= shown'
    <3>1. \A s \in Slots : get[s] \in 1..live' => get[s] \in 1..live
      BY <2>1, <2>2, WorkspaceAssumption DEF ViewInv, Blank
    <3> QED BY <2>1, <3>1 DEF ViewInv
  <2>8. ViewInv' BY <2>1, <2>2, <2>3, <2>6, <2>7 DEF ViewInv
  <2> QED BY <1>t, <2>1, <2>8
<1>2. CASE SendFrame
  <2>1. live \in 1..live BY DEF ViewInv
  <2> QED BY <1>t, <1>2, <2>1 DEF SendFrame, ViewInv
<1>3. ASSUME NEW s \in Slots, Serve(s) PROVE Goal
  <2>1. /\ get' = [get EXCEPT ![s] = live] /\ live \in 1..live /\ shown <= live /\ live' = live /\ shown' = shown
        /\ models' = models /\ frame' = frame /\ fresh' = fresh /\ model' = model
    BY <1>3 DEF Serve, ViewInv
  <2>2. get' \in [Slots -> 1..live \cup Blank] BY <2>1 DEF ViewInv
  <2>3. \A q \in fresh \cap Slots : get'[q] \in 1..live => get'[q] >= shown BY <2>1 DEF ViewInv
  <2> QED BY <1>t, <2>1, <2>2, <2>3 DEF ViewInv
<1>4. ASSUME NEW w \in Worlds, ServeModel(w) PROVE Goal
  <2>1. live \in 1..live BY DEF ViewInv
  <2>2. models' \in [Worlds -> 1..live \cup Blank] BY <1>4, <2>1 DEF ServeModel, ViewInv
  <2> QED BY <1>t, <1>4, <2>2 DEF ServeModel, ViewInv
<1>5. CASE Frame
  <2>1. frame \in 1..live BY <1>5, WorkspaceAssumption DEF Frame, ViewInv, Worlds, Blank
  <2>2. frame' = None /\ frame' # frame /\ shown' = frame /\ live' = live /\ Accept(frame, 0) /\ get' = get
    BY <1>5, WorkspaceAssumption DEF Frame, Accept, Worlds
  <2>3. frame' \in 1..live \cup Blank /\ get' \in [Slots -> 1..live \cup Blank] BY <2>2 DEF Blank, ViewInv
  <2>4. ViewInv' BY <2>1, <2>2, <2>3, AcceptKeeps
  <2> QED BY <2>1, <2>2, <2>4
<1>6. ASSUME NEW w \in Worlds, TakeModel(w) PROVE Goal
  <2>1. models' \in [Worlds -> 1..live \cup Blank] BY <1>6 DEF TakeModel, ViewInv, Blank
  <2>2. model' \in {0, shown} BY <1>6 DEF TakeModel, ModelFor, ViewInv
  <2> QED BY <1>t, <1>6, <2>1, <2>2 DEF TakeModel, ViewInv
<1>7. CASE Refresh \/ Watch
  <2>1. PICK requests \in {OfRefresh, {"watch"}} :
          /\ Begin(requests) /\ fresh' \subseteq fresh \cup requests
          /\ live' = live /\ shown' = shown /\ models' = models /\ frame' = frame /\ model' = model
    BY <1>7 DEF Refresh, Watch, OfRefresh
  <2>2. get' \in [Slots -> 1..live \cup Blank] BY <2>1, Requests
  <2>3. \A s \in fresh' \cap Slots : get'[s] \in 1..live => get'[s] >= shown
    <3> SUFFICES ASSUME NEW s \in fresh' \cap Slots, get'[s] \in 1..live PROVE get'[s] >= shown OBVIOUS
    <3>1. s \notin requests BY <2>1, BlankIsNoWorld DEF Begin, Blank
    <3>2. s \in fresh /\ get'[s] = get[s] BY <2>1, <3>1 DEF Begin
    <3> QED BY <3>2 DEF ViewInv
  <2> QED BY <1>t, <2>1, <2>2, <2>3 DEF ViewInv
<1>8. CASE Refreshed
  <2> DEFINE offered == IF Told("model") THEN get["model"] ELSE 0
  <2>1. Finish(OfRefresh) /\ frame' = frame /\ live' = live BY <1>8 DEF Refreshed
  <2>2. /\ get' \in [Slots -> 1..live \cup Blank]
        /\ \A s \in Slots : get'[s] = get[s] \/ get'[s] = Idle
    BY <2>1, Requests
  <2>3. CASE Current("state") /\ Accept(get["state"], offered)
    <3>1. "state" \in Slots BY DEF Slots
    <3>2. get["state"] \in 1..live /\ get["state"] >= shown
      BY <2>3, <3>1, ToldLive DEF Current, ViewInv
    <3>3. frame' \in 1..live \cup Blank BY <2>1 DEF ViewInv
    <3>4. ViewInv' BY <2>1, <2>2, <2>3, <3>2, <3>3, AcceptKeeps
    <3>5. shown' = get["state"] BY <2>3 DEF Accept
    <3> QED BY <2>1, <3>2, <3>4, <3>5
  <2>4. CASE ~Current("state") /\ model' = ModelFor(shown, offered, model)
             /\ fresh' = fresh \ {"state"} /\ shown' = shown /\ models' = models
    <3>1. model' \in {0, shown} BY <2>4 DEF ModelFor, ViewInv
    <3>2. ViewInv'
      <4>1. Idle \notin 1..live BY BlankIsNoWorld DEF Blank
      <4> QED BY <2>1, <2>2, <2>4, <3>1, <4>1, PassedOver
    <3> QED BY <1>t, <2>1, <2>4, <3>2
  <2> QED BY <1>8, <2>3, <2>4 DEF Refreshed
<1>9. CASE Watched
  <2>1. Finish({"watch"}) /\ frame' = frame /\ live' = live BY <1>9 DEF Watched
  <2>2. /\ get' \in [Slots -> 1..live \cup Blank]
        /\ \A s \in Slots : get'[s] = get[s] \/ get'[s] = Idle
    BY <2>1, Requests
  <2>3. CASE Current("watch") /\ Accept(get["watch"], 0)
    <3>1. "watch" \in Slots BY DEF Slots
    <3>2. get["watch"] \in 1..live /\ get["watch"] >= shown
      BY <2>3, <3>1, ToldLive DEF Current, ViewInv
    <3>3. frame' \in 1..live \cup Blank BY <2>1 DEF ViewInv
    <3>4. ViewInv' BY <2>1, <2>2, <2>3, <3>2, <3>3, AcceptKeeps
    <3>5. shown' = get["watch"] BY <2>3 DEF Accept
    <3> QED BY <2>1, <3>2, <3>4, <3>5
  <2>4. CASE ~Current("watch") /\ fresh' = fresh \ {"watch"} /\ shown' = shown /\ model' = model /\ models' = models
    <3>1. ViewInv'
      <4>1. Idle \notin 1..live BY BlankIsNoWorld DEF Blank
      <4>2. model' \in {0, shown} BY <2>4 DEF ViewInv
      <4> QED BY <2>1, <2>2, <2>4, <4>1, <4>2, PassedOver
    <3> QED BY <1>t, <2>1, <2>4, <3>1
  <2> QED BY <1>9, <2>3, <2>4 DEF Watched
<1>10. CASE Fault \/ Connect
  <2>1. live' = live /\ shown' = shown /\ fresh' = fresh /\ model' = model BY <1>10 DEF Fault, Connect
  <2>2. frame' \in {frame, None, Failed} BY <1>10 DEF Fault, Connect
  <2>3. get' = get \/ \E s \in Slots : get' = [get EXCEPT ![s] = Failed] BY <1>10 DEF Fault, Connect
  <2>4. models' = models \/ \E w \in Worlds : models' = [models EXCEPT ![w] = Failed] BY <1>10 DEF Fault, Connect
  <2>5. get' \in [Slots -> 1..live \cup Blank] /\ models' \in [Worlds -> 1..live \cup Blank]
    BY <2>3, <2>4 DEF ViewInv, Blank
  <2>6. \A s \in Slots : get'[s] = get[s] \/ get'[s] = Failed BY <2>3 DEF ViewInv
  <2>7. Failed \notin 1..live BY BlankIsNoWorld DEF Blank
  <2> QED BY <1>t, <2>1, <2>2, <2>5, <2>6, <2>7 DEF ViewInv, Blank
<1>11. CASE UNCHANGED vars BY <1>t, <1>11 DEF vars, ViewInv
<1> QED BY <1>1, <1>2, <1>3, <1>4, <1>5, <1>6, <1>7, <1>8, <1>9, <1>10, <1>11 DEF Next

\* Of every run of the page.
LEMMA ViewInvariant == Spec => []ViewInv
BY ViewStarts, ViewStep, PTL DEF Spec

\* The model on display is that of the world on display, for any number of worlds
\* and failures (useWorkspace.ts:36-57).
THEOREM ModelBelongs == Spec => []ModelOfShown
<1>1. ViewInv => ModelOfShown BY DEF ViewInv, ModelOfShown
<1> QED BY <1>1, ViewInvariant, PTL

\* The answer to a request never sets the display back (useWorkspace.ts:65, 111).
THEOREM AnswersGoForward == Spec => AnswersNeverSetBack
<1>1. ViewInv /\ [Next]_vars => [frame' = frame => shown' >= shown]_vars BY ViewStep
<1> QED BY <1>1, ViewInvariant, PTL DEF Spec, AnswersNeverSetBack

\* The page implements LiveView: it shows worlds that are or were live.
THEOREM PageShowsLive == Spec => ShowsLiveWorlds
<1>1. Init => View!ViewInit BY DEF Init, View!ViewInit
<1>2. ViewInv /\ [Next]_vars => [View!Replace \/ View!Show]_View!viewVars
  BY ViewStep DEF View!Replace, View!Show, View!viewVars
<1> QED BY <1>1, <1>2, ViewInvariant, PTL DEF Spec, ShowsLiveWorlds, View!ViewSpec
=============================================================================
