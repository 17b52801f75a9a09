------------------------- MODULE CameraSession_proofs -------------------------
(***************************************************************************)
(* Proofs about the camera pairing, for any number of pages, lost          *)
(* connections and late closes.  The argument: a socket is open at the     *)
(* gateway only from its upgrade, which gives it the place of its role, to *)
(* the step in which another takes the place, the session expires or it    *)
(* closes itself; and a place is cleared only for the socket that has it.  *)
(***************************************************************************)
EXTENDS CameraSession, TLAPS

-----------------------------------------------------------------------------

\* The gateway's part of the state is of its types.
GatewayTypes ==
  /\ session \in [Roles -> Sockets \cup {None}]
  /\ server \in [Sockets -> {"gone", "open", "closing"}]

\* The inductive invariant.
Places == GatewayTypes /\ ReplacementStays

\* The places are those of the roles, and free at first.
LEMMA RolesOfSockets == \A s \in Sockets : Role(s) \in Roles
BY DEF Role, RoleOf, Roles

LEMMA InitPlaces == Init => Places
BY DEF Init, Places, GatewayTypes, ReplacementStays

\* Only four steps change the gateway's sockets or places.
LEMMA PlacesStep ==
  ASSUME Places, [Next]_vars
  PROVE  Places'
<1> USE RolesOfSockets
<1>0. GatewayTypes /\ ReplacementStays
  BY DEF Places
<1>1. ASSUME UNCHANGED serverVars PROVE Places'
  BY <1>0, <1>1 DEF serverVars, Places, GatewayTypes, ReplacementStays
<1>2. ASSUME NEW s \in Sockets, Upgrade(s) PROVE Places'
  <2> DEFINE old == session[Role(s)]
  <2>1. /\ session' = [session EXCEPT ![Role(s)] = s]
        /\ server' = [t \in Sockets |-> IF t = s THEN "open" ELSE IF t = old /\ server[t] = "open" THEN "closing" ELSE server[t]]
    BY <1>2 DEF Upgrade
  <2>2. GatewayTypes'
    BY <1>0, <2>1 DEF GatewayTypes
  <2>3. ASSUME NEW t \in Sockets, server'[t] = "open" PROVE session'[Role(t)] = t
    <3>1. CASE t = s
      BY <1>0, <2>1, <3>1 DEF GatewayTypes
    <3>2. CASE t # s
      <4>1. server[t] = "open" /\ t # old
        BY <2>1, <2>3, <3>2
      <4>2. session[Role(t)] = t
        BY <1>0, <4>1 DEF ReplacementStays
      <4>3. Role(t) # Role(s)
        BY <4>1, <4>2
      <4> QED
        BY <1>0, <2>1, <4>2, <4>3 DEF GatewayTypes
    <3> QED
      BY <3>1, <3>2
  <2> QED
    BY <2>2, <2>3 DEF Places, ReplacementStays
<1>3. ASSUME NEW s \in Sockets, ServerClosed(s) PROVE Places'
  <2>1. /\ server' = [server EXCEPT ![s] = "gone"]
        /\ \/ Holds(s) /\ session' = [session EXCEPT ![Role(s)] = None]
           \/ UNCHANGED session
    BY <1>3 DEF ServerClosed
  <2>2. GatewayTypes'
    BY <1>0, <2>1 DEF GatewayTypes
  <2>3. ASSUME NEW t \in Sockets, server'[t] = "open" PROVE session'[Role(t)] = t
    <3>1. t # s /\ server[t] = "open" /\ session[Role(t)] = t
      BY <1>0, <2>1, <2>3 DEF GatewayTypes, ReplacementStays
    <3>2. Holds(s) => Role(t) # Role(s)
      BY <3>1 DEF Holds
    <3> QED
      BY <1>0, <2>1, <3>1, <3>2 DEF GatewayTypes
  <2> QED
    BY <2>2, <2>3 DEF Places, ReplacementStays
<1>4. ASSUME Expire PROVE Places'
  <2>1. /\ server' = [s \in Sockets |-> IF s \in {session[r] : r \in Roles} /\ server[s] = "open" THEN "closing" ELSE server[s]]
        /\ UNCHANGED session
    BY <1>4 DEF Expire
  <2>2. \A t \in Sockets : server'[t] = "open" => server[t] = "open"
    BY <2>1
  <2> QED
    BY <1>0, <2>1, <2>2 DEF Places, GatewayTypes, ReplacementStays
<1>5. ASSUME NEW s \in Sockets, Reject(s) \/ Relay(s) \/ PageStep(s) \/ Drop(s) PROVE UNCHANGED serverVars
  BY <1>5 DEF Reject, Relay, PageStep, Connect, Message, Ignored, ClientClosed, MediaFailed, Drop
<1>6. ASSUME NEW p \in Pages, Open(p) \/ \E notify \in BOOLEAN : Stop(p, notify) PROVE UNCHANGED serverVars
  BY <1>6 DEF Open, Stop
<1>7. UNCHANGED vars => UNCHANGED serverVars
  BY DEF vars
<1> QED
  BY <1>1, <1>2, <1>3, <1>4, <1>5, <1>6, <1>7 DEF Next, GatewayStep

\* However late the close of a replaced socket is handled, its successor keeps
\* the place: a socket that is open at the gateway is the one its peer's signals
\* are relayed to (gateway/camera.ts:83, 95).
THEOREM ReplacementsStay == Spec => []ReplacementStays
<1>1. Places /\ [Next]_vars => Places'
  BY PlacesStep
<1>2. Places => ReplacementStays
  BY DEF Places
<1> QED
  BY InitPlaces, <1>1, <1>2, PTL DEF Spec
=============================================================================
