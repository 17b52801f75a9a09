---------------------------- MODULE CameraSession ----------------------------
(***************************************************************************)
(* One camera pairing: the signalling of gateway/camera.ts between the     *)
(* pages of web/src/camera/peer.ts.  The session has a place for a phone   *)
(* and one for a viewer; a page that connects takes the place of whoever   *)
(* holds it.  Sockets are queues in both directions that end with a close, *)
(* and either end may close first.  The phone offers its video, the viewer *)
(* answers, and media flows between the two peer connections when each has *)
(* the other's description.                                                *)
(***************************************************************************)
EXTENDS Integers, Sequences

CONSTANTS
  None,         \* no value
  Phones, Viewers,   \* the pages that hold the pairing link
  MaxEvents          \* bound: pages opened or stopped by their users, connections lost

VARIABLES
  session,    \* the socket in each role's place, or None
  expired,    \* the session has expired
  server,     \* each socket at the gateway: "gone", "open" or "closing"
  client,     \* and in the page: "gone", "connecting", "open" or "closing"
  up, down,   \* what is on its way to the gateway, and to the page
  pc,         \* the peer connection of each socket
  page,       \* "off", "opening", "waiting" to retry, "on" a socket, or "halted"
  events

serverVars == <<session, expired, server>>
vars == <<serverVars, client, up, down, pc, page, events>>

Pages == Phones \cup Viewers
Roles == {"phone", "viewer"}
RoleOf(p) == IF p \in Phones THEN "phone" ELSE "viewer"

\* A page has one connection at a time; the gateway may still know the one before.
Sockets == Pages \X {0, 1}
Role(s) == RoleOf(s[1])
Other(s) == session[IF Role(s) = "phone" THEN "viewer" ELSE "phone"]

\* A close carries its code; the signals that answer or follow an offer carry it.
Close(code) == [type |-> "close", code |-> code]
Signal(type) == [type |-> type]
Offer(s, n) == [type |-> "offer", from |-> s, n |-> n]
Answer(o, s) == [type |-> "answer", offer |-> o, from |-> s]

NoMedia == [sent |-> None, peer |-> None]

Init ==
  /\ session = [r \in Roles |-> None] /\ expired = FALSE
  /\ server = [s \in Sockets |-> "gone"] /\ client = [s \in Sockets |-> "gone"]
  /\ up = [s \in Sockets |-> <<>>] /\ down = [s \in Sockets |-> <<>>]
  /\ pc = [s \in Sockets |-> NoMedia]
  /\ page = [p \in Pages |-> [state |-> "off", at |-> None]]
  /\ events = 0

-----------------------------------------------------------------------------
(* The gateway.                                                            *)

\* send(): only to a socket that is open; it arrives if there is still a page.
Send(queues, s, m) ==
  IF s # None /\ server[s] = "open" /\ client[s] # "gone" THEN [queues EXCEPT ![s] = Append(@, m)] ELSE queues

\* The upgrade of a request with a valid token: whoever held the place is closed,
\* both sides learn of each other.
Upgrade(s) ==
  /\ client[s] = "connecting" /\ ~expired
  /\ LET old == session[Role(s)] IN
     /\ session' = [session EXCEPT ![Role(s)] = s]
     /\ server' = [t \in Sockets |-> IF t = s THEN "open" ELSE IF t = old /\ server[t] = "open" THEN "closing" ELSE server[t]]
     /\ down' = [Send(Send(down, old, Close("replaced")), Other(s), Signal("peer-connected"))
                   EXCEPT ![s] = <<Signal(IF Other(s) = None THEN "ready" ELSE "ready-peer")>>]
  /\ client' = [client EXCEPT ![s] = "open"]
  /\ UNCHANGED <<expired, up, pc, page, events>>

\* An expired session refuses it.
Reject(s) ==
  /\ client[s] = "connecting" /\ expired
  /\ client' = [client EXCEPT ![s] = "gone"]
  /\ page' = [page EXCEPT ![s[1]] = [state |-> "waiting", at |-> None]]
  /\ UNCHANGED <<serverVars, up, down, pc, events>>

\* A signal is relayed to whoever has the other place by now.
Relay(s) ==
  /\ server[s] # "gone" /\ up[s] # <<>> /\ Head(up[s]).type # "close"
  /\ up' = [up EXCEPT ![s] = Tail(@)]
  /\ down' = Send(down, Other(s), Head(up[s]))
  /\ UNCHANGED <<serverVars, client, pc, page, events>>

\* Mutant of Holds: the place is cleared whoever has it now.
HoldsAlways(s) == TRUE

\* The place is still that of the socket that closes.
Holds(s) == session[Role(s)] = s

\* The socket's close: its place becomes free, and the peer is told.
ServerClosed(s) ==
  /\ server[s] # "gone" /\ up[s] # <<>> /\ Head(up[s]).type = "close"
  /\ up' = [up EXCEPT ![s] = <<>>]
  /\ server' = [server EXCEPT ![s] = "gone"]
  /\ LET echoed == Send(down, s, Head(up[s])) IN
     \/ /\ Holds(s)
        /\ session' = [session EXCEPT ![Role(s)] = None]
        /\ down' = Send(echoed, Other(s), Signal("peer-disconnected"))
     \/ ~Holds(s) /\ down' = echoed /\ UNCHANGED session
  /\ UNCHANGED <<expired, client, pc, page, events>>

\* The timer removes the session and closes both of its sockets.
Expire ==
  /\ ~expired /\ expired' = TRUE
  /\ server' = [s \in Sockets |-> IF s \in {session[r] : r \in Roles} /\ server[s] = "open" THEN "closing" ELSE server[s]]
  /\ down' = Send(Send(down, session["phone"], Close("expired")), session["viewer"], Close("expired"))
  /\ UNCHANGED <<session, client, up, pc, page, events>>

-----------------------------------------------------------------------------
(* The pages.                                                              *)

\* The user starts the camera, or opens or reconnects the view.
Open(p) ==
  /\ events < MaxEvents /\ events' = events + 1
  /\ page[p].state \in {"off", "halted"}
  /\ page' = [page EXCEPT ![p] = [state |-> "opening", at |-> None]]
  /\ UNCHANGED <<serverVars, client, up, down, pc>>

Free(s) == client[s] = "gone" /\ server[s] = "gone"

\* Assumed of the network: the 1.5 seconds before a retry, and the time media
\* takes to fail, are longer than a signal is on its way.  How long the gateway
\* takes to notice that a connection was lost is not assumed.
Delivered ==
  \A s \in Sockets : client[s] # "connecting" /\ down[s] = <<>> /\ up[s] \in {<<>>, <<Close("lost")>>}

\* connect(): a new socket and a new peer connection.
Connect(s) ==
  /\ page[s[1]].state = "opening" \/ (page[s[1]].state = "waiting" /\ Delivered)
  /\ Free(s) /\ (s[2] = 1 => ~Free(<<s[1], 0>>))
  /\ page' = [page EXCEPT ![s[1]] = [state |-> "on", at |-> s]]
  /\ client' = [client EXCEPT ![s] = "connecting"]
  /\ UNCHANGED <<serverVars, up, down, pc, events>>

\* What the page sends, and then perhaps a close of its own.
Says(s, messages) == up' = [up EXCEPT ![s] = @ \o messages]

ClosesItself(s, messages) ==
  /\ Says(s, Append(messages, Close("own")))
  /\ client' = [client EXCEPT ![s] = "closing"]
  /\ pc' = [pc EXCEPT ![s] = NoMedia]

\* stop(), by the user; the view is also left without telling the phone.  A phone
\* whose connection is still being opened has nothing to stop: it goes on.
Stop(p, notify) ==
  /\ events < MaxEvents /\ events' = events + 1
  /\ page[p].state # "off" /\ (page[p].state = "opening" => p \in Viewers)
  /\ notify \/ p \in Viewers
  /\ page' = [page EXCEPT ![p] = [state |-> "off", at |-> None]]
  /\ LET s == page[p].at IN
     IF s # None /\ client[s] = "open"
     THEN ClosesItself(s, IF notify THEN <<Signal("stop")>> ELSE <<>>)
     ELSE /\ client' = IF s # None /\ client[s] = "connecting" THEN [client EXCEPT ![s] = "gone"] ELSE client
          /\ UNCHANGED <<up, pc>>
  /\ UNCHANGED <<serverVars, down>>

\* offer(): the phone's, after a rollback if one is without its answer.
MakesOffer(s) ==
  LET n == IF pc[s].sent = 0 THEN 1 ELSE 0 IN
  /\ pc' = [pc EXCEPT ![s] = [sent |-> n, peer |-> None]]
  /\ Says(s, <<Offer(s, n)>>)

\* Mutant of Offers: it offers only when it is the one that connects.
OffersOnce(s, type) == Role(s) = "phone" /\ type = "ready-peer"

Offers(s, type) == Role(s) = "phone" /\ type \in {"ready-peer", "peer-connected"}

\* onmessage(), of a socket that is open.
Message(s) ==
  /\ client[s] = "open" /\ down[s] # <<>> /\ Head(down[s]).type # "close"
  /\ down' = [down EXCEPT ![s] = Tail(@)]
  /\ LET m == Head(down[s]) IN
     \/ /\ Offers(s, m.type)
        /\ MakesOffer(s) /\ UNCHANGED <<client, page>>
     \/ /\ m.type = "offer" /\ Role(s) = "viewer"
        /\ pc' = [pc EXCEPT ![s].peer = m]
        /\ Says(s, <<Answer(m, s)>>) /\ UNCHANGED <<client, page>>
     \/ /\ m.type = "answer" /\ pc[s].sent # None /\ pc[s].peer = None
        /\ pc' = [pc EXCEPT ![s].peer = m] /\ UNCHANGED <<client, page, up>>
     \/ /\ m.type = "peer-disconnected" /\ Role(s) = "viewer"
        /\ ClosesItself(s, <<>>) /\ UNCHANGED page
     \/ /\ m.type = "stop"
        /\ ClosesItself(s, <<>>)
        /\ page' = [page EXCEPT ![s[1]] = [state |-> "halted", at |-> None]]
     \/ /\ \/ m.type \in {"ready", "ready-peer", "peer-connected"} /\ ~Offers(s, m.type)
           \/ m.type = "peer-disconnected" /\ Role(s) = "phone"
           \/ m.type = "answer" /\ ~(pc[s].sent # None /\ pc[s].peer = None)
        /\ UNCHANGED <<client, page, up, pc>>
  /\ UNCHANGED <<serverVars, events>>

\* A socket that closes takes no more messages.
Ignored(s) ==
  /\ client[s] = "closing" /\ down[s] # <<>> /\ Head(down[s]).type # "close"
  /\ down' = [down EXCEPT ![s] = Tail(@)]
  /\ UNCHANGED <<serverVars, client, up, pc, page, events>>

Retries(code) == code \notin {"replaced", "expired"}

\* onclose(): the page connects again, unless it was replaced or the session is
\* over, or it has nothing to do with this socket any more.
After(s, code) ==
  IF page[s[1]].at = s
  THEN [page EXCEPT ![s[1]] = [state |-> IF Retries(code) THEN "waiting" ELSE "halted", at |-> None]]
  ELSE page

ClientClosed(s) ==
  /\ down[s] # <<>> /\ Head(down[s]).type = "close"
  /\ down' = [down EXCEPT ![s] = <<>>]
  /\ client' = [client EXCEPT ![s] = "gone"]
  /\ up' = IF client[s] = "open" THEN [up EXCEPT ![s] = Append(@, Close("own"))] ELSE up
  /\ pc' = [pc EXCEPT ![s] = NoMedia]
  /\ page' = After(s, Head(down[s]).code)
  /\ UNCHANGED <<serverVars, events>>

\* The network loses a connection: what was on its way is gone, and the gateway
\* notices in its own time.
Drop(s) ==
  /\ events < MaxEvents /\ events' = events + 1
  /\ client[s] \in {"open", "closing"} /\ server[s] # "gone"
  /\ client' = [client EXCEPT ![s] = "gone"]
  /\ up' = [up EXCEPT ![s] = <<Close("lost")>>] /\ down' = [down EXCEPT ![s] = <<>>]
  /\ pc' = [pc EXCEPT ![s] = NoMedia]
  /\ page' = After(s, "lost")
  /\ UNCHANGED serverVars

\* Media flows between two peer connections whose descriptions belong together.
Live(s, t) ==
  /\ pc[s].peer # None /\ pc[s].peer.type = "answer" /\ pc[s].peer.from = t
  /\ pc[s].peer.offer = Offer(s, pc[s].sent) /\ pc[t].peer = Offer(s, pc[s].sent)

\* onconnectionstatechange(): media that does not flow is given up and connected
\* anew.
MediaFailed(s) ==
  /\ client[s] = "open" /\ Delivered
  /\ pc[s].peer # None /\ ~\E t \in Sockets : Live(s, t) \/ Live(t, s)
  /\ ClosesItself(s, <<>>)
  /\ UNCHANGED <<serverVars, down, page, events>>

GatewayStep(s) == Upgrade(s) \/ Reject(s) \/ Relay(s) \/ ServerClosed(s)
PageStep(s) == Connect(s) \/ Message(s) \/ Ignored(s) \/ ClientClosed(s) \/ MediaFailed(s)

Next ==
  \/ Expire \/ \E p \in Pages : Open(p) \/ (\E notify \in BOOLEAN : Stop(p, notify))
  \/ \E s \in Sockets : GatewayStep(s) \/ PageStep(s) \/ Drop(s)

\* Gateway and pages go on with what they have; a page that waits connects after
\* a while.  Nobody has to open or stop anything.
Fairness ==
  /\ \A s \in Sockets : WF_vars(GatewayStep(s)) /\ WF_vars(PageStep(s))

Spec == Init /\ [][Next]_vars
FairSpec == Spec /\ Fairness

-----------------------------------------------------------------------------

Runs(pages) == \E p \in pages : page[p].state \in {"opening", "waiting", "on"}

\* The late close of a socket that was replaced does not take the place from its
\* successor: a socket the gateway holds open is the one in its place.
ReplacementStays == \A s \in Sockets : server[s] = "open" => session[Role(s)] = s

\* A phone and a viewer that stay end up connected, whatever was lost, replaced or
\* answered too late before; two viewers do not drive each other out for ever.
PairConnects ==
  <>[](\/ expired \/ ~Runs(Phones) \/ ~Runs(Viewers)
       \/ \E s, t \in Sockets : Live(s, t) /\ session = [phone |-> s, viewer |-> t])
=============================================================================
