------------------------------ MODULE LiveView -------------------------------
(***************************************************************************)
(* What the rest of the dashboard may rely on: the world on display is one *)
(* that is or was live.  A world is an epoch and its episode, numbered as  *)
(* they appear.                                                            *)
(***************************************************************************)
EXTENDS Integers

CONSTANT MaxWorlds   \* bound: worlds that become live

VARIABLES live,      \* the world that is live
          shown      \* the world of the snapshot on display, 0 before the first

viewVars == <<live, shown>>

ViewInit == live = 1 /\ shown = 0

Replace == live < MaxWorlds /\ live' = live + 1 /\ UNCHANGED shown

Show == \E w \in 1..live : shown' = w /\ UNCHANGED live

ViewSpec == ViewInit /\ [][Replace \/ Show]_viewVars
=============================================================================
