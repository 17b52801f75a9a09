---------------------------- MODULE MCWorkbench ----------------------------
EXTENDS Workbench, TLC

CONSTANTS h1, h2, o, s1, s2

TwoHandlers == {h1, h2}
AllClients == {h1, h2, Operator}
OneFloor == {1}
TwoSeeds == {0, 1}
OneObstacle == {o}
TwoSources == {s1, s2}
AllScenes == GatewayScenes
InitialScene == Bare(DefaultFloor)

\* What the operator does beside the jobs: replace the scene, invalidate it,
\* or take an evaluation slot.
Meddling ==
  {[op |-> "reset", scene |-> InitialScene, epoch |-> 0, episode |-> 0],
   [op |-> "invalidate"],
   [op |-> "evaluate", scene |-> Same, checkpoint |-> NoHandle]}
NoMeddling == {}

Symmetric == Permutations(TwoHandlers)
=============================================================================
