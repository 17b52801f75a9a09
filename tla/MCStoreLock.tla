---------------------------- MODULE MCStoreLock ----------------------------
\* Processes are started once each; those that are over do nothing more.
EXTENDS StoreLock, TLC

CONSTANTS a1, a2, a3

ThreeApis == {a1, a2, a3}
=============================================================================
