----------------------------- MODULE MCWorkspace -----------------------------
EXTENDS Workspace
=============================================================================
