----------------------------- MODULE MCDashboard -----------------------------
EXTENDS Dashboard
=============================================================================
