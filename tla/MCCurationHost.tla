--------------------------- MODULE MCCurationHost ---------------------------
EXTENDS CurationHost, TLC

CONSTANTS a1, a2

TwoApis == {a1, a2}
=============================================================================
