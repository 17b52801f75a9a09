---------------------------- MODULE MCGatewayDisk ----------------------------
EXTENDS GatewayDisk, TLC

CONSTANTS r1, l1, l2, t1

MCRepairs == {r1}
MCCalls == {r1, l1, l2}
Symmetry == Permutations({l1, l2})
MCWrites == {t1, Opening(r1), Closing(r1)}
MCCosts == {0, 1}

\* The start of a repair carries the whole failure: it is the largest record.
MCSize(w) == IF w = Opening(r1) THEN 2 ELSE 1
=============================================================================
