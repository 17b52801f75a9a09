-------------------------- MODULE MCCurationSystem --------------------------
(* Model-checking instances of CurationSystem.                             *)
EXTENDS CurationSystem, TLC

CONSTANTS s1, v1, v2

OneSource == {s1}
OneVersion == {v1}
TwoVersions == {v1, v2}

\* Contents are interchangeable.
Symmetry == Permutations(Versions)
=============================================================================
