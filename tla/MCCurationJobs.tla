--------------------------- MODULE MCCurationJobs ---------------------------
(* Model-checking instances of CurationJobs.                               *)
EXTENDS CurationJobs, TLC

CONSTANTS s1, s2, v1, v2

TwoSources == {s1, s2}
OneSource == {s1}
OneVersion == {v1}
TwoVersions == {v1, v2}

\* Sources are interchangeable, and so are contents.
Symmetry == Permutations(Sources) \cup Permutations(Versions)
=============================================================================
