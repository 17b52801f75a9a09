----------------------- MODULE MCCurationCollections -----------------------
\* Two tabs and two episodes of one source family, one of which can also be
\* selected in part.
EXTENDS CurationCollections, TLC

CONSTANTS c1, c2, e1, e2, whole, part

TwoClients == {c1, c2}
TwoEpisodes == {e1, e2}
OneSpan == {whole}
TwoSpans == {whole, part}
OneEpisode == {e1}
OneFamily(e) == whole
OwnFamily(e) == e
Symmetry == Permutations(TwoClients) \cup Permutations(TwoEpisodes)
=============================================================================
