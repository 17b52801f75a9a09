CONSTANTS
  c1 = c1
  c2 = c2
  e1 = e1
  e2 = e2
  whole = whole
  part = part
  NoView = NoView
  Clients <- TwoClients
  Episodes <- TwoEpisodes
  Spans <- OneSpan
  Family <- OwnFamily
  MaxRevision = 3
  MaxReviews = 2
  MaxVersions = 1
  MaxPending = 2
SPECIFICATION Spec
SYMMETRY Symmetry
INVARIANTS RevisionIdentifiesDraft OneCurrentReview IndexKnowsReviews
PROPERTIES FrozenAsSeen KeepsEdits
CHECK_DEADLOCK FALSE
