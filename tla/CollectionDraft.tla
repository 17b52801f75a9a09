--------------------------- MODULE CollectionDraft ---------------------------
(***************************************************************************)
(* What several people editing one collection may rely on, with no client, *)
(* copy or request in sight: a save is one edit of the draft as it is at   *)
(* that moment and the revision counts the saves; reviews are only added;  *)
(* a version freezes the draft with every review of its episodes.          *)
(***************************************************************************)
EXTENDS Naturals, Sequences

CONSTANTS Episodes, Spans

VARIABLES members, exclusions, revision, reviews, versions

draft == <<members, exclusions, revision, reviews, versions>>

Members == [episode : Episodes, span : Spans]

Init ==
  /\ members = {} /\ exclusions = {} /\ revision = 1
  /\ reviews = <<>> /\ versions = <<>>

Edit(ms, xs) ==
  /\ members' = ms /\ exclusions' = xs
  /\ revision' = revision + 1
  /\ UNCHANGED <<reviews, versions>>

Rename == Edit(members, exclusions)
Add(m) == m.episode \notin exclusions /\ Edit(members \cup {m}, exclusions)
Remove(m) == m \in members /\ Edit(members \ {m}, exclusions)
Exclude(e) == Edit({m \in members : m.episode # e}, exclusions \cup {e})
Readmit(e) == e \in exclusions /\ Edit(members, exclusions \ {e})

Review(r) ==
  /\ reviews' = Append(reviews, r)
  /\ UNCHANGED <<members, exclusions, revision, versions>>

Selected == {m.episode : m \in members}
Freeze ==
  /\ members # {}
  /\ versions' = Append(versions,
       [members |-> members, exclusions |-> exclusions, revision |-> revision,
        reviews |-> {i \in DOMAIN reviews : reviews[i].episode \in Selected}])
  /\ UNCHANGED <<members, exclusions, revision, reviews>>

Next ==
  \/ Rename \/ Freeze
  \/ \E m \in Members : Add(m) \/ Remove(m)
  \/ \E e \in Episodes : Exclude(e) \/ Readmit(e)
  \/ \E e \in Episodes, s \in Spans, i \in 0..Len(reviews) :
       Review([episode |-> e, span |-> s, supersedes |-> i])

Spec == Init /\ [][Next]_draft
=============================================================================
