--------------------- MODULE CurationCollections_proofs ---------------------
(***************************************************************************)
(* Proofs about collections: no edit is lost, versions are what their      *)
(* authors saw, reviews form chains and search entries know them, for any  *)
(* number of clients, episodes, reviews and requests on their way.         *)
(***************************************************************************)
EXTENDS CurationCollections, TLAPS

\* What a save may ask for, seen from the copy it was composed from.
EditOf(b, ms, xs) ==
  \/ ms = b.members /\ xs = b.exclusions
  \/ \E m \in Members : m.episode \notin b.exclusions /\ ms = b.members \cup {m} /\ xs = b.exclusions
  \/ \E m \in b.members : ms = b.members \ {m} /\ xs = b.exclusions
  \/ \E e \in Episodes : ms = {m \in b.members : m.episode # e} /\ xs = b.exclusions \cup {e}
  \/ \E e \in b.exclusions : ms = b.members /\ xs = b.exclusions \ {e}

RequestsAreEdits ==
  \A r \in pending : r.op = "save" => EditOf(r.base, r.members, r.exclusions)

\* The current review of an episode and span is the latest one.
Same(e, s) == {k \in DOMAIN reviews : reviews[k].episode = e /\ reviews[k].span = s}
Unsuperseded(e, s) == {k \in Same(e, s) : \A n \in DOMAIN reviews : reviews[n].supersedes # k}
LatestIsCurrent ==
  /\ \A i \in DOMAIN reviews : reviews[i].supersedes < i
  /\ \A e \in Episodes, s \in Spans : Same(e, s) # {} =>
       \E k \in Same(e, s) : Unsuperseded(e, s) = {k} /\ \A n \in Same(e, s) : n <= k

CollectionInv ==
  /\ TypeOK /\ RevisionIdentifiesDraft /\ IndexKnowsReviews
  /\ RequestsAreEdits /\ LatestIsCurrent

-----------------------------------------------------------------------------
(* Lemmas about the API's operators.                                       *)

LEMMA CurrentIsCopy == ASSUME TypeOK PROVE Current \in Copies
  BY DEF TypeOK, Current, Copies, ReviewsOf, Selected

LEMMA LatestOf ==
  ASSUME NEW ids \in SUBSET Nat, NEW k \in ids, \A n \in ids : n <= k
  PROVE  Latest(ids) = k
<1>1. \A j \in ids : (\A n \in ids : n <= j) => j = k
  OBVIOUS
<1>2. Latest(ids) = CHOOSE i \in ids : \A n \in ids : n <= i
  BY DEF Latest
<1> QED BY <1>1, <1>2

\* The review a new one supersedes: none, or the latest of its kind.
LEMMA SupersedesLatest ==
  ASSUME TypeOK, LatestIsCurrent, NEW e \in Episodes, NEW s \in Spans
  PROVE  /\ Latest(Previous(e, s)) \in 0..Len(reviews)
         /\ Same(e, s) = {} => Latest(Previous(e, s)) = 0
         /\ \A k \in Same(e, s) : (\A n \in Same(e, s) : n <= k) => Latest(Previous(e, s)) = k
<1>1. Previous(e, s) = Same(e, s)
  BY DEF Previous, Same
<1>2. Same(e, s) \in SUBSET Nat /\ \A k \in Same(e, s) : k \in 0..Len(reviews)
  BY DEF TypeOK, Same
<1>3. CASE Same(e, s) = {}
  BY <1>1, <1>3 DEF Latest, TypeOK
<1>4. CASE Same(e, s) # {}
  <2>1. PICK k \in Same(e, s) : \A n \in Same(e, s) : n <= k
    BY <1>4 DEF LatestIsCurrent
  <2>2. Latest(Same(e, s)) = k
    BY <1>2, <2>1, LatestOf
  <2>3. \A j \in Same(e, s) : (\A n \in Same(e, s) : n <= j) => j = k
    BY <1>2, <2>1
  <2> QED BY <1>1, <1>2, <1>4, <2>2, <2>3
<1> QED BY <1>3, <1>4

-----------------------------------------------------------------------------
(* The parts of the invariant.                                             *)

LEMMA CollectionInitial == Init => CollectionInv
  BY DEF Init, CollectionInv, TypeOK, RevisionIdentifiesDraft, IndexKnowsReviews, ReviewsOf,
     RequestsAreEdits, LatestIsCurrent, Same

\* A client's edit is an edit of its copy.
LEMMA SendIsEdit ==
  ASSUME CollectionInv, NEW c \in Clients, EditDraft(c) \/ AskFreeze(c)
  PROVE  \E op \in {"save", "freeze"}, ms \in SUBSET Members, xs \in SUBSET Episodes :
           /\ view[c] \in Copies /\ view[c] # NoView /\ Send(c, op, ms, xs)
           /\ op = "save" => EditOf(view[c], ms, xs)
<1>1. view[c] \in Copies /\ view[c] # NoView
  BY DEF CollectionInv, TypeOK, EditDraft, AskFreeze
<1>2. CASE AskFreeze(c)
  BY <1>1, <1>2 DEF AskFreeze
<1>3. CASE EditDraft(c)
  <2> DEFINE ms == view[c].members  xs == view[c].exclusions
  <2>0. ms \in SUBSET Members /\ xs \in SUBSET Episodes
    BY <1>1 DEF Copies
  <2>1. CASE Send(c, "save", ms, xs)
    BY <1>1, <2>0, <2>1 DEF EditOf
  <2>2. CASE \E m \in Members \ ms : m.episode \in imported \ xs /\ Send(c, "save", ms \cup {m}, xs)
    BY <1>1, <2>0, <2>2 DEF EditOf
  <2>3. CASE \E m \in ms : Send(c, "save", ms \ {m}, xs)
    BY <1>1, <2>0, <2>3 DEF EditOf
  <2>4. CASE \E e \in Selected(ms) : Send(c, "save", {m \in ms : m.episode # e}, xs \cup {e})
    <3>1. PICK e \in Selected(ms) : Send(c, "save", {m \in ms : m.episode # e}, xs \cup {e})
      BY <2>4
    <3>2. e \in Episodes
      BY <2>0 DEF Selected, Members
    <3>3. EditOf(view[c], {m \in ms : m.episode # e}, xs \cup {e})
      BY <3>2 DEF EditOf
    <3>4. {m \in ms : m.episode # e} \in SUBSET Members /\ xs \cup {e} \in SUBSET Episodes
      BY <2>0, <3>2
    <3> QED BY <1>1, <3>1, <3>3, <3>4
  <2>5. CASE \E e \in xs : Send(c, "save", ms, xs \ {e})
    BY <1>1, <2>0, <2>5 DEF EditOf
  <2> QED BY <1>3, <2>1, <2>2, <2>3, <2>4, <2>5 DEF EditDraft
<1> QED BY <1>2, <1>3

LEMMA SendKeeps ==
  ASSUME CollectionInv, NEW c \in Clients, NEW op \in {"save", "freeze"},
         NEW ms \in SUBSET Members, NEW xs \in SUBSET Episodes,
         view[c] \in Copies, Send(c, op, ms, xs), view[c] # NoView,
         op = "save" => EditOf(view[c], ms, xs)
  PROVE  CollectionInv'
<1> DEFINE r == [op |-> op, client |-> c, base |-> view[c], members |-> ms, exclusions |-> xs]
<1>1. r \in Requests
  BY DEF Requests
<1>2. /\ pending' = pending \cup {r} /\ doing' = [doing EXCEPT ![c] = op]
      /\ UNCHANGED <<draftVars, recordVars, view>>
  BY DEF Send
<1> HIDE DEF r
<1>3. TypeOK'
  BY <1>1, <1>2 DEF CollectionInv, TypeOK, draftVars, recordVars
<1>4. RevisionIdentifiesDraft'
  <2>1. r.base = view[c]
    BY DEF r
  <2> QED BY <1>2, <2>1 DEF CollectionInv, RevisionIdentifiesDraft, IsCopy, draftVars
<1>5. RequestsAreEdits'
  <2>1. r.op = "save" => EditOf(r.base, r.members, r.exclusions)
    BY DEF r
  <2> QED BY <1>2, <2>1 DEF CollectionInv, RequestsAreEdits, EditOf
<1>6. (IndexKnowsReviews /\ LatestIsCurrent)'
  BY <1>2 DEF CollectionInv, IndexKnowsReviews, ReviewsOf, LatestIsCurrent, Same, Unsuperseded, recordVars
<1> QED BY <1>3, <1>4, <1>5, <1>6 DEF CollectionInv

LEMMA LoadKeeps ==
  ASSUME CollectionInv, NEW c \in Clients, Load(c)
  PROVE  CollectionInv'
<1>1. Current \in Copies
  BY CurrentIsCopy DEF CollectionInv
<1>2. TypeOK'
  BY <1>1 DEF CollectionInv, TypeOK, Load, draftVars, recordVars
<1>3. IsCopy(Current)
  BY DEF IsCopy, Current, CollectionInv, TypeOK
<1>4. RevisionIdentifiesDraft'
  BY <1>3 DEF CollectionInv, TypeOK, RevisionIdentifiesDraft, IsCopy, Load, draftVars
<1> QED BY <1>2, <1>4 DEF CollectionInv, IndexKnowsReviews, ReviewsOf, RequestsAreEdits, EditOf,
     LatestIsCurrent, Same, Unsuperseded, Load, recordVars

LEMMA AbandonKeeps ==
  ASSUME CollectionInv, NEW c \in Clients, Abandon(c)
  PROVE  CollectionInv'
<1>1. TypeOK'
  BY DEF CollectionInv, TypeOK, Abandon, draftVars, recordVars
<1>2. RevisionIdentifiesDraft'
  BY DEF CollectionInv, TypeOK, RevisionIdentifiesDraft, IsCopy, Abandon, draftVars
<1> QED BY <1>1, <1>2 DEF CollectionInv, IndexKnowsReviews, ReviewsOf, RequestsAreEdits, EditOf,
     LatestIsCurrent, Same, Unsuperseded, Abandon, recordVars

LEMMA ImportKeeps ==
  ASSUME CollectionInv, NEW e \in Episodes, Import(e)
  PROVE  CollectionInv'
<1>1. ReviewsOf({e}) \in SUBSET Nat
  BY DEF CollectionInv, TypeOK, ReviewsOf
<1>2. TypeOK'
  BY <1>1 DEF CollectionInv, TypeOK, Import, draftVars, clientVars
<1>3. RevisionIdentifiesDraft'
  BY DEF CollectionInv, RevisionIdentifiesDraft, IsCopy, Import, draftVars, clientVars
<1>4. IndexKnowsReviews'
  BY DEF CollectionInv, TypeOK, IndexKnowsReviews, ReviewsOf, Import
<1> QED BY <1>2, <1>3, <1>4 DEF CollectionInv, RequestsAreEdits, EditOf,
     LatestIsCurrent, Same, Unsuperseded, Import

LEMMA ReviewKeeps ==
  ASSUME CollectionInv, NEW e \in Episodes, NEW s \in Spans, WriteReview(e, s)
  PROVE  CollectionInv'
<1> DEFINE N == Len(reviews) + 1
           p == Latest(Previous(e, s))
           new == [episode |-> e, span |-> s, supersedes |-> p]
<1>0. TypeOK /\ LatestIsCurrent
  BY DEF CollectionInv
<1>1. /\ p \in 0..Len(reviews)
      /\ Same(e, s) = {} => p = 0
      /\ \A k \in Same(e, s) : (\A n \in Same(e, s) : n <= k) => p = k
  BY <1>0, SupersedesLatest
<1>2. /\ new \in Reviews /\ new.episode = e /\ new.span = s /\ new.supersedes = p
      /\ reviews \in Seq(Reviews) /\ Len(reviews) \in Nat
  BY <1>0, <1>1 DEF TypeOK, Reviews
<1>3. reviews' = Append(reviews, new)
  BY DEF WriteReview
<1> HIDE DEF new, p
<1>4. /\ Len(reviews') = N /\ DOMAIN reviews' = 1..N /\ DOMAIN reviews = 1..(N - 1)
      /\ reviews'[N] = new /\ \A i \in DOMAIN reviews : reviews'[i] = reviews[i]
      /\ reviews' \in Seq(Reviews)
  BY <1>2, <1>3
<1>5. indexed' = [indexed EXCEPT ![e] = ReviewsOf({e}) \cup {N}]
  BY DEF WriteReview
<1>6. /\ UNCHANGED <<draftVars, versions, imported, clientVars, pending>>
  BY DEF WriteReview
<1>7. TypeOK'
  <2>1. ReviewsOf({e}) \cup {N} \in SUBSET Nat
    BY <1>0, <1>2 DEF TypeOK, ReviewsOf
  <2> QED BY <1>0, <1>4, <1>5, <1>6, <2>1 DEF TypeOK, draftVars, clientVars
<1>8. RevisionIdentifiesDraft'
  BY <1>6 DEF CollectionInv, RevisionIdentifiesDraft, IsCopy, draftVars, clientVars
<1>9. IndexKnowsReviews'
  <2>1. ASSUME NEW d \in Episodes
        PROVE  indexed'[d] = ReviewsOf({d})'
    <3>1. ReviewsOf({d})' = {i \in 1..N : reviews'[i].episode = d}
      BY <1>4 DEF ReviewsOf
    <3>2. ReviewsOf({d}) = {i \in 1..(N - 1) : reviews[i].episode = d}
      BY <1>4 DEF ReviewsOf
    <3>3. indexed[d] = ReviewsOf({d})
      BY DEF CollectionInv, IndexKnowsReviews
    <3>6. 1..N = 1..(N - 1) \cup {N} /\ N \notin 1..(N - 1) /\ reviews'[N].episode = e
      BY <1>2, <1>4
    <3>7. \A i \in 1..(N - 1) : reviews'[i].episode = reviews[i].episode
      BY <1>4
    <3>8. ReviewsOf({d})' = ReviewsOf({d}) \cup (IF d = e THEN {N} ELSE {})
      BY <3>1, <3>2, <3>6, <3>7
    <3>4. CASE d = e
      <4>1. indexed'[d] = ReviewsOf({d}) \cup {N}
        BY <1>0, <1>5, <3>4 DEF TypeOK
      <4> QED BY <3>4, <3>8, <4>1
    <3>5. CASE d # e
      <4>1. indexed'[d] = ReviewsOf({d})
        BY <1>0, <1>5, <3>3, <3>5 DEF TypeOK
      <4> QED BY <3>5, <3>8, <4>1
    <3> QED BY <3>4, <3>5
  <2> QED BY <2>1 DEF IndexKnowsReviews
<1>10. RequestsAreEdits'
  BY <1>6 DEF CollectionInv, RequestsAreEdits, EditOf
<1>11. \A i \in DOMAIN reviews' : reviews'[i].supersedes < i
  BY <1>0, <1>1, <1>2, <1>4 DEF LatestIsCurrent
<1>12. ASSUME NEW d \in Episodes, NEW t \in Spans, Same(d, t)' # {}
       PROVE  \E k \in Same(d, t)' : Unsuperseded(d, t)' = {k} /\ \A n \in Same(d, t)' : n <= k
  <2>1. CASE d = e /\ t = s
    <3>1. Same(d, t)' = Same(d, t) \cup {N} /\ N \notin Same(d, t)
      BY <1>2, <1>4, <2>1 DEF Same
    <3>2. \A n \in DOMAIN reviews' : reviews'[n].supersedes # N
      BY <1>2, <1>4, <1>11, <1>1
    <3>3. \A n \in Same(d, t)' : n <= N
      BY <1>2, <1>4 DEF Same
    <3>4. ASSUME NEW k \in Same(d, t)
          PROVE  k \notin Unsuperseded(d, t)'
      <4>1. PICK m \in Same(d, t) : Unsuperseded(d, t) = {m} /\ \A n \in Same(d, t) : n <= m
        BY <1>0 DEF LatestIsCurrent
      <4>0. p = m
        BY <1>1, <2>1, <4>1
      <4>2. reviews'[N].supersedes = m /\ N \in DOMAIN reviews'
        BY <1>2, <1>4, <4>0
      <4>3. CASE k = m
        BY <4>2, <4>3 DEF Unsuperseded
      <4>4. CASE k # m
        <5>0. k \notin Unsuperseded(d, t)
          BY <4>1, <4>4
        <5>1. PICK n \in DOMAIN reviews : reviews[n].supersedes = k
          BY <5>0 DEF Unsuperseded
        <5>2. n \in DOMAIN reviews' /\ reviews'[n].supersedes = k
          BY <1>2, <1>4, <5>1
        <5> QED BY <5>2 DEF Unsuperseded
      <4> QED BY <4>3, <4>4
    <3>5. Unsuperseded(d, t)' = {N}
      BY <3>1, <3>2, <3>4 DEF Unsuperseded
    <3> QED BY <3>1, <3>3, <3>5
  <2>2. CASE ~(d = e /\ t = s)
    <3>1. Same(d, t)' = Same(d, t)
      BY <1>2, <1>4, <2>2 DEF Same
    <3>2. PICK k \in Same(d, t) : Unsuperseded(d, t) = {k} /\ \A n \in Same(d, t) : n <= k
      BY <1>0, <1>12, <3>1 DEF LatestIsCurrent
    <3>3. p \notin Same(d, t)
      <4>1. CASE Same(e, s) = {}
        BY <1>1, <1>4, <4>1 DEF Same
      <4>2. CASE Same(e, s) # {}
        <5>1. PICK m \in Same(e, s) : \A n \in Same(e, s) : n <= m
          BY <1>0, <4>2 DEF LatestIsCurrent
        <5>2. p = m
          BY <1>1, <5>1
        <5> QED BY <5>2, <2>2 DEF Same
      <4> QED BY <4>1, <4>2
    <3>4. Unsuperseded(d, t)' = Unsuperseded(d, t)
      <4>1. ASSUME NEW k2 \in Same(d, t)
            PROVE  (\A n \in DOMAIN reviews' : reviews'[n].supersedes # k2)
                     <=> (\A n \in DOMAIN reviews : reviews[n].supersedes # k2)
        BY <1>2, <1>4, <3>3
      <4> QED BY <3>1, <4>1 DEF Unsuperseded
    <3> QED BY <3>1, <3>2, <3>4
  <2> QED BY <2>1, <2>2
<1>13. LatestIsCurrent'
  BY <1>11, <1>12 DEF LatestIsCurrent
<1> QED BY <1>7, <1>8, <1>9, <1>10, <1>13 DEF CollectionInv

LEMMA ServeKeeps ==
  ASSUME CollectionInv, NEW r \in pending, Serve(r) \/ Refuse(r)
  PROVE  CollectionInv'
<1>0. TypeOK /\ r \in Requests
  BY DEF CollectionInv, TypeOK
<1>1. /\ pending' \subseteq pending /\ view' = view
      /\ doing' \in [Clients -> {"nothing", "save", "freeze"}]
  BY <1>0 DEF Serve, Refuse, Answer, TypeOK, Requests
<1>2. RequestsAreEdits'
  BY <1>1 DEF CollectionInv, RequestsAreEdits, EditOf
<1>3. CASE Save(r)
  <2>1. TypeOK'
    BY <1>0, <1>1, <1>3 DEF TypeOK, Save, Requests, recordVars
  <2>3. RevisionIdentifiesDraft'
    <3>1. ASSUME NEW x, x \in Copies, IsCopy(x)
          PROVE  IsCopy(x)'
      BY <1>0, <1>3, <3>1 DEF IsCopy, Save, TypeOK, Copies
    <3>2. \A c \in Clients : view[c] # NoView => view[c] \in Copies
      BY <1>0 DEF TypeOK
    <3>3. \A q \in pending : q.base \in Copies
      BY <1>0 DEF TypeOK, Requests
    <3> QED BY <1>1, <3>1, <3>2, <3>3 DEF CollectionInv, RevisionIdentifiesDraft
  <2> QED BY <1>2, <1>3, <2>1, <2>3 DEF CollectionInv, IndexKnowsReviews, ReviewsOf, LatestIsCurrent, Same,
       Unsuperseded, Save, recordVars
<1>4. CASE Freeze(r)
  <2>1. versions' \in Seq(Copies)
    BY <1>0, <1>4, CurrentIsCopy DEF TypeOK, Freeze
  <2>2. TypeOK'
    BY <1>0, <1>1, <1>4, <2>1 DEF TypeOK, Freeze, draftVars
  <2>3. RevisionIdentifiesDraft'
    BY <1>1, <1>4 DEF CollectionInv, RevisionIdentifiesDraft, IsCopy, Freeze, draftVars
  <2> QED BY <1>2, <1>4, <2>2, <2>3 DEF CollectionInv, IndexKnowsReviews, ReviewsOf, LatestIsCurrent, Same,
       Unsuperseded, Freeze
<1>5. CASE UNCHANGED <<draftVars, recordVars>>
  <2>1. TypeOK'
    BY <1>0, <1>1, <1>5 DEF TypeOK, draftVars, recordVars
  <2>2. RevisionIdentifiesDraft'
    BY <1>1, <1>5 DEF CollectionInv, RevisionIdentifiesDraft, IsCopy, draftVars
  <2> QED BY <1>2, <1>5, <2>1, <2>2 DEF CollectionInv, IndexKnowsReviews, ReviewsOf, LatestIsCurrent, Same,
       Unsuperseded, recordVars
<1> QED BY <1>3, <1>4, <1>5 DEF Serve, Refuse

LEMMA CollectionInductive == CollectionInv /\ [Next]_vars => CollectionInv'
<1> SUFFICES ASSUME CollectionInv, [Next]_vars
             PROVE  CollectionInv'
  OBVIOUS
<1>1. ASSUME NEW c \in Clients, EditDraft(c) \/ AskFreeze(c)
      PROVE  CollectionInv'
  BY <1>1, SendIsEdit, SendKeeps
<1>2. CASE UNCHANGED vars
  <2>1. UNCHANGED <<members, exclusions, revision, reviews, versions, imported, indexed, view, doing, pending>>
    BY <1>2 DEF vars, draftVars, recordVars, clientVars
  <2>2. TypeOK' /\ RevisionIdentifiesDraft' /\ IndexKnowsReviews'
    BY <2>1 DEF CollectionInv, TypeOK, RevisionIdentifiesDraft, IsCopy, IndexKnowsReviews, ReviewsOf
  <2>3. RequestsAreEdits' /\ LatestIsCurrent'
    BY <2>1 DEF CollectionInv, RequestsAreEdits, EditOf, LatestIsCurrent, Same, Unsuperseded
  <2> QED BY <2>2, <2>3 DEF CollectionInv
<1> QED BY <1>1, <1>2, LoadKeeps, AbandonKeeps, ImportKeeps, ReviewKeeps, ServeKeeps DEF Next

LEMMA CollectionInvariant == Spec => []CollectionInv
  BY CollectionInitial, CollectionInductive, PTL DEF Spec

-----------------------------------------------------------------------------
(* The theorems.                                                           *)

\* Every state of the collection, its clients and requests is well typed.
THEOREM CollectionTypeCorrect == Spec => []TypeOK
<1>1. CollectionInv => TypeOK
  BY DEF CollectionInv
<1> QED BY <1>1, CollectionInvariant, PTL

\* The revision that PATCH and POST versions compare stands for one content of
\* the draft, in whatever copy it comes.
THEOREM RevisionsIdentify == Spec => []RevisionIdentifiesDraft
<1>1. CollectionInv => RevisionIdentifiesDraft
  BY DEF CollectionInv
<1> QED BY <1>1, CollectionInvariant, PTL

\* The search entry (Store.index) of an episode knows all its reviews.
THEOREM IndexIsComplete == Spec => []IndexKnowsReviews
<1>1. CollectionInv => IndexKnowsReviews
  BY DEF CollectionInv
<1> QED BY <1>1, CollectionInvariant, PTL

\* Of the reviews of one episode and span (POST reviews) one is current.
THEOREM ReviewsAreChains == Spec => []OneCurrentReview
<1>1. ASSUME CollectionInv
      PROVE  OneCurrentReview
  <2> SUFFICES ASSUME NEW i \in DOMAIN reviews
               PROVE  \E k \in Same(reviews[i].episode, reviews[i].span) :
                        Unsuperseded(reviews[i].episode, reviews[i].span) = {k}
    BY DEF OneCurrentReview, Same, Unsuperseded
  <2>0. reviews[i] \in Reviews
    BY <1>1 DEF CollectionInv, TypeOK
  <2>1. reviews[i].episode \in Episodes /\ reviews[i].span \in Spans
    BY <2>0 DEF Reviews
  <2>2. i \in Same(reviews[i].episode, reviews[i].span)
    BY DEF Same
  <2> QED BY <1>1, <2>1, <2>2 DEF CollectionInv, LatestIsCurrent
<1> QED BY <1>1, CollectionInvariant, PTL

\* An accepted request to freeze was composed from what is frozen.
LEMMA FreezeIsBase ==
  ASSUME CollectionInv, NEW r \in pending, FreezeAllowed(r)
  PROVE  r.base = Current
<1>1. r.base \in Copies /\ Current \in Copies
  BY CurrentIsCopy DEF CollectionInv, TypeOK, Requests
<1>2. r.base.members = members /\ r.base.exclusions = exclusions
  BY DEF CollectionInv, RevisionIdentifiesDraft, IsCopy, FreezeAllowed
<1>3. r.base.revision = revision /\ r.base.reviews = ReviewsOf(Selected(members))
  BY DEF FreezeAllowed
<1> QED BY <1>1, <1>2, <1>3 DEF Copies, Current

\* A version (POST versions) is what its author had on the screen.
THEOREM VersionsAreAsSeen == Spec => FrozenAsSeen
<1> DEFINE Seen == \A n \in DOMAIN versions' \ DOMAIN versions :
                     \E r \in pending : r.op = "freeze" /\ versions'[n] = r.base
<1>1. ASSUME CollectionInv, [Next]_vars
      PROVE  Seen
  <2>1. CASE \E r \in pending : r.op = "freeze" /\ Freeze(r)
    <3>1. PICK r \in pending : r.op = "freeze" /\ Freeze(r)
      BY <2>1
    <3>2. r.base = Current
      BY <1>1, <3>1, FreezeIsBase DEF Freeze
    <3>3. versions \in Seq(Copies) /\ Current \in Copies /\ versions' = Append(versions, Current)
      BY <1>1, <3>1, CurrentIsCopy DEF CollectionInv, TypeOK, Freeze
    <3>4. \A n \in DOMAIN versions' \ DOMAIN versions : versions'[n] = Current
      BY <3>3
    <3> QED BY <3>1, <3>2, <3>4
  <2>2. CASE versions' = versions
    BY <2>2
  <2>3. (\E r \in pending : r.op = "freeze" /\ Freeze(r)) \/ versions' = versions
    BY <1>1 DEF Next, Import, WriteReview, Load, EditDraft, AskFreeze, Send, Abandon, Serve, Refuse, Save,
       recordVars, vars
  <2> QED BY <2>1, <2>2, <2>3
<1>2. CollectionInv /\ [Next]_vars => [Seen]_vars
  BY <1>1
<1> QED BY <1>2, CollectionInvariant, PTL DEF Spec, FrozenAsSeen

-----------------------------------------------------------------------------
(* Every accepted save is one edit of the draft as it is: the refinement.  *)

LEMMA SaveIsEdit ==
  ASSUME CollectionInv, NEW r \in pending, r.op = "save", Save(r)
  PROVE  Draft!Next
<1>1. r.base.members = members /\ r.base.exclusions = exclusions
  BY DEF CollectionInv, RevisionIdentifiesDraft, IsCopy, Save, SaveAllowed
<1>2. Draft!Edit(r.members, r.exclusions)
  BY DEF Save, Draft!Edit, recordVars
<1>3. EditOf(r.base, r.members, r.exclusions)
  BY DEF CollectionInv, RequestsAreEdits
<1>4. CASE r.members = members /\ r.exclusions = exclusions
  BY <1>2, <1>4 DEF Draft!Next, Draft!Rename
<1>5. CASE \E m \in Members : m.episode \notin exclusions /\ r.members = members \cup {m} /\ r.exclusions = exclusions
  BY <1>2, <1>5 DEF Draft!Next, Draft!Add, Draft!Members, Members
<1>6. CASE \E m \in members : r.members = members \ {m} /\ r.exclusions = exclusions
  BY <1>2, <1>6 DEF Draft!Next, Draft!Remove, Draft!Members, Members, CollectionInv, TypeOK
<1>7. CASE \E e \in Episodes : r.members = {m \in members : m.episode # e} /\ r.exclusions = exclusions \cup {e}
  BY <1>2, <1>7 DEF Draft!Next, Draft!Exclude
<1>8. CASE \E e \in exclusions : r.members = members /\ r.exclusions = exclusions \ {e}
  BY <1>2, <1>8 DEF Draft!Next, Draft!Readmit, CollectionInv, TypeOK
<1> QED BY <1>1, <1>3, <1>4, <1>5, <1>6, <1>7, <1>8 DEF EditOf

\* The clients and the API (PATCH, POST reviews, POST versions) implement
\* CollectionDraft.
THEOREM EditsAreKept == Spec => KeepsEdits
<1>1. Init => Draft!Init
  BY DEF Init, Draft!Init
<1>2. ASSUME CollectionInv, [Next]_vars
      PROVE  [Draft!Next]_(Draft!draft)
  <2>1. ASSUME NEW r \in pending, r.op = "save", Save(r)
        PROVE  Draft!Next
    BY <1>2, <2>1, SaveIsEdit
  <2>2. ASSUME NEW r \in pending, Freeze(r)
        PROVE  Draft!Next
    <3>1. Draft!Freeze
      BY <2>2 DEF Freeze, FreezeAllowed, Current, ReviewsOf, Selected, Draft!Freeze, Draft!Selected, draftVars
    <3> QED BY <3>1 DEF Draft!Next
  <2>3. ASSUME NEW e \in Episodes, NEW s \in Spans, WriteReview(e, s)
        PROVE  Draft!Next
    <3>1. Latest(Previous(e, s)) \in 0..Len(reviews)
      BY <1>2, SupersedesLatest DEF CollectionInv
    <3>2. Draft!Review([episode |-> e, span |-> s, supersedes |-> Latest(Previous(e, s))])
      BY <2>3 DEF WriteReview, Draft!Review, draftVars
    <3> QED BY <3>1, <3>2 DEF Draft!Next
  <2>4. CASE UNCHANGED <<draftVars, reviews, versions>>
    BY <2>4 DEF draftVars, Draft!draft
  <2>5. ASSUME NEW c \in Clients, Load(c) \/ EditDraft(c) \/ AskFreeze(c) \/ Abandon(c)
        PROVE  UNCHANGED <<draftVars, reviews, versions>>
    BY <2>5 DEF Load, EditDraft, AskFreeze, Send, Abandon, recordVars
  <2>6. ASSUME NEW r \in pending, Refuse(r)
        PROVE  UNCHANGED <<draftVars, reviews, versions>>
    BY <2>6 DEF Refuse, recordVars
  <2>7. ASSUME NEW e \in Episodes, Import(e)
        PROVE  UNCHANGED <<draftVars, reviews, versions>>
    BY <2>7 DEF Import
  <2>8. CASE UNCHANGED vars
    BY <2>8 DEF vars, recordVars, draftVars, Draft!draft
  <2> QED BY <1>2, <2>1, <2>2, <2>3, <2>4, <2>5, <2>6, <2>7, <2>8 DEF Next, Serve
<1>3. CollectionInv /\ [Next]_vars => [Draft!Next]_(Draft!draft)
  BY <1>2
<1> QED BY <1>1, <1>3, CollectionInvariant, PTL DEF Spec, KeepsEdits, Draft!Spec
=============================================================================
