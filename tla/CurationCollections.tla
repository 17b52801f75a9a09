------------------------- MODULE CurationCollections -------------------------
(***************************************************************************)
(* One collection, the reviews of its episodes and their search entries:   *)
(* the handlers of gateway/curation/app.ts, each one synchronous step of   *)
(* the API, and the web clients that edit the collection from a copy they  *)
(* loaded earlier (CollectionEditor.tsx, CurationApp.tsx).  Requests wait  *)
(* in the network; a client may be closed or reloaded while its request is *)
(* on the way, and a request or its answer may be lost.                    *)
(***************************************************************************)
EXTENDS Naturals, Sequences, FiniteSets

CONSTANTS
  Clients,       \* browser tabs
  Episodes,      \* episode identities
  Spans,         \* the whole episode and the intervals one can name in it
  Family(_),     \* the source family of an episode
  NoView,        \* no copy of the collection
  MaxRevision,   \* BOUND: saves
  MaxReviews,    \* BOUND: reviews written
  MaxVersions,   \* BOUND: versions frozen
  MaxPending     \* BOUND: requests on their way at once

ASSUME BoundsAssumption ==
  MaxRevision \in Nat /\ MaxReviews \in Nat /\ MaxVersions \in Nat /\ MaxPending \in Nat

Members == [episode : Episodes, span : Spans]

VARIABLES
  members, exclusions, revision,    \* the draft (exclusion reasons left out)
  reviews,       \* the review records in rowid order, named by their position
  versions,      \* the version records of the collection in rowid order
  imported,      \* episodes with a committed record
  indexed,       \* the reviews in each episode's search entry
  view,          \* the copy each client shows
  doing,         \* what each client waits for
  pending        \* requests on their way

draftVars == <<members, exclusions, revision>>
recordVars == <<reviews, versions, imported, indexed>>
clientVars == <<view, doing>>
vars == <<draftVars, recordVars, clientVars, pending>>

Reviews == [episode : Episodes, span : Spans, supersedes : Nat]
Copies == [members : SUBSET Members, exclusions : SUBSET Episodes,
           revision : Nat, reviews : SUBSET Nat]

\* base is the copy a request was composed from: of it the request itself
\* carries the revision and, to freeze, the reviews.
Requests == [op : {"save", "freeze"}, client : Clients, base : Copies,
             members : SUBSET Members, exclusions : SUBSET Episodes]

TypeOK ==
  /\ members \in SUBSET Members /\ exclusions \in SUBSET Episodes /\ revision \in Nat
  /\ reviews \in Seq(Reviews) /\ versions \in Seq(Copies)
  /\ imported \in SUBSET Episodes
  /\ indexed \in [Episodes -> SUBSET Nat]
  /\ view \in [Clients -> Copies \cup {NoView}]
  /\ doing \in [Clients -> {"nothing", "save", "freeze"}]
  /\ pending \in SUBSET Requests

Init ==
  /\ members = {} /\ exclusions = {} /\ revision = 1
  /\ reviews = <<>> /\ versions = <<>>
  /\ imported = {}
  /\ indexed = [e \in Episodes |-> {}]
  /\ view = [c \in Clients |-> NoView]
  /\ doing = [c \in Clients |-> "nothing"]
  /\ pending = {}

-----------------------------------------------------------------------------
(* The API.                                                                *)

Selected(ms) == {m.episode : m \in ms}
ReviewsOf(es) == {i \in DOMAIN reviews : reviews[i].episode \in es}

\* GET: the draft and every review of its episodes, read in one step.
Current ==
  [members |-> members, exclusions |-> exclusions, revision |-> revision,
   reviews |-> ReviewsOf(Selected(members))]

\* Mutant of SaveAllowed: the revision is not compared.
SaveAllowedAnyway(r) ==
  /\ Selected(r.members) \subseteq imported /\ r.exclusions \subseteq imported
  /\ Selected(r.members) \cap r.exclusions = {}

\* The conditions of PATCH; anything else is an error without effect.
SaveAllowed(r) ==
  /\ r.base.revision = revision
  /\ Selected(r.members) \subseteq imported /\ r.exclusions \subseteq imported
  /\ Selected(r.members) \cap r.exclusions = {}

\* Mutant of Save: the revision stays.
SaveSilently(r) ==
  /\ SaveAllowed(r)
  /\ members' = r.members /\ exclusions' = r.exclusions
  /\ UNCHANGED <<revision, recordVars>>

Save(r) ==
  /\ SaveAllowed(r) /\ revision < MaxRevision
  /\ members' = r.members /\ exclusions' = r.exclusions
  /\ revision' = revision + 1
  /\ UNCHANGED recordVars

\* Mutant of FreezeAllowed: only the revision is compared.
FreezeAllowedUnread(r) ==
  /\ r.base.revision = revision
  /\ members # {}
  /\ \A d, e \in Selected(members) : Family(d) = Family(e) => d = e

\* The conditions of POST versions: the same revision and the same reviews as
\* the client has seen, some member, and no source family twice.
FreezeAllowed(r) ==
  /\ r.base.revision = revision
  /\ members # {}
  /\ r.base.reviews = ReviewsOf(Selected(members))
  /\ \A d, e \in Selected(members) : Family(d) = Family(e) => d = e

Freeze(r) ==
  /\ FreezeAllowed(r) /\ Len(versions) < MaxVersions
  /\ versions' = Append(versions, Current)
  /\ UNCHANGED <<draftVars, reviews, imported, indexed>>

\* Mutant of Previous: any review of the same span is superseded.
PreviousAnyEpisode(e, s) == {i \in DOMAIN reviews : reviews[i].span = s}

\* Earlier reviews of the same episode and span, of which the latest counts.
Previous(e, s) == {i \in DOMAIN reviews : reviews[i].episode = e /\ reviews[i].span = s}

Latest(ids) == IF ids = {} THEN 0 ELSE CHOOSE i \in ids : \A k \in ids : k <= i

\* POST reviews: the record and the search entry in one transaction.
WriteReview(e, s) ==
  /\ e \in imported /\ Len(reviews) < MaxReviews
  /\ reviews' = Append(reviews,
       [episode |-> e, span |-> s, supersedes |-> Latest(Previous(e, s))])
  /\ indexed' = [indexed EXCEPT ![e] = ReviewsOf({e}) \cup {Len(reviews) + 1}]
  /\ UNCHANGED <<draftVars, versions, imported, clientVars, pending>>

\* Mutant of Import: the search entry is rebuilt from the episode alone.
ImportForgets(e) ==
  /\ imported' = imported \cup {e}
  /\ indexed' = [indexed EXCEPT ![e] = {}]
  /\ UNCHANGED <<draftVars, reviews, versions, clientVars, pending>>

\* The worker publishes an episode, for the first time or again.
Import(e) ==
  /\ imported' = imported \cup {e}
  /\ indexed' = [indexed EXCEPT ![e] = ReviewsOf({e})]
  /\ UNCHANGED <<draftVars, reviews, versions, clientVars, pending>>

-----------------------------------------------------------------------------
(* The clients.  A client waits for one request at a time; edits are made  *)
(* from the copy it shows.                                                 *)

\* Opening the collection, Reload draft, or the reload that follows a save:
\* the API answers GET.  A copy that travels for long is one that is acted on
\* late, and when the GET fails the old copy stays.
Load(c) ==
  /\ doing[c] = "nothing"
  /\ view' = [view EXCEPT ![c] = Current]
  /\ UNCHANGED <<draftVars, recordVars, doing, pending>>

Send(c, op, ms, xs) ==
  /\ doing[c] = "nothing"
  /\ Cardinality(pending) < MaxPending
  /\ doing' = [doing EXCEPT ![c] = op]
  /\ pending' = pending \cup
       {[op |-> op, client |-> c, base |-> view[c], members |-> ms, exclusions |-> xs]}
  /\ UNCHANGED <<draftVars, recordVars, view>>

\* Save details, add, remove, exclude with a reason, clear an exclusion; an
\* excluded episode cannot be added.
EditDraft(c) ==
  /\ view[c] # NoView
  /\ LET ms == view[c].members  xs == view[c].exclusions IN
     \/ Send(c, "save", ms, xs)
     \/ \E m \in Members \ ms :
          m.episode \in imported \ xs /\ Send(c, "save", ms \cup {m}, xs)
     \/ \E m \in ms : Send(c, "save", ms \ {m}, xs)
     \/ \E e \in Selected(ms) :
          Send(c, "save", {m \in ms : m.episode # e}, xs \cup {e})
     \/ \E e \in xs : Send(c, "save", ms, xs \ {e})

AskFreeze(c) ==
  /\ view[c] # NoView /\ view[c].members # {}
  /\ Send(c, "freeze", {}, {})

\* The tab is closed or reloaded: its request travels on, nobody waits.
Abandon(c) ==
  /\ doing[c] # "nothing" \/ view[c] # NoView
  /\ doing' = [doing EXCEPT ![c] = "nothing"]
  /\ view' = [view EXCEPT ![c] = NoView]
  /\ UNCHANGED <<draftVars, recordVars, pending>>

\* Good or not, the answer ends the wait of a client for such a request.
Answer(r) ==
  /\ doing' = IF doing[r.client] = r.op THEN [doing EXCEPT ![r.client] = "nothing"] ELSE doing
  /\ pending' = pending \ {r}
  /\ UNCHANGED view

Serve(r) ==
  /\ \/ r.op = "save" /\ Save(r)
     \/ r.op = "freeze" /\ Freeze(r)
  /\ Answer(r)

\* Refused, or lost on the way.
Refuse(r) == Answer(r) /\ UNCHANGED <<draftVars, recordVars>>

Next ==
  \/ \E e \in Episodes : Import(e) \/ \E s \in Spans : WriteReview(e, s)
  \/ \E c \in Clients : Load(c) \/ EditDraft(c) \/ AskFreeze(c) \/ Abandon(c)
  \/ \E r \in pending : Serve(r) \/ Refuse(r)

Spec == Init /\ [][Next]_vars

-----------------------------------------------------------------------------
(* Properties.                                                             *)

\* A revision number stands for one content of the draft, in every copy on a
\* screen or behind a request on its way: comparing the number is enough.
IsCopy(x) ==
  /\ x.revision <= revision
  /\ x.revision = revision => x.members = members /\ x.exclusions = exclusions
RevisionIdentifiesDraft ==
  /\ \A c \in Clients : view[c] # NoView => IsCopy(view[c])
  /\ \A r \in pending : IsCopy(r.base)

\* A frozen version is what its author had on the screen, members, exclusions
\* and reviews: no edit and no review slipped in between.
FrozenAsSeen ==
  [][\A n \in DOMAIN versions' \ DOMAIN versions :
       \E r \in pending : r.op = "freeze" /\ versions'[n] = r.base]_vars

\* Of the reviews of one episode and span exactly one is current (superseded by
\* no other), so that a search by reviewed role has one answer.
OneCurrentReview ==
  \A i \in DOMAIN reviews :
    LET same == {k \in DOMAIN reviews : reviews[k].episode = reviews[i].episode
                                        /\ reviews[k].span = reviews[i].span}
        current == {k \in same : \A n \in DOMAIN reviews : reviews[n].supersedes # k}
    IN \E k \in same : current = {k}

\* The search entry of an episode knows all its reviews, also after the
\* episode is imported again.
IndexKnowsReviews == \A e \in Episodes : indexed[e] = ReviewsOf({e})

\* Every accepted save is one edit of the draft as it is when it is accepted:
\* nobody's selection is undone by somebody who has not seen it.
Draft == INSTANCE CollectionDraft
KeepsEdits == Draft!Spec
=============================================================================
