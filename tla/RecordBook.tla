----------------------------- MODULE RecordBook ------------------------------
(***************************************************************************)
(* What the experiment archive promises, without its files: a book of      *)
(* bounded size in which records appear whole, one at a time.  One that    *)
(* was not made fast may vanish with the power.  In a durable book a       *)
(* record that was acknowledged is never lost.                             *)
(***************************************************************************)
CONSTANTS
  Records,
  Fits(_, _),  \* whether a further record is within the quotas
  Durable      \* a record is made fast before it is acknowledged

VARIABLES book,          \* the records that can be read
          fast,          \* those that outlast a power failure
          acknowledged   \* those reported to their author as saved

bookVars == <<book, fast, acknowledged>>

BookInit == book = {} /\ fast = {} /\ acknowledged = {}

Enter(r) ==
  /\ r \notin book /\ Fits(book, r)
  /\ book' = book \cup {r}
  /\ UNCHANGED <<fast, acknowledged>>

Fasten == fast' = book /\ UNCHANGED <<book, acknowledged>>

Acknowledge(r) ==
  /\ r \in IF Durable THEN fast ELSE book
  /\ acknowledged' = acknowledged \cup {r}
  /\ UNCHANGED <<book, fast>>

Lose(records) ==
  /\ book' = book \ records /\ fast \cap records = {}
  /\ fast' = book'
  /\ UNCHANGED acknowledged

BookNext ==
  \/ \E r \in Records : Enter(r) \/ Acknowledge(r)
  \/ Fasten
  \/ \E records \in SUBSET Records : Lose(records)

BookSpec == BookInit /\ [][BookNext]_bookVars
=============================================================================
