----------------------------- MODULE StoreLock -----------------------------
(***************************************************************************)
(* The ownership lock of a curation data directory (Store's constructor    *)
(* and close in gateway/curation/store.ts): a file that names the process  *)
(* which owns the directory.  An API process that starts reads the file,   *)
(* asks the operating system whether its owner is alive, removes a stale   *)
(* one, creates its own and writes its identity into it, each a separate   *)
(* step that other processes can come between.  A process may die between  *)
(* any two of them.                                                        *)
(***************************************************************************)
EXTENDS Naturals

CONSTANTS
  Apis,          \* the API processes ever started
  Nobody,        \* no process: there is no file
  Serial         \* TRUE: a start waits until no other one is under way

ASSUME LockAssumption == Nobody \notin Apis /\ Serial \in BOOLEAN

VARIABLES
  lock,          \* whose file is at the path curation.lock
  written,       \* the processes whose file has its contents
  phase,         \* where each process is
  seen           \* the owner it has read from the file

lockVars == <<lock, written, phase, seen>>

\* The steps of the constructor, the life of an owner, and of close().
Starting == {"read", "check", "unlink", "create", "write"}
Owning == {"owner", "serving", "stopping", "draining", "closing"}
Ending == {"release"}
Over == {"new", "refused", "gone", "crashed"}

LockTypeOK ==
  /\ lock \in Apis \cup {Nobody}
  /\ written \in SUBSET Apis
  /\ phase \in [Apis -> Starting \cup Owning \cup Ending \cup Over]
  /\ seen \in [Apis -> Apis \cup {Nobody}]

LockInit ==
  /\ lock = Nobody /\ written = {}
  /\ phase = [p \in Apis |-> "new"]
  /\ seen = [p \in Apis |-> Nobody]

Alive(p) == phase[p] \in Starting \cup Owning \cup Ending

Goto(p, next) == phase' = [phase EXCEPT ![p] = next]

-----------------------------------------------------------------------------
(* The constructor.                                                        *)

Launch(p) ==
  /\ phase[p] = "new"
  /\ Serial => \A q \in Apis : phase[q] \notin Starting
  /\ Goto(p, "read")
  /\ UNCHANGED <<lock, written, seen>>

\* No file: the error is swallowed.  A file without contents does not parse,
\* and the start fails.
ReadLock(p) ==
  /\ phase[p] = "read"
  /\ \/ lock = Nobody /\ Goto(p, "create") /\ UNCHANGED seen
     \/ lock \in written /\ Goto(p, "check") /\ seen' = [seen EXCEPT ![p] = lock]
     \/ lock # Nobody /\ lock \notin written /\ Goto(p, "refused") /\ UNCHANGED seen
  /\ UNCHANGED <<lock, written>>

\* Mutant of CheckOwner: only an owner that is serving counts as alive.
CheckOwnerServing(p) ==
  /\ phase[p] = "check"
  /\ \/ phase[seen[p]] # "serving" /\ Goto(p, "unlink")
     \/ Goto(p, "refused")
  /\ UNCHANGED <<lock, written, seen>>

\* process.kill(pid, 0): a live owner means refusal; so does a dead one whose
\* process number has been given to some other program.
CheckOwner(p) ==
  /\ phase[p] = "check"
  /\ \/ ~Alive(seen[p]) /\ Goto(p, "unlink")
     \/ Goto(p, "refused")
  /\ UNCHANGED <<lock, written, seen>>

\* unlinkSync takes away whatever is at the path by now.
RemoveStale(p) ==
  /\ phase[p] = "unlink"
  /\ lock' = Nobody
  /\ Goto(p, "create")
  /\ UNCHANGED <<written, seen>>

\* openSync 'wx' fails when there is a file again.
CreateLock(p) ==
  /\ phase[p] = "create"
  /\ lock' = IF lock = Nobody THEN p ELSE lock
  /\ Goto(p, IF lock = Nobody THEN "write" ELSE "refused")
  /\ UNCHANGED <<written, seen>>

\* The identity goes into p's own file, wherever that is by now.
WriteLock(p) ==
  /\ phase[p] = "write"
  /\ written' = written \cup {p}
  /\ Goto(p, "owner")
  /\ UNCHANGED <<lock, seen>>

Construct(p) ==
  Launch(p) \/ ReadLock(p) \/ CheckOwner(p) \/ RemoveStale(p) \/ CreateLock(p) \/ WriteLock(p)

-----------------------------------------------------------------------------
(* close(), and death.                                                     *)

\* The file is read again and only its owner goes on to remove it.
Close(p) ==
  /\ phase[p] = "closing"
  /\ Goto(p, IF lock = p THEN "release" ELSE "gone")
  /\ UNCHANGED <<lock, written, seen>>

ReleaseLock(p) ==
  /\ phase[p] = "release"
  /\ lock' = Nobody
  /\ Goto(p, "gone")
  /\ UNCHANGED <<written, seen>>

Die(p) ==
  /\ Alive(p)
  /\ Goto(p, "crashed")
  /\ UNCHANGED <<lock, written, seen>>

\* What an owner does while it has the directory is the server's business
\* (CurationHost); sooner or later it may decide to close.
Own(p, next) ==
  /\ phase[p] \in Owning \ {"closing"} /\ next \in Owning \ {"owner"}
  /\ Goto(p, next)
  /\ UNCHANGED <<lock, written, seen>>

LockNext ==
  \E p \in Apis :
    \/ Construct(p) \/ Close(p) \/ ReleaseLock(p) \/ Die(p)
    \/ \E next \in Owning : Own(p, next)

LockSpec == LockInit /\ [][LockNext]_lockVars

-----------------------------------------------------------------------------
(* Properties.                                                             *)

Holds(p) == phase[p] \in Owning \cup Ending

\* docs/CURATION_IMPLEMENTATION.md: "One API owns the SQLite WAL writer and an
\* exclusive ownership lock."  No two processes have the directory at once.
OneOwner == \A p, q \in Apis : Holds(p) /\ Holds(q) => p = q

\* Whoever has the directory has its own file at the path, until it removes
\* it itself: nobody mistakes an owner's file for a stale one.
OwnerHasLock == \A p \in Apis : Holds(p) => lock = p /\ p \in written

\* The inductive strengthening of the two above, when starts are serial: a file
\* is written before its process owns anything, a starting process that is
\* about to remove a file has seen it there with its owner dead, and one that
\* is about to write its file has it in place.
LockInv ==
  /\ LockTypeOK
  /\ OwnerHasLock
  /\ \A p, q \in Apis : phase[p] \in Starting /\ phase[q] \in Starting => p = q
  /\ \A p \in Apis :
       /\ phase[p] = "check" => seen[p] # Nobody
       /\ phase[p] \in {"check", "unlink"} => \A q \in Apis : Holds(q) => seen[p] = q
       /\ phase[p] = "unlink" => \A q \in Apis : ~Holds(q)
       /\ phase[p] = "write" => lock = p
=============================================================================
