-------------------------- MODULE ExperimentArchive --------------------------
(***************************************************************************)
(* The experiment archive of the gateway (gateway/recordings.ts): records  *)
(* are written one after the other, each to a temporary file that is       *)
(* synced and renamed into place, after which the directory is synced,     *)
(* except on Windows.  Any step may fail, the process may be killed        *)
(* between any two, and a power failure may undo whatever was not synced.  *)
(* A record is the submission it came from: identifiers are fresh.         *)
(***************************************************************************)
EXTENDS Integers, Sequences, FiniteSetsExt

CONSTANTS
  Writes,       \* the calls of recordExperiment()
  Size(_),      \* the size of a record, which its submission fixes
  MaxRecords,   \* quota on the number of records
  MaxBytes,     \* quota on their total size
  SyncsDirectories   \* the platform can sync a directory: it is not win32

ASSUME PlatformAssumption == SyncsDirectories \in BOOLEAN

VARIABLES
  entry,    \* under which name a record's file is in the directory
  content,  \* what is in the file
  fast,     \* the records whose name in the directory is on disk
  queue,    \* the writes in the chain, the first one at work
  phase     \* how far each of them is

archiveVars == <<entry, content, fast, queue, phase>>
files == <<entry, content, fast>>

Entries == {"none", "temporary", "record"}
Contents == {"none", "partial", "written", "synced"}
AtWork == {"admitted", "opened", "flushed", "published", "finished"}
WritePhases == {"idle", "queued", "saved", "failed", "lost"} \cup AtWork

Visible == {w \in Writes : entry[w] = "record"}
Saved == {w \in Writes : phase[w] = "saved"}

ArchiveInit ==
  /\ entry = [w \in Writes |-> "none"] /\ content = [w \in Writes |-> "none"]
  /\ fast = {} /\ queue = <<>> /\ phase = [w \in Writes |-> "idle"]

-----------------------------------------------------------------------------

\* recordExperiment(): the payload is cloned and the write joins the chain.
Submit(w) ==
  /\ phase[w] = "idle"
  /\ phase' = [phase EXCEPT ![w] = "queued"] /\ queue' = Append(queue, w)
  /\ UNCHANGED files

\* The write at the head of the chain goes from one phase to another.
Advance(w, from, to) ==
  /\ queue # <<>> /\ w = Head(queue) /\ phase[w] = from
  /\ phase' = [phase EXCEPT ![w] = to]

Fits(records, w) ==
  /\ Cardinality(records) < MaxRecords
  /\ MapThenSumSet(Size, records \cup {w}) <= MaxBytes

\* Its turn comes: the directory is read and the quotas are checked.
Admit(w) ==
  /\ Advance(w, "queued", "admitted") /\ Fits(Visible, w)
  /\ UNCHANGED <<files, queue>>

\* The temporary file is created, and may be filled in part.
Open(w) ==
  /\ Advance(w, "admitted", "opened")
  /\ entry' = [entry EXCEPT ![w] = "temporary"]
  /\ content' = [content EXCEPT ![w] = "partial"]
  /\ UNCHANGED <<fast, queue>>

\* Mutant of Flushed: the file is not synced.
FlushedUnsynced == "written"

Flushed == "synced"

\* The file is written to its end and synced.
Flush(w) ==
  /\ Advance(w, "opened", "flushed")
  /\ content' = [content EXCEPT ![w] = Flushed]
  /\ UNCHANGED <<entry, fast, queue>>

\* On win32 nothing is left to do after the rename.
Publish(w) ==
  /\ Advance(w, "flushed", IF SyncsDirectories THEN "published" ELSE "finished")
  /\ entry' = [entry EXCEPT ![w] = "record"]
  /\ UNCHANGED <<content, fast, queue>>

\* Mutant of SyncsDirectory: the rename is not made durable.
SyncsNothing == fast

SyncsDirectory == Visible

SyncDirectory(w) ==
  /\ Advance(w, "published", "finished")
  /\ fast' = SyncsDirectory
  /\ UNCHANGED <<entry, content, queue>>

\* The record is returned, and the next write has its turn.
Acknowledge(w) ==
  /\ Advance(w, "finished", "saved") /\ queue' = Tail(queue)
  /\ UNCHANGED files

\* The quota is reached, or some step fails, and the next write has its turn.
\* A temporary file is removed if that succeeds; a record already renamed stays.
Fail(w) ==
  /\ queue # <<>> /\ w = Head(queue) /\ phase[w] # "finished"
  /\ phase' = [phase EXCEPT ![w] = "failed"]
  /\ queue' = Tail(queue)
  /\ \/ entry[w] = "temporary" /\ entry' = [entry EXCEPT ![w] = "none"]
     \/ UNCHANGED entry
  /\ UNCHANGED <<content, fast>>

-----------------------------------------------------------------------------

\* The process is gone, and with it the chain: nobody is told.
Forget ==
  /\ queue' = <<>>
  /\ phase' = [w \in Writes |-> IF phase[w] \in {"queued"} \cup AtWork THEN "lost" ELSE phase[w]]

ArchiveCrash == Forget /\ UNCHANGED files

\* What was not synced may be gone: a name in the directory, the end of a file.
ArchivePowerFailure ==
  /\ Forget
  /\ \E lost \in SUBSET (Visible \ fast) :
       /\ entry' = [w \in Writes |-> IF w \in lost THEN "temporary" ELSE entry[w]]
       /\ fast' = Visible \ lost
  /\ content' = [w \in Writes |-> IF content[w] = "written" THEN "partial" ELSE content[w]]

WriteStep(w) ==
  \/ Admit(w) \/ Open(w) \/ Flush(w) \/ Publish(w) \/ SyncDirectory(w) \/ Acknowledge(w)
  \/ Fail(w)

ArchiveNext ==
  \/ \E w \in Writes : Submit(w) \/ WriteStep(w)
  \/ ArchiveCrash \/ ArchivePowerFailure

ArchiveSpec == ArchiveInit /\ [][ArchiveNext]_archiveVars

-----------------------------------------------------------------------------

\* What can be read under the name of a record is a whole record, whatever
\* failed, died or lost power (recordings.ts:160-162).
VisibleIsWhole == \A w \in Visible : content[w] = "synced"

\* The archive keeps the book: within its quotas, a record entered whole, and
\* never lost once its author was told that it is saved, where directories are
\* synced; on win32, readable when its author is told, and lost with the power
\* only (recordings.ts:163).
Book == INSTANCE RecordBook WITH
  Records <- Writes, Fits <- Fits, Durable <- SyncsDirectories,
  book <- Visible, fast <- fast, acknowledged <- Saved
KeepsBook == Book!BookSpec
=============================================================================
