----------------------------- MODULE GatewayDisk -----------------------------
(***************************************************************************)
(* One gateway process with its two files on one disk: the archive of      *)
(* experiments and the record of its spending.  A repair is archived before *)
(* it makes model calls and archives what came of each; looks at the stage *)
(* and access probes make calls without records, and measurements make     *)
(* records without calls.                                                  *)
(***************************************************************************)
EXTENDS AstraBudget, ExperimentArchive

CONSTANTS
  Repairs,    \* repairs: each makes one of the calls
  MaxFaults   \* bound: crashes and power failures

\* The records of a repair; all others are of measurements.
Opening(r) == <<r, "repair_start">>
Closing(r) == <<r, "tool_call">>

ASSUME DiskAssumption ==
  Repairs \subseteq Calls /\ \A r \in Repairs : {Opening(r), Closing(r)} \subseteq Writes

Looks == Calls \ Repairs
Trials == Writes \ UNION {{Opening(r), Closing(r)} : r \in Repairs}

VARIABLES
  over,     \* the repairs of processes that are gone
  faults

vars == <<budgetVars, archiveVars, over, faults>>

Init == BudgetInit /\ ArchiveInit /\ over = {} /\ faults = 0

\* Mutant of Recorded: the repair does not wait for its record.
RecordedLater(r) == phase[Opening(r)] # "idle"

\* repairFailure() has archived the failure it is about to repair.
Recorded(r) == phase[Opening(r)] = "saved"

\* What one repair does next: archive its start, call the model, and archive
\* the call the model asks for, or how the repair ended if that could be saved.
Repair(r) ==
  \/ Submit(Opening(r)) /\ UNCHANGED budgetVars
  \/ Recorded(r) /\ CallStep(r) /\ UNCHANGED archiveVars
  \/ /\ call[r] = "done" \/ (call[r] = "refused" /\ ~broken)
     /\ Recorded(r) /\ Submit(Closing(r)) /\ UNCHANGED budgetVars

Request ==
  \/ \E r \in Repairs \ over : Repair(r)
  \/ \E c \in Looks : CallStep(c) /\ UNCHANGED archiveVars
  \/ \E t \in Trials : Submit(t) /\ UNCHANGED budgetVars

DiskStep ==
  \/ StoreStep /\ UNCHANGED archiveVars
  \/ (\E w \in Writes : WriteStep(w)) /\ UNCHANGED budgetVars

Fault ==
  /\ faults < MaxFaults /\ faults' = faults + 1
  /\ over' = {r \in Repairs : phase[Opening(r)] # "idle"}
  /\ \/ Crash /\ ArchiveCrash
     \/ PowerFailure /\ ArchivePowerFailure

Next == Fault \/ ((Request \/ DiskStep) /\ UNCHANGED <<over, faults>>)

Spec == Init /\ [][Next]_vars

-----------------------------------------------------------------------------

\* A model call of a repair that may be charged is never without the record
\* that says what was to be repaired, whatever fails (astra.ts:39, 50); where
\* directories are not synced, as long as the power does not fail.
ChargesAreOnRecord ==
  SyncsDirectories \/ ~outage => \A r \in Repairs : call[r] \in {"asking", "settling", "done", "unsettled"} =>
    Opening(r) \in Visible /\ content[Opening(r)] = "synced"
=============================================================================
