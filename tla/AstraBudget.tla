----------------------------- MODULE AstraBudget -----------------------------
(***************************************************************************)
(* The spending of the gateway on model calls (gateway/store.ts): a budget *)
(* in memory, saved to runtime/state.json by a chain of writes.  A call    *)
(* (gateway/observe.ts, repairFailure and probeAstra of gateway/astra.ts)  *)
(* reserves, waits for the reservation to be saved, asks the model, and    *)
(* settles.  The process may be killed anywhere and start again; a power   *)
(* failure may in addition undo the last rename, which nothing syncs.      *)
(***************************************************************************)
EXTENDS Integers, Sequences, FiniteSets

CONSTANTS
  Calls,      \* the model calls made over the lifetime of the state file
  Reserve,    \* what is set aside for one call ($3)
  Costs,      \* what a call can cost
  Limit       \* ASTRA_BUDGET_USD

ASSUME BudgetAssumption ==
  /\ IsFiniteSet(Calls)
  /\ Reserve \in Nat \ {0} /\ Limit \in Nat
  /\ Costs \subseteq 0..Reserve

VARIABLES
  budget,     \* spent and reserved, in memory
  file,       \* what state.json says of them
  former,     \* what it said before its last rename
  writing,    \* what the write at the head of the chain serialised, or None
  saves,      \* the calls whose saves are chained, in order
  broken,     \* a write has failed: every later save fails with it
  call,       \* the phase of each call
  bill,       \* the most the model's owner may charge for the calls made so far
  outage      \* the power has failed

storeVars == <<budget, file, former, writing, saves, broken>>
budgetVars == <<storeVars, call, bill, outage>>

None == [spent |-> -1, reserved |-> -1]
Amounts == [spent : Nat, reserved : Nat]
Total(b) == b.spent + b.reserved

CallPhases == {"idle", "reserving", "reserved", "asking", "settling", "done", "refused", "unsettled"}
In(phases) == {c \in Calls : call[c] \in phases}
To(c, phase) == call' = [call EXCEPT ![c] = phase]

Empty == [spent |-> 0, reserved |-> 0]

BudgetInit ==
  /\ budget = Empty /\ file = Empty /\ former = Empty
  /\ writing = None /\ saves = <<>> /\ broken = FALSE
  /\ call = [c \in Calls |-> "idle"] /\ bill = 0 /\ outage = FALSE

-----------------------------------------------------------------------------
(* saveStore(): one write after the other.                                 *)

\* The save of c joins the chain, or is rejected by a write that failed before.
Save(c, waiting, rejected) ==
  IF broken THEN To(c, rejected) /\ UNCHANGED saves
  ELSE To(c, waiting) /\ saves' = Append(saves, c)

\* The turn of a write comes: it serialises the budget as it is now.
Serialise ==
  /\ saves # <<>> /\ writing = None
  /\ writing' = budget
  /\ UNCHANGED <<budget, file, former, saves, broken, call, bill, outage>>

\* state.tmp is renamed over state.json, and the save resolves.
Rename ==
  /\ writing # None
  /\ file' = writing /\ former' = file /\ writing' = None
  /\ saves' = Tail(saves)
  /\ To(Head(saves), IF call[Head(saves)] = "reserving" THEN "reserved" ELSE "done")
  /\ UNCHANGED <<budget, broken, bill, outage>>

\* The write or the rename fails: this save and those chained behind it are
\* rejected.  The amounts in memory stay as they are.
WriteFails ==
  /\ writing # None
  /\ broken' = TRUE /\ writing' = None /\ saves' = <<>>
  /\ call' = [c \in Calls |-> CASE call[c] = "reserving" -> "refused"
                                [] call[c] = "settling" -> "unsettled"
                                [] OTHER -> call[c]]
  /\ UNCHANGED <<budget, file, former, bill, outage>>

-----------------------------------------------------------------------------
(* reserveCall(), the call, and settleCall().                              *)

Affordable == Total(budget) + Reserve <= Limit

ReserveCall(c) ==
  /\ call[c] = "idle" /\ Affordable
  /\ budget' = [spent |-> budget.spent, reserved |-> budget.reserved + Reserve]
  /\ Save(c, "reserving", "refused")
  /\ UNCHANGED <<file, former, writing, broken, bill, outage>>

\* The limit is reached; no further model call is made.
RefuseCall(c) ==
  /\ call[c] = "idle" /\ ~Affordable
  /\ To(c, "refused")
  /\ UNCHANGED <<storeVars, bill, outage>>

\* Mutant of MayAsk: the call is dispatched while its reservation is written.
MayAskEarly(c) == call[c] \in {"reserving", "reserved"}

MayAsk(c) == call[c] = "reserved"

\* The request leaves: from now on it may be charged.
Ask(c) ==
  /\ MayAsk(c)
  /\ To(c, "asking") /\ bill' = bill + Reserve
  /\ UNCHANGED <<storeVars, outage>>

Positive(n) == IF n > 0 THEN n ELSE 0

\* Mutant of Settled: a failed call keeps its reservation beside what it spent.
SettledTwice(paid, known) ==
  [spent |-> budget.spent + (IF known THEN paid ELSE Reserve),
   reserved |-> IF known THEN Positive(budget.reserved - Reserve) ELSE budget.reserved]

\* settleCall(): the usage, or all that was reserved when it is not known.
Settled(paid, known) ==
  [spent |-> budget.spent + (IF known THEN paid ELSE Reserve), reserved |-> Positive(budget.reserved - Reserve)]

\* The model answers, or refuses, at a known cost; or the call throws and what
\* it cost is not known.
Settle(c, paid, known) ==
  /\ call[c] = "asking"
  /\ budget' = Settled(paid, known)
  /\ bill' = IF known THEN bill - Reserve + paid ELSE bill
  /\ Save(c, "settling", "unsettled")
  /\ UNCHANGED <<file, former, writing, broken, outage>>

-----------------------------------------------------------------------------
(* initializeStore() of the next process.                                  *)

\* What was reserved when the process died counts as spent.
Restored(saved) == [spent |-> Total(saved), reserved |-> 0]

\* The process is gone, and starts again from what the file says.
Restart(saved) ==
  /\ budget' = Restored(saved) /\ file' = saved /\ former' = saved
  /\ writing' = None /\ saves' = <<>> /\ broken' = FALSE
  /\ call' = [c \in Calls |-> CASE call[c] \in {"reserving", "reserved"} -> "refused"
                                [] call[c] \in {"asking", "settling"} -> "unsettled"
                                [] OTHER -> call[c]]
  /\ UNCHANGED bill

Crash == Restart(file) /\ UNCHANGED outage

PowerFailure == (\E saved \in {file, former} : Restart(saved)) /\ outage' = TRUE

StoreStep == Serialise \/ Rename \/ WriteFails

CallStep(c) ==
  \/ ReserveCall(c) \/ RefuseCall(c) \/ Ask(c)
  \/ \E paid \in Costs : Settle(c, paid, TRUE)
  \/ Settle(c, 0, FALSE)

BudgetNext == StoreStep \/ Crash \/ (\E c \in Calls : CallStep(c))

BudgetSpec == BudgetInit /\ [][BudgetNext]_budgetVars

-----------------------------------------------------------------------------

\* Whatever may be charged is on disk, spent or reserved, so that a crash at any
\* point loses none of it (comment at store.ts:23), and stays within the limit,
\* however many calls are under way, whichever of them fail and however often the
\* process dies.
SpendingCovered == outage \/ (bill <= Total(file) /\ bill <= Limit)

\* An amount is held in reserve only for a call that is under way, unless the
\* state file can no longer be written: nothing else would ever release it.
NoReserveLost == broken \/ budget.reserved = Reserve * Cardinality(In({"reserving", "reserved", "asking"}))
=============================================================================
