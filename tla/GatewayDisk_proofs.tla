------------------------- MODULE GatewayDisk_proofs --------------------------
(***************************************************************************)
(* Proofs about the gateway's two files.  Spending: what may be charged is *)
(* never more than the file accounts for.  Archive: what can be read is    *)
(* whole, and the archive keeps the book.  Both together: what is charged  *)
(* to a repair is on record.                                               *)
(***************************************************************************)
EXTENDS GatewayDisk, FiniteSetTheorems, TLAPS

-----------------------------------------------------------------------------
(* Counting the calls of a phase.                                          *)

Where(f, p) == {c \in Calls : f[c] = p}

\* What is set aside for the calls in a phase.
Held(f, p) == Reserve * Cardinality(Where(f, p))

\* The calls in a phase can be counted.
LEMMA WhereFinite ==
  ASSUME NEW f, NEW p
  PROVE  IsFiniteSet(Where(f, p)) /\ Cardinality(Where(f, p)) \in Nat
<1>1. Where(f, p) \subseteq Calls BY DEF Where
<1>2. IsFiniteSet(Where(f, p)) BY <1>1, FS_Subset, BudgetAssumption
<1> QED BY <1>2, FS_CardinalityType

\* What is set aside for them is an amount.
LEMMA HeldNat == ASSUME NEW f, NEW p PROVE Held(f, p) \in Nat
<1>1. Cardinality(Where(f, p)) \in Nat BY WhereFinite
<1> QED BY <1>1, BudgetAssumption DEF Held

\* No call is in the phase: nothing is set aside.
LEMMA HeldNone == ASSUME NEW f, NEW p, \A c \in Calls : f[c] # p PROVE Held(f, p) = 0
<1>1. Where(f, p) = {} BY DEF Where
<1>2. Cardinality(Where(f, p)) = 0 BY <1>1, FS_EmptySet
<1> QED BY <1>2, BudgetAssumption DEF Held

\* The calls in a phase stay the same: so does what is set aside.
LEMMA HeldSame ==
  ASSUME NEW f, NEW g, NEW p, \A c \in Calls : f[c] = p <=> g[c] = p
  PROVE  Held(f, p) = Held(g, p)
BY DEF Held, Where

\* One call leaves a phase.
LEMMA HeldLess ==
  ASSUME NEW f \in [Calls -> CallPhases], NEW c \in Calls, NEW p \in CallPhases, f[c] # p
  PROVE  Held([f EXCEPT ![c] = p], f[c]) = Held(f, f[c]) - Reserve
<1> DEFINE g == [f EXCEPT ![c] = p]
           q == f[c]
<1>1. Where(g, q) = Where(f, q) \ {c} BY DEF Where
<1>2. c \in Where(f, q) BY DEF Where
<1>3. IsFiniteSet(Where(f, q)) /\ Cardinality(Where(f, q)) \in Nat BY WhereFinite
<1>4. Cardinality(Where(g, q)) = Cardinality(Where(f, q)) - 1 BY <1>1, <1>2, <1>3, FS_RemoveElement
<1> HIDE DEF g, q
<1>5. Held(g, q) = Held(f, q) - Reserve
  <2> DEFINE n == Cardinality(Where(f, q))
  <2>1. Held(g, q) = Reserve * (n - 1) /\ Held(f, q) = Reserve * n BY <1>4 DEF Held
  <2> HIDE DEF n
  <2>2. n \in Nat BY <1>3 DEF n
  <2>3. Reserve * (n - 1) = Reserve * n - Reserve BY <2>2, BudgetAssumption
  <2> QED BY <2>1, <2>3
<1> QED BY <1>5 DEF g, q

\* One call enters a phase.
LEMMA HeldMore ==
  ASSUME NEW f \in [Calls -> CallPhases], NEW c \in Calls, NEW p \in CallPhases, f[c] # p
  PROVE  Held([f EXCEPT ![c] = p], p) = Held(f, p) + Reserve
<1> DEFINE g == [f EXCEPT ![c] = p]
<1>1. Where(g, p) = Where(f, p) \cup {c} BY DEF Where
<1>2. c \notin Where(f, p) BY DEF Where
<1>3. IsFiniteSet(Where(f, p)) /\ Cardinality(Where(f, p)) \in Nat BY WhereFinite
<1>4. Cardinality(Where(g, p)) = Cardinality(Where(f, p)) + 1 BY <1>1, <1>2, <1>3, FS_AddElement
<1> HIDE DEF g
<1>5. Held(g, p) = Held(f, p) + Reserve
  <2> DEFINE n == Cardinality(Where(f, p))
  <2>1. Held(g, p) = Reserve * (n + 1) /\ Held(f, p) = Reserve * n BY <1>4 DEF Held
  <2> HIDE DEF n
  <2>2. n \in Nat BY <1>3 DEF n
  <2>3. Reserve * (n + 1) = Reserve * n + Reserve BY <2>2, BudgetAssumption
  <2> QED BY <2>1, <2>3
<1> QED BY <1>5 DEF g

\* The other phases are not concerned.
LEMMA HeldElse ==
  ASSUME NEW f \in [Calls -> CallPhases], NEW c \in Calls, NEW p \in CallPhases, NEW q, q # p, q # f[c]
  PROVE  Held([f EXCEPT ![c] = p], q) = Held(f, q)
<1> DEFINE g == [f EXCEPT ![c] = p]
<1>1. \A d \in Calls : g[d] = q <=> f[d] = q OBVIOUS
<1> HIDE DEF g
<1>2. Held(g, q) = Held(f, q) BY <1>1, HeldSame
<1> QED BY <1>2 DEF g

\* A call in a phase has its share.
LEMMA HeldLeast ==
  ASSUME NEW f, NEW c \in Calls
  PROVE  Held(f, f[c]) >= Reserve
<1> DEFINE n == Cardinality(Where(f, f[c]))
<1>1. c \in Where(f, f[c]) BY DEF Where
<1>2. n \in Nat /\ n # 0 BY <1>1, WhereFinite, FS_EmptySet
<1>3. Held(f, f[c]) = Reserve * n BY DEF Held
<1> HIDE DEF n
<1>4. Reserve * n >= Reserve BY <1>2, BudgetAssumption
<1> QED BY <1>3, <1>4

-----------------------------------------------------------------------------
(* The state file and its chain of writes.                                 *)

BudgetTypeOK ==
  /\ budget \in Amounts /\ file \in Amounts /\ former \in Amounts
  /\ writing # None => writing \in Amounts /\ saves # <<>>
  /\ saves \in Seq(Calls) /\ broken \in BOOLEAN
  /\ call \in [Calls -> CallPhases] /\ bill \in Int

\* A call that waits for its save is in the chain, once.
Chained ==
  \A i, j \in 1..Len(saves) :
    /\ call[saves[i]] \in {"reserving", "settling"}
    /\ saves[i] = saves[j] => i = j

BudgetBase == BudgetTypeOK /\ Chained

BudgetStep == BudgetNext \/ PowerFailure

\* At the start nothing is spent, reserved or chained.
LEMMA BaseStarts == BudgetInit => BudgetBase
<1> SUFFICES ASSUME BudgetInit PROVE BudgetBase OBVIOUS
<1>1. call \in [Calls -> CallPhases] BY DEF BudgetInit, CallPhases
<1>2. budget \in Amounts /\ file \in Amounts /\ former \in Amounts BY DEF BudgetInit, Empty, Amounts
<1>3. writing = None /\ bill \in Int BY DEF BudgetInit
<1>7. broken \in BOOLEAN BY Zenon DEF BudgetInit
<1>4. saves = <<>> BY DEF BudgetInit
<1>5. saves \in Seq(Calls) /\ Len(saves) = 0 BY <1>4
<1>6. Chained BY <1>5 DEF Chained
<1> QED BY <1>1, <1>2, <1>3, <1>5, <1>6, <1>7 DEF BudgetBase, BudgetTypeOK

\* A call joins the chain, or is rejected.
LEMMA SaveJoins ==
  ASSUME BudgetBase, NEW c \in Calls, call[c] \notin {"reserving", "settling"},
         NEW waiting \in {"reserving", "settling"}, NEW rejected \in CallPhases,
         Save(c, waiting, rejected)
  PROVE  /\ saves' \in Seq(Calls) /\ Chained'
         /\ saves # <<>> => saves' # <<>> /\ Head(saves') = Head(saves) /\ call'[Head(saves)] = call[Head(saves)]
         /\ call' \in [Calls -> CallPhases]
         /\ call' = [call EXCEPT ![c] = IF broken THEN rejected ELSE waiting]
<1>1. saves \in Seq(Calls) /\ call \in [Calls -> CallPhases] /\ waiting \in CallPhases
  BY DEF BudgetBase, BudgetTypeOK, CallPhases
<1>2. call' = [call EXCEPT ![c] = IF broken THEN rejected ELSE waiting] BY DEF Save, To
<1>3. call' \in [Calls -> CallPhases] BY <1>1, <1>2
<1>4. \A i, j \in 1..Len(saves) : saves[i] \in Calls /\ saves[i] # c
                                /\ call[saves[i]] \in {"reserving", "settling"} /\ (saves[i] = saves[j] => i = j)
  BY <1>1 DEF BudgetBase, Chained
<1>5. \A i \in 1..Len(saves) : call'[saves[i]] = call[saves[i]] BY <1>1, <1>2, <1>4
<1>6. saves # <<>> => call'[Head(saves)] = call[Head(saves)]
  <2>1. saves # <<>> => Head(saves) = saves[1] /\ 1 \in 1..Len(saves) BY <1>1
  <2> QED BY <2>1, <1>5
<1>7. CASE broken
  <2>1. saves' = saves BY <1>7 DEF Save
  <2>2. Chained' BY <2>1, <1>4, <1>5 DEF Chained
  <2> QED BY <1>1, <1>2, <1>3, <1>6, <2>1, <2>2
<1>8. CASE ~broken
  <2>1. saves' = Append(saves, c) BY <1>8 DEF Save
  <2>2. /\ saves' \in Seq(Calls) /\ Len(saves') = Len(saves) + 1 /\ Len(saves) \in Nat
        /\ saves'[Len(saves) + 1] = c /\ \A i \in 1..Len(saves) : saves'[i] = saves[i]
    BY <1>1, <2>1
  <2>3. call'[c] = waiting BY <1>1, <1>2, <1>8
  <2>4. Chained'
    <3> SUFFICES ASSUME NEW i \in 1..Len(saves'), NEW j \in 1..Len(saves')
                 PROVE  /\ call'[saves'[i]] \in {"reserving", "settling"}
                        /\ saves'[i] = saves'[j] => i = j
      BY DEF Chained
    <3>1. (i \in 1..Len(saves) \/ i = Len(saves) + 1) /\ (j \in 1..Len(saves) \/ j = Len(saves) + 1) BY <2>2
    <3> QED BY <3>1, <1>4, <1>5, <2>2, <2>3
  <2>5. saves # <<>> => saves' # <<>> /\ Head(saves') = Head(saves) BY <1>1, <2>1
  <2> QED BY <1>2, <1>3, <1>6, <2>2, <2>4, <2>5
<1> QED BY <1>7, <1>8

\* The head leaves the chain.
LEMMA HeadLeaves ==
  ASSUME BudgetBase, Rename
  PROVE  /\ Head(saves) \in Calls /\ call[Head(saves)] \in {"reserving", "settling"}
         /\ call' = [call EXCEPT ![Head(saves)] = IF call[Head(saves)] = "reserving" THEN "reserved" ELSE "done"]
         /\ call' \in [Calls -> CallPhases]
         /\ saves' \in Seq(Calls) /\ Chained'
<1>1. saves \in Seq(Calls) /\ saves # <<>> /\ call \in [Calls -> CallPhases]
  BY DEF BudgetBase, BudgetTypeOK, Rename
<1>2. /\ Head(saves) = saves[1] /\ 1 \in 1..Len(saves) /\ Head(saves) \in Calls /\ Len(saves) \in Nat
  BY <1>1
<1>3. call[Head(saves)] \in {"reserving", "settling"} BY <1>2 DEF BudgetBase, Chained
<1>4. call' = [call EXCEPT ![Head(saves)] = IF call[Head(saves)] = "reserving" THEN "reserved" ELSE "done"]
  BY DEF Rename, To
<1>5. call' \in [Calls -> CallPhases] BY <1>1, <1>2, <1>4 DEF CallPhases
<1>6. /\ saves' \in Seq(Calls) /\ Len(saves') = Len(saves) - 1
      /\ \A i \in 1..Len(saves') : saves'[i] = saves[i + 1]
  BY <1>1 DEF Rename
<1>7. Chained'
  <2> SUFFICES ASSUME NEW i \in 1..Len(saves'), NEW j \in 1..Len(saves')
               PROVE  /\ call'[saves'[i]] \in {"reserving", "settling"}
                      /\ saves'[i] = saves'[j] => i = j
    BY DEF Chained
  <2>1. i + 1 \in 1..Len(saves) /\ j + 1 \in 1..Len(saves) /\ i + 1 # 1 BY <1>2, <1>6
  <2>2. saves'[i] = saves[i + 1] /\ saves'[j] = saves[j + 1] BY <1>6
  <2>3. saves[i + 1] # saves[1] /\ (saves[i + 1] = saves[j + 1] => i + 1 = j + 1)
        /\ call[saves[i + 1]] \in {"reserving", "settling"}
    BY <1>2, <2>1 DEF BudgetBase, Chained
  <2>4. call'[saves[i + 1]] = call[saves[i + 1]]
    <3>1. saves[i + 1] \in Calls BY <1>1, <2>1
    <3> QED BY <3>1, <1>1, <1>2, <1>4, <2>3
  <2> QED BY <2>2, <2>3, <2>4, <2>1
<1> QED BY <1>2, <1>3, <1>4, <1>5, <1>6, <1>7

\* The chain is empty after a write that failed, and in a new process.
LEMMA EmptyChain == saves' = <<>> => saves' \in Seq(Calls) /\ Chained'
<1> SUFFICES ASSUME saves' = <<>> PROVE saves' \in Seq(Calls) /\ Chained' OBVIOUS
<1>1. saves' \in Seq(Calls) /\ Len(saves') = 0 OBVIOUS
<1> QED BY <1>1 DEF Chained

\* The next process starts with what a file says.
LEMMA RestartBase == ASSUME NEW saved \in {file, former} PROVE BudgetBase /\ Restart(saved) => BudgetBase'
<1> SUFFICES ASSUME BudgetBase, Restart(saved) PROVE BudgetBase' OBVIOUS
<1>1. saved \in Amounts BY DEF BudgetBase, BudgetTypeOK
<1>2. budget' \in Amounts BY <1>1 DEF Restart, Restored, Total, Amounts
<1>3. call' \in [Calls -> CallPhases]
  <2>1. \A c \in Calls : call'[c] \in CallPhases BY DEF Restart, BudgetBase, BudgetTypeOK, CallPhases
  <2> QED BY <2>1 DEF Restart
<1>4. saves' \in Seq(Calls) /\ Chained' BY EmptyChain DEF Restart
<1>5. broken' = FALSE /\ writing' = None /\ file' = saved /\ former' = saved /\ bill' = bill BY DEF Restart
<1> QED BY <1>1, <1>2, <1>3, <1>4, <1>5 DEF BudgetBase, BudgetTypeOK

\* Amounts are amounts, and the chain holds those who wait for it.
LEMMA BaseStep == BudgetBase /\ BudgetStep => BudgetBase'
<1> SUFFICES ASSUME BudgetBase, BudgetStep PROVE BudgetBase' OBVIOUS
<1>t. BudgetTypeOK BY DEF BudgetBase
<1>1. CASE Serialise
  <2>1. Chained' BY <1>1 DEF BudgetBase, Chained, Serialise
  <2> QED BY <1>1, <1>t, <2>1 DEF BudgetBase, BudgetTypeOK, Serialise
<1>2. CASE Rename
  <2>1. call' \in [Calls -> CallPhases] /\ saves' \in Seq(Calls) /\ Chained' BY <1>2, HeadLeaves
  <2> QED BY <1>2, <1>t, <2>1 DEF BudgetBase, BudgetTypeOK, Rename
<1>3. CASE WriteFails
  <2>1. \A c \in Calls : call'[c] \in CallPhases BY <1>3, <1>t DEF WriteFails, BudgetTypeOK, CallPhases
  <2>2. call' \in [Calls -> CallPhases] BY <1>3, <2>1 DEF WriteFails
  <2>3. saves' \in Seq(Calls) /\ Chained' BY <1>3, EmptyChain DEF WriteFails
  <2> QED BY <1>3, <1>t, <2>2, <2>3 DEF BudgetBase, BudgetTypeOK, WriteFails
<1>4. ASSUME NEW c \in Calls, ReserveCall(c) PROVE BudgetBase'
  <2>1. Save(c, "reserving", "refused") /\ call[c] = "idle" BY <1>4 DEF ReserveCall
  <2>2. saves' \in Seq(Calls) /\ Chained' /\ call' \in [Calls -> CallPhases] /\ (saves # <<>> => saves' # <<>>)
    BY <2>1, SaveJoins DEF CallPhases
  <2>3. budget' \in Amounts BY <1>4, <1>t, BudgetAssumption DEF ReserveCall, BudgetTypeOK, Amounts
  <2> QED BY <1>4, <1>t, <2>2, <2>3 DEF BudgetBase, BudgetTypeOK, ReserveCall
<1>5. ASSUME NEW c \in Calls, RefuseCall(c) \/ Ask(c) PROVE BudgetBase'
  <2>1. saves' = saves /\ call[c] \notin {"reserving", "settling"} /\ \E p \in {"refused", "asking"} : To(c, p)
    BY <1>5 DEF RefuseCall, Ask, MayAsk, storeVars
  <2>2. call' \in [Calls -> CallPhases] BY <2>1, <1>t DEF To, BudgetTypeOK, CallPhases
  <2>3. Chained'
    <3>1. \A i \in 1..Len(saves) : saves[i] \in Calls BY <1>t DEF BudgetTypeOK
    <3>2. \A i \in 1..Len(saves) : call'[saves[i]] = call[saves[i]]
      BY <2>1, <3>1, <1>t DEF To, BudgetTypeOK, BudgetBase, Chained
    <3> QED BY <2>1, <3>2 DEF BudgetBase, Chained
  <2>4. bill' \in Int BY <1>5, <1>t, BudgetAssumption DEF RefuseCall, Ask, BudgetTypeOK
  <2> QED BY <1>5, <1>t, <2>1, <2>2, <2>3, <2>4 DEF BudgetBase, BudgetTypeOK, RefuseCall, Ask, storeVars
<1>6. ASSUME NEW c \in Calls, NEW paid \in Costs \cup {0}, NEW known \in BOOLEAN, Settle(c, paid, known)
      PROVE  BudgetBase'
  <2>1. Save(c, "settling", "unsettled") /\ call[c] = "asking" BY <1>6 DEF Settle
  <2>2. saves' \in Seq(Calls) /\ Chained' /\ call' \in [Calls -> CallPhases] /\ (saves # <<>> => saves' # <<>>)
    BY <2>1, SaveJoins DEF CallPhases
  <2>3. paid \in Nat BY BudgetAssumption
  <2>4. budget' \in Amounts
    BY <1>6, <1>t, <2>3, BudgetAssumption DEF Settle, Settled, Positive, BudgetTypeOK, Amounts
  <2>5. bill' \in Int BY <1>6, <1>t, <2>3, BudgetAssumption DEF Settle, BudgetTypeOK
  <2> QED BY <1>6, <1>t, <2>2, <2>4, <2>5 DEF BudgetBase, BudgetTypeOK, Settle
<1>7. CASE Crash \/ PowerFailure
  <2>1. PICK saved \in {file, former} : Restart(saved) BY <1>7 DEF Crash, PowerFailure
  <2> QED BY <2>1, RestartBase
<1> QED BY <1>1, <1>2, <1>3, <1>4, <1>5, <1>6, <1>7 DEF BudgetStep, BudgetNext, StoreStep, CallStep

-----------------------------------------------------------------------------
(* What may be charged.                                                    *)

\* What the call at the head of the chain waits for.
HeadHeld == IF call[Head(saves)] = "reserving" THEN Reserve ELSE 0

\* In memory, being written and on disk there is enough for the calls that were
\* made and for those that may be made at once, and never more than the limit.
Covered ==
  /\ Total(budget) >= bill + Held(call, "reserving") + Held(call, "reserved")
  /\ budget.reserved >= Held(call, "reserving") + Held(call, "reserved") + Held(call, "asking")
  /\ Total(budget) <= Limit
  /\ writing # None => Total(writing) >= bill + Held(call, "reserved") + HeadHeld /\ Total(writing) <= Limit
  /\ Total(file) >= bill + Held(call, "reserved") /\ Total(file) <= Limit

\* The amounts that are compared.
LEMMA Integral ==
  ASSUME BudgetBase
  PROVE  /\ \A p : Held(call, p) \in Nat
         /\ budget.reserved \in Nat /\ budget.spent \in Nat
         /\ Total(budget) \in Nat /\ Total(file) \in Nat /\ (writing # None => Total(writing) \in Nat)
         /\ Reserve \in Nat /\ Limit \in Nat /\ bill \in Int /\ HeadHeld \in Nat
BY HeldNat, BudgetAssumption DEF BudgetBase, BudgetTypeOK, Amounts, Total, HeadHeld

\* Nothing may be charged yet.
LEMMA CoverStarts == BudgetInit => Covered
<1> SUFFICES ASSUME BudgetInit PROVE Covered OBVIOUS
<1>1. \A p \in {"reserving", "reserved", "asking"} : Held(call, p) = 0
  <2> TAKE p \in {"reserving", "reserved", "asking"}
  <2>1. \A c \in Calls : call[c] # p BY DEF BudgetInit
  <2> QED BY <2>1, HeldNone
<1> QED BY <1>1, BudgetAssumption DEF BudgetInit, Covered, Empty, Total

\* The head of the chain has its share of what is set aside.
LEMMA HeadShare == BudgetBase /\ saves # <<>> => HeadHeld <= Held(call, "reserving")
<1> SUFFICES ASSUME BudgetBase, saves # <<>> PROVE HeadHeld <= Held(call, "reserving") OBVIOUS
<1>1. Head(saves) \in Calls BY DEF BudgetBase, BudgetTypeOK
<1>2. CASE call[Head(saves)] = "reserving" BY <1>1, <1>2, HeldLeast, BudgetAssumption DEF HeadHeld
<1>3. CASE call[Head(saves)] # "reserving" BY <1>3, HeldNat DEF HeadHeld
<1> QED BY <1>2, <1>3

\* What the steps do to what is set aside.  The head goes on:
LEMMA RenameHeld ==
  ASSUME BudgetBase, Rename
  PROVE  /\ Held(call', "reserved") = Held(call, "reserved") + HeadHeld
         /\ Held(call', "reserving") = Held(call, "reserving") - HeadHeld
         /\ Held(call', "asking") = Held(call, "asking")
<1> DEFINE c == Head(saves)
<1>t. call \in [Calls -> CallPhases] BY DEF BudgetBase, BudgetTypeOK
<1>1. c \in Calls /\ call[c] \in {"reserving", "settling"} BY HeadLeaves
<1>2. call' = [call EXCEPT ![c] = IF call[c] = "reserving" THEN "reserved" ELSE "done"] BY HeadLeaves
<1> HIDE DEF c
<1>3. CASE call[c] = "reserving"
  <2>1. call' = [call EXCEPT ![c] = "reserved"] /\ "reserved" \in CallPhases BY <1>2, <1>3 DEF CallPhases
  <2>2. Held(call', "reserved") = Held(call, "reserved") + Reserve BY <1>t, <1>1, <1>3, <2>1, HeldMore
  <2>3. Held(call', "reserving") = Held(call, "reserving") - Reserve BY <1>t, <1>1, <1>3, <2>1, HeldLess
  <2>4. Held(call', "asking") = Held(call, "asking") BY <1>t, <1>1, <1>3, <2>1, HeldElse
  <2>5. HeadHeld = Reserve BY <1>3 DEF HeadHeld, c
  <2> QED BY <2>2, <2>3, <2>4, <2>5
<1>4. CASE call[c] = "settling"
  <2>1. call' = [call EXCEPT ![c] = "done"] /\ "done" \in CallPhases BY <1>2, <1>4 DEF CallPhases
  <2>2. \A q \in {"reserving", "reserved", "asking"} : Held(call', q) = Held(call, q)
    BY <1>t, <1>1, <1>4, <2>1, HeldElse
  <2>3. HeadHeld = 0 BY <1>4 DEF HeadHeld, c
  <2> QED BY <2>2, <2>3, Integral
<1> QED BY <1>1, <1>3, <1>4

\* Calls whose saves are rejected give up what they had, or were charged before.
LEMMA WriteFailsHeld ==
  ASSUME BudgetBase, WriteFails
  PROVE  /\ Held(call', "reserving") = 0
         /\ Held(call', "reserved") = Held(call, "reserved") /\ Held(call', "asking") = Held(call, "asking")
<1>1. \A c \in Calls : call'[c] # "reserving" BY DEF WriteFails
<1>2. \A c \in Calls : call'[c] = "reserved" <=> call[c] = "reserved" BY DEF WriteFails
<1>3. \A c \in Calls : call'[c] = "asking" <=> call[c] = "asking" BY DEF WriteFails
<1>4. Held(call', "reserved") = Held(call, "reserved") /\ Held(call', "asking") = Held(call, "asking")
  BY <1>2, <1>3, HeldSame
<1> QED BY <1>1, <1>4, HeldNone

\* A call that reserves:
LEMMA ReserveHeld ==
  ASSUME BudgetBase, NEW c \in Calls, ReserveCall(c)
  PROVE  /\ Held(call', "reserving") = Held(call, "reserving") + (IF broken THEN 0 ELSE Reserve)
         /\ Held(call', "reserved") = Held(call, "reserved") /\ Held(call', "asking") = Held(call, "asking")
         /\ writing # None => HeadHeld' = HeadHeld
<1>t. call \in [Calls -> CallPhases] /\ (writing # None => saves # <<>>) BY DEF BudgetBase, BudgetTypeOK
<1>1. Save(c, "reserving", "refused") /\ call[c] = "idle" BY DEF ReserveCall
<1>2. /\ call' = [call EXCEPT ![c] = IF broken THEN "refused" ELSE "reserving"]
      /\ saves # <<>> => Head(saves') = Head(saves) /\ call'[Head(saves)] = call[Head(saves)]
  BY <1>1, SaveJoins DEF CallPhases
<1>3. CASE broken
  <2>1. call' = [call EXCEPT ![c] = "refused"] /\ "refused" \in CallPhases BY <1>2, <1>3 DEF CallPhases
  <2>2. \A q \in {"reserving", "reserved", "asking"} : Held(call', q) = Held(call, q)
    BY <1>t, <1>1, <2>1, HeldElse
  <2> QED BY <1>t, <1>2, <1>3, <2>2, Integral DEF HeadHeld
<1>4. CASE ~broken
  <2>1. call' = [call EXCEPT ![c] = "reserving"] /\ "reserving" \in CallPhases BY <1>2, <1>4 DEF CallPhases
  <2>2. \A q \in {"reserved", "asking"} : Held(call', q) = Held(call, q) BY <1>t, <1>1, <2>1, HeldElse
  <2>3. Held(call', "reserving") = Held(call, "reserving") + Reserve BY <1>t, <1>1, <2>1, HeldMore
  <2> QED BY <1>t, <1>2, <1>4, <2>2, <2>3 DEF HeadHeld
<1> QED BY <1>3, <1>4

\* A call that is refused, or is made:
LEMMA AskHeld ==
  ASSUME BudgetBase, NEW c \in Calls, RefuseCall(c) \/ Ask(c)
  PROVE  LET moved == IF call[c] = "reserved" THEN Reserve ELSE 0 IN
         /\ Held(call', "reserving") = Held(call, "reserving")
         /\ Held(call', "reserved") = Held(call, "reserved") - moved
         /\ Held(call', "asking") = Held(call, "asking") + moved
         /\ bill' = bill + moved
         /\ budget' = budget /\ file' = file /\ writing' = writing /\ broken' = broken
         /\ writing # None => HeadHeld' = HeadHeld
<1>t. call \in [Calls -> CallPhases] BY DEF BudgetBase, BudgetTypeOK
<1>1. budget' = budget /\ file' = file /\ writing' = writing /\ broken' = broken /\ saves' = saves
  BY DEF RefuseCall, Ask, storeVars
<1>2. \/ call[c] = "idle" /\ call' = [call EXCEPT ![c] = "refused"] /\ bill' = bill
      \/ call[c] = "reserved" /\ call' = [call EXCEPT ![c] = "asking"] /\ bill' = bill + Reserve
  BY DEF RefuseCall, Ask, MayAsk, To
<1>3. writing # None => HeadHeld' = HeadHeld
  <2>1. writing # None => Head(saves) \in Calls BY DEF BudgetBase, BudgetTypeOK
  <2> QED BY <1>t, <1>1, <1>2, <2>1 DEF HeadHeld
<1>4. CASE call[c] = "idle"
  <2>1. call' = [call EXCEPT ![c] = "refused"] /\ "refused" \in CallPhases BY <1>2, <1>4 DEF CallPhases
  <2>2. \A q \in {"reserving", "reserved", "asking"} : Held(call', q) = Held(call, q)
    BY <1>t, <1>4, <2>1, HeldElse
  <2> QED BY <1>1, <1>2, <1>3, <1>4, <2>2, Integral
<1>5. CASE call[c] = "reserved"
  <2>1. call' = [call EXCEPT ![c] = "asking"] /\ "asking" \in CallPhases BY <1>2, <1>5 DEF CallPhases
  <2>2. Held(call', "asking") = Held(call, "asking") + Reserve BY <1>t, <1>5, <2>1, HeldMore
  <2>3. Held(call', "reserved") = Held(call, "reserved") - Reserve BY <1>t, <1>5, <2>1, HeldLess
  <2>4. Held(call', "reserving") = Held(call, "reserving") BY <1>t, <1>5, <2>1, HeldElse
  <2> QED BY <1>1, <1>2, <1>3, <1>5, <2>2, <2>3, <2>4
<1> QED BY <1>2, <1>4, <1>5

\* A call that settles:
LEMMA SettleHeld ==
  ASSUME BudgetBase, NEW c \in Calls, NEW paid, NEW known, Settle(c, paid, known)
  PROVE  /\ Held(call', "asking") = Held(call, "asking") - Reserve
         /\ Held(call', "reserving") = Held(call, "reserving") /\ Held(call', "reserved") = Held(call, "reserved")
         /\ writing # None => HeadHeld' = HeadHeld
<1>t. call \in [Calls -> CallPhases] /\ (writing # None => saves # <<>>) BY DEF BudgetBase, BudgetTypeOK
<1>1. Save(c, "settling", "unsettled") /\ call[c] = "asking" BY DEF Settle
<1>2. /\ call' = [call EXCEPT ![c] = IF broken THEN "unsettled" ELSE "settling"]
      /\ saves # <<>> => Head(saves') = Head(saves) /\ call'[Head(saves)] = call[Head(saves)]
  BY <1>1, SaveJoins DEF CallPhases
<1>3. PICK p \in {"unsettled", "settling"} : call' = [call EXCEPT ![c] = p] BY <1>2
<1>4. p \in CallPhases BY DEF CallPhases
<1>5. Held(call', "asking") = Held(call, "asking") - Reserve BY <1>t, <1>1, <1>3, <1>4, HeldLess
<1>6. Held(call', "reserving") = Held(call, "reserving") /\ Held(call', "reserved") = Held(call, "reserved")
  BY <1>t, <1>1, <1>3, <1>4, HeldElse
<1> QED BY <1>t, <1>2, <1>5, <1>6 DEF HeadHeld

\* A new process has nothing set aside.
LEMMA RestartHeld ==
  ASSUME NEW saved, Restart(saved)
  PROVE  \A p \in {"reserving", "reserved", "asking"} : Held(call', p) = 0
<1> TAKE p \in {"reserving", "reserved", "asking"}
<1>1. \A c \in Calls : call'[c] # p BY DEF Restart
<1> QED BY <1>1, HeldNone

\* Each step keeps what may be charged covered.
LEMMA CoverStep == BudgetBase /\ Covered /\ BudgetNext => Covered'
<1> SUFFICES ASSUME BudgetBase, Covered, BudgetNext PROVE Covered' OBVIOUS
<1>n. \A p : Held(call', p) \in Nat BY HeldNat
<1>1. CASE Serialise
  <2>1. HeadHeld <= Held(call, "reserving") BY <1>1, HeadShare DEF Serialise
  <2>2. /\ writing' = budget /\ budget' = budget /\ file' = file /\ bill' = bill
        /\ \A p : Held(call', p) = Held(call, p)
        /\ HeadHeld' = HeadHeld
    BY <1>1 DEF Serialise, HeadHeld
  <2>3. Total(budget) >= bill + Held(call, "reserved") + HeadHeld BY <2>1, Integral DEF Covered
  <2> QED BY <2>2, <2>3 DEF Covered
<1>2. CASE Rename
  <2>1. /\ Total(file') = Total(writing) /\ writing # None /\ writing' = None
        /\ budget' = budget /\ bill' = bill
    BY <1>2 DEF Rename
  <2> QED BY <1>2, <1>n, <2>1, RenameHeld, Integral DEF Covered
<1>3. CASE WriteFails
  <2>1. budget' = budget /\ bill' = bill /\ file' = file /\ writing' = None BY <1>3 DEF WriteFails
  <2> QED BY <1>3, <2>1, WriteFailsHeld, Integral DEF Covered
<1>4. ASSUME NEW c \in Calls, ReserveCall(c) PROVE Covered'
  <2>1. budget'.reserved = budget.reserved + Reserve /\ Total(budget') = Total(budget) + Reserve
    BY <1>4, Integral DEF ReserveCall, Total
  <2>2. bill' = bill /\ file' = file /\ writing' = writing /\ Affordable BY <1>4 DEF ReserveCall
  <2>3. Held(call', "reserving") <= Held(call, "reserving") + Reserve BY <1>4, ReserveHeld, Integral
  <2>4. /\ Held(call', "reserved") = Held(call, "reserved") /\ Held(call', "asking") = Held(call, "asking")
        /\ writing # None => HeadHeld' = HeadHeld
    BY <1>4, ReserveHeld
  <2> QED BY <1>n, <2>1, <2>2, <2>3, <2>4, Integral DEF Covered, Affordable
<1>5. ASSUME NEW c \in Calls, RefuseCall(c) \/ Ask(c) PROVE Covered'
  <2> DEFINE moved == IF call[c] = "reserved" THEN Reserve ELSE 0
  <2>1. /\ Held(call', "reserving") = Held(call, "reserving")
        /\ Held(call', "reserved") = Held(call, "reserved") - moved
        /\ Held(call', "asking") = Held(call, "asking") + moved
        /\ bill' = bill + moved
        /\ budget' = budget /\ file' = file /\ writing' = writing
        /\ writing # None => HeadHeld' = HeadHeld
    BY <1>5, AskHeld
  <2>2. moved \in Nat BY Integral
  <2> HIDE DEF moved
  <2> QED BY <1>n, <2>1, <2>2, Integral DEF Covered
<1>6. ASSUME NEW c \in Calls, NEW paid \in Costs \cup {0}, NEW known \in BOOLEAN, Settle(c, paid, known)
      PROVE  Covered'
  <2> DEFINE cost == IF known THEN paid ELSE Reserve
  <2>1. paid \in Nat /\ paid <= Reserve /\ cost \in Nat /\ cost <= Reserve BY BudgetAssumption
  <2>2. budget.reserved >= Reserve BY <1>6, <1>n, SettleHeld, Integral DEF Covered
  <2>3. /\ budget'.reserved = budget.reserved - Reserve
        /\ Total(budget') = Total(budget) - Reserve + cost
    BY <1>6, <2>1, <2>2, Integral DEF Settle, Settled, Positive, Total
  <2>4. bill' = bill - Reserve + cost /\ file' = file /\ writing' = writing BY <1>6, Integral DEF Settle
  <2> HIDE DEF cost
  <2> QED BY <1>6, <1>n, <2>1, <2>3, <2>4, SettleHeld, Integral DEF Covered
<1>7. CASE Crash
  <2>1. /\ Total(budget') = Total(file) /\ budget'.reserved = 0 /\ file' = file /\ writing' = None /\ bill' = bill
    BY <1>7, Integral DEF Crash, Restart, Restored, Total
  <2>2. \A p \in {"reserving", "reserved", "asking"} : Held(call', p) = 0 BY <1>7, RestartHeld DEF Crash
  <2> QED BY <2>1, <2>2, Integral DEF Covered
<1> QED BY <1>1, <1>2, <1>3, <1>4, <1>5, <1>6, <1>7 DEF BudgetNext, StoreStep, CallStep

-----------------------------------------------------------------------------
(* What is set aside.                                                      *)

Released ==
  broken \/ budget.reserved = Held(call, "reserving") + Held(call, "reserved") + Held(call, "asking")

\* Nothing is set aside at the start.
LEMMA ReleaseStarts == BudgetInit => Released
<1> SUFFICES ASSUME BudgetInit PROVE Released OBVIOUS
<1>1. \A p \in {"reserving", "reserved", "asking"} : Held(call, p) = 0
  <2> TAKE p \in {"reserving", "reserved", "asking"}
  <2>1. \A c \in Calls : call[c] # p BY DEF BudgetInit
  <2> QED BY <2>1, HeldNone
<1>2. budget.reserved = 0 BY DEF BudgetInit, Empty
<1> QED BY <1>1, <1>2 DEF Released

\* Each step sets aside, and gives back, what belongs to a call.
LEMMA ReleaseStep == BudgetBase /\ Released /\ BudgetStep => Released'
<1> SUFFICES ASSUME BudgetBase, Released, BudgetStep PROVE Released' OBVIOUS
<1>n. \A p : Held(call', p) \in Nat BY HeldNat
<1>1. CASE Serialise BY <1>1 DEF Serialise, Released
<1>2. CASE Rename
  <2>1. budget' = budget /\ broken' = broken BY <1>2 DEF Rename
  <2> QED BY <1>2, <2>1, RenameHeld, Integral DEF Released
<1>3. CASE WriteFails BY <1>3 DEF WriteFails, Released
<1>4. ASSUME NEW c \in Calls, ReserveCall(c) PROVE Released'
  <2>1. budget'.reserved = budget.reserved + Reserve /\ broken' = broken BY <1>4 DEF ReserveCall
  <2> QED BY <1>4, <2>1, ReserveHeld, Integral DEF Released
<1>5. ASSUME NEW c \in Calls, RefuseCall(c) \/ Ask(c) PROVE Released'
  <2> DEFINE moved == IF call[c] = "reserved" THEN Reserve ELSE 0
  <2>1. /\ Held(call', "reserving") = Held(call, "reserving")
        /\ Held(call', "reserved") = Held(call, "reserved") - moved
        /\ Held(call', "asking") = Held(call, "asking") + moved
        /\ budget' = budget /\ broken' = broken
    BY <1>5, AskHeld
  <2>2. moved \in Nat BY Integral
  <2> HIDE DEF moved
  <2> QED BY <2>1, <2>2, Integral DEF Released
<1>6. ASSUME NEW c \in Calls, NEW paid, NEW known, Settle(c, paid, known) PROVE Released'
  <2>1. broken' = broken BY <1>6 DEF Settle
  <2>2. ~broken => budget.reserved >= Reserve BY <1>6, <1>n, SettleHeld, Integral DEF Released
  <2>3. ~broken => budget'.reserved = budget.reserved - Reserve
    BY <1>6, <2>2, Integral DEF Settle, Settled, Positive
  <2> QED BY <1>6, <2>1, <2>3, SettleHeld, Integral DEF Released
<1>7. CASE Crash \/ PowerFailure
  <2>1. PICK saved \in {file, former} : Restart(saved) BY <1>7 DEF Crash, PowerFailure
  <2>2. \A p \in {"reserving", "reserved", "asking"} : Held(call', p) = 0 BY <2>1, RestartHeld
  <2>3. budget'.reserved = 0 BY <2>1 DEF Restart, Restored
  <2> QED BY <2>2, <2>3 DEF Released
<1> QED BY <1>1, <1>2, <1>3, <1>4, <1>5, <1>6, <1>7 DEF BudgetStep, BudgetNext, StoreStep, CallStep

\* What is set aside for three phases together.
LEMMA HeldTogether ==
  Reserve * Cardinality(In({"reserving", "reserved", "asking"}))
    = Held(call, "reserving") + Held(call, "reserved") + Held(call, "asking")
<1> DEFINE a == Where(call, "reserving")
           b == Where(call, "reserved")
           d == Where(call, "asking")
<1>1. IsFiniteSet(a) /\ IsFiniteSet(b) /\ IsFiniteSet(d) BY WhereFinite
<1>2. Cardinality(a) \in Nat /\ Cardinality(b) \in Nat /\ Cardinality(d) \in Nat BY WhereFinite
<1>3. In({"reserving", "reserved", "asking"}) = (a \cup b) \cup d BY DEF In, Where
<1>4. a \cap b = {} /\ (a \cup b) \cap d = {} BY DEF Where
<1>5. Held(call, "reserving") = Reserve * Cardinality(a) /\ Held(call, "reserved") = Reserve * Cardinality(b)
      /\ Held(call, "asking") = Reserve * Cardinality(d)
  BY DEF Held
<1> HIDE DEF a, b, d
<1>6. IsFiniteSet(a \cup b) /\ Cardinality(a \cup b) = Cardinality(a) + Cardinality(b)
  <2>1. Cardinality(a \cap b) = 0 BY <1>4, FS_EmptySet
  <2>2. /\ IsFiniteSet(a \cup b)
        /\ Cardinality(a \cup b) = Cardinality(a) + Cardinality(b) - Cardinality(a \cap b)
    BY <1>1, FS_Union
  <2> QED BY <1>2, <2>1, <2>2
<1>7. Cardinality((a \cup b) \cup d) = Cardinality(a) + Cardinality(b) + Cardinality(d)
  <2>1. Cardinality((a \cup b) \cap d) = 0 BY <1>4, FS_EmptySet
  <2>2. Cardinality((a \cup b) \cup d) = Cardinality(a \cup b) + Cardinality(d) - Cardinality((a \cup b) \cap d)
    BY <1>1, <1>6, FS_Union
  <2> QED BY <1>2, <1>6, <2>1, <2>2
<1> DEFINE k == Cardinality(a)
           m == Cardinality(b)
           n == Cardinality(d)
<1>8. k \in Nat /\ m \in Nat /\ n \in Nat BY <1>2
<1> HIDE DEF k, m, n
<1>9. Reserve * (k + m + n) = Reserve * k + Reserve * m + Reserve * n BY <1>8, BudgetAssumption
<1> QED BY <1>3, <1>5, <1>7, <1>9 DEF k, m, n

-----------------------------------------------------------------------------
(* The archive.                                                            *)

ArchiveTypeOK ==
  /\ entry \in [Writes -> Entries] /\ content \in [Writes -> Contents]
  /\ fast \subseteq Writes /\ queue \in Seq(Writes)
  /\ phase \in [Writes -> WritePhases]

\* The chain holds the writes that are not over, each once, and works on its head.
Lined ==
  /\ \A i, j \in 1..Len(queue) :
       /\ phase[queue[i]] \in {"queued"} \cup AtWork
       /\ queue[i] = queue[j] => i = j
  /\ \A w \in Writes : phase[w] \in AtWork => queue # <<>> /\ w = Head(queue)

\* How far a write is says what there is of its record.
Progress ==
  \A w \in Writes :
    /\ phase[w] \in {"idle", "queued", "admitted", "opened", "flushed"} => entry[w] # "record"
    /\ phase[w] \in {"admitted", "opened", "flushed"} => Fits(Visible, w)
    /\ phase[w] = "flushed" => content[w] = "synced"
    /\ phase[w] \in {"published", "finished"} => entry[w] = "record"
    /\ SyncsDirectories /\ phase[w] \in {"finished", "saved"} => w \in fast
    /\ entry[w] = "record" => content[w] = "synced"
    /\ w \in fast => entry[w] = "record"

ArchiveInv == ArchiveTypeOK /\ Lined /\ Progress

\* The archive is empty.
LEMMA ArchiveStarts == ArchiveInit => ArchiveInv
<1> SUFFICES ASSUME ArchiveInit PROVE ArchiveInv OBVIOUS
<1>1. entry \in [Writes -> Entries] /\ content \in [Writes -> Contents] BY DEF ArchiveInit, Entries, Contents
<1>2. phase \in [Writes -> WritePhases] BY DEF ArchiveInit, WritePhases
<1>3. queue = <<>> /\ fast = {} BY DEF ArchiveInit
<1>4. queue \in Seq(Writes) /\ Len(queue) = 0 BY <1>3
<1>5. Lined BY <1>4 DEF ArchiveInit, Lined, AtWork
<1>6. Progress BY DEF ArchiveInit, Progress
<1> QED BY <1>1, <1>2, <1>3, <1>4, <1>5, <1>6 DEF ArchiveInv, ArchiveTypeOK

\* A write joins the chain.
LEMMA SubmitKeeps == ASSUME NEW w \in Writes PROVE ArchiveInv /\ Submit(w) => ArchiveInv'
<1> SUFFICES ASSUME ArchiveInv, Submit(w) PROVE ArchiveInv' OBVIOUS
<1>t. queue \in Seq(Writes) /\ phase \in [Writes -> WritePhases] /\ phase[w] = "idle"
  BY DEF ArchiveInv, ArchiveTypeOK, Submit
<1>1. /\ queue' = Append(queue, w) /\ phase' = [phase EXCEPT ![w] = "queued"]
      /\ entry' = entry /\ content' = content /\ fast' = fast
  BY DEF Submit, files
<1>2. phase' \in [Writes -> WritePhases] BY <1>t, <1>1 DEF WritePhases
<1>3. /\ queue' \in Seq(Writes) /\ Len(queue') = Len(queue) + 1 /\ Len(queue) \in Nat
      /\ queue'[Len(queue) + 1] = w /\ \A i \in 1..Len(queue) : queue'[i] = queue[i] /\ queue[i] \in Writes
  BY <1>t, <1>1
<1>4. queue # <<>> => queue' # <<>> /\ Head(queue') = Head(queue) BY <1>t, <1>1
<1>5. \A i, j \in 1..Len(queue) : phase[queue[i]] \in {"queued"} \cup AtWork /\ (queue[i] = queue[j] => i = j)
  BY DEF ArchiveInv, Lined
<1>6. \A i \in 1..Len(queue) : queue[i] # w BY <1>t, <1>5 DEF AtWork
<1>7. Lined'
  <2>1. ASSUME NEW i \in 1..Len(queue'), NEW j \in 1..Len(queue')
        PROVE  /\ phase'[queue'[i]] \in {"queued"} \cup AtWork
               /\ queue'[i] = queue'[j] => i = j
    <3>1. (i \in 1..Len(queue) \/ i = Len(queue) + 1) /\ (j \in 1..Len(queue) \/ j = Len(queue) + 1) BY <1>3
    <3> QED BY <3>1, <1>t, <1>1, <1>3, <1>5, <1>6
  <2>2. \A v \in Writes : phase'[v] \in AtWork => queue' # <<>> /\ v = Head(queue')
    BY <1>t, <1>1, <1>4 DEF ArchiveInv, Lined, AtWork
  <2> QED BY <2>1, <2>2 DEF Lined
<1>8. Visible' = Visible BY <1>1 DEF Visible
<1>9. Progress' BY <1>t, <1>1, <1>8 DEF ArchiveInv, Progress, Fits
<1> QED BY <1>1, <1>2, <1>3, <1>7, <1>9 DEF ArchiveInv, ArchiveTypeOK

\* The head goes on without leaving the chain.
LEMMA AdvanceLines ==
  ASSUME ArchiveInv, NEW w \in Writes, NEW from, NEW to \in AtWork, Advance(w, from, to), queue' = queue
  PROVE  /\ Lined' /\ phase' \in [Writes -> WritePhases]
         /\ phase' = [phase EXCEPT ![w] = to] /\ phase[w] = from
         /\ \A v \in Writes : v # w => phase[v] \notin AtWork
<1>t. queue \in Seq(Writes) /\ phase \in [Writes -> WritePhases] /\ queue # <<>> /\ w = Head(queue)
  BY DEF ArchiveInv, ArchiveTypeOK, Advance
<1>1. phase' = [phase EXCEPT ![w] = to] /\ phase[w] = from BY DEF Advance
<1>2. phase' \in [Writes -> WritePhases] BY <1>t, <1>1 DEF WritePhases
<1>3. \A v \in Writes : v # w => phase[v] \notin AtWork BY <1>t DEF ArchiveInv, Lined
<1>4. \A i \in 1..Len(queue) : queue[i] \in Writes BY <1>t
<1>5. \A i, j \in 1..Len(queue) : phase[queue[i]] \in {"queued"} \cup AtWork /\ (queue[i] = queue[j] => i = j)
  BY DEF ArchiveInv, Lined
<1>6. \A i \in 1..Len(queue) : phase'[queue[i]] \in {"queued"} \cup AtWork BY <1>t, <1>1, <1>4, <1>5
<1>7. \A v \in Writes : phase'[v] \in AtWork => v = w BY <1>t, <1>1, <1>3
<1>8. Lined' BY <1>t, <1>5, <1>6, <1>7 DEF Lined
<1> QED BY <1>1, <1>2, <1>3, <1>8

\* A step at the head of the chain that leaves the record as visible as it was.
LEMMA QuietAdvance ==
  ASSUME ArchiveInv, NEW w \in Writes, NEW from, NEW to \in AtWork, Advance(w, from, to), queue' = queue,
         entry' \in [Writes -> Entries], content' \in [Writes -> Contents], fast' \subseteq Writes,
         \A v \in Writes : (entry'[v] = "record") <=> (entry[v] = "record"),
         \A v \in Writes : v # w => content'[v] = content[v],
         \A v \in Writes : v \in fast => v \in fast',
         \A v \in Writes : v \in fast' => entry'[v] = "record",
         /\ to \in {"admitted", "opened", "flushed"} => entry[w] # "record" /\ Fits(Visible, w)
         /\ to = "flushed" => content'[w] = "synced"
         /\ to \in {"published", "finished"} => entry[w] = "record"
         /\ SyncsDirectories /\ to = "finished" => w \in fast'
         /\ entry[w] = "record" => content'[w] = "synced"
  PROVE  ArchiveInv'
<1>1. /\ Lined' /\ phase' \in [Writes -> WritePhases]
      /\ phase' = [phase EXCEPT ![w] = to] /\ phase[w] = from
  BY AdvanceLines
<1>2. Visible' = Visible BY DEF Visible
<1>3. Progress'
  <2> SUFFICES ASSUME NEW v \in Writes
               PROVE  /\ phase'[v] \in {"idle", "queued", "admitted", "opened", "flushed"} => entry'[v] # "record"
                      /\ phase'[v] \in {"admitted", "opened", "flushed"} => Fits(Visible, v)
                      /\ phase'[v] = "flushed" => content'[v] = "synced"
                      /\ phase'[v] \in {"published", "finished"} => entry'[v] = "record"
                      /\ SyncsDirectories /\ phase'[v] \in {"finished", "saved"} => v \in fast'
                      /\ entry'[v] = "record" => content'[v] = "synced"
                      /\ v \in fast' => entry'[v] = "record"
    BY <1>2 DEF Progress, Fits
  <2>t. phase \in [Writes -> WritePhases] BY DEF ArchiveInv, ArchiveTypeOK
  <2>1. CASE v = w BY <2>t, <2>1, <1>1 DEF AtWork
  <2>2. CASE v # w
    <3>1. phase'[v] = phase[v] /\ content'[v] = content[v] BY <2>t, <2>2, <1>1
    <3> QED BY <3>1, <2>2 DEF ArchiveInv, Progress
  <2> QED BY <2>1, <2>2
<1> QED BY <1>1, <1>3 DEF ArchiveInv, ArchiveTypeOK

\* The head leaves the chain, saved or failed; the record is as visible as it was.
LEMMA HeadEnds ==
  ASSUME ArchiveInv, NEW w \in Writes, NEW to \in {"saved", "failed"}, queue # <<>>, w = Head(queue),
         phase' = [phase EXCEPT ![w] = to], queue' = Tail(queue), to = "saved" => phase[w] = "finished",
         entry' \in [Writes -> Entries], content' = content, fast' = fast,
         \A v \in Writes : (entry'[v] = "record") <=> (entry[v] = "record")
  PROVE  ArchiveInv'
<1>t. queue \in Seq(Writes) /\ phase \in [Writes -> WritePhases] BY DEF ArchiveInv, ArchiveTypeOK
<1>1. phase' \in [Writes -> WritePhases] BY <1>t DEF WritePhases
<1>2. /\ queue' \in Seq(Writes) /\ Len(queue') = Len(queue) - 1 /\ Len(queue) \in Nat /\ w = queue[1]
      /\ 1 \in 1..Len(queue)
      /\ \A i \in 1..Len(queue') : queue'[i] = queue[i + 1]
      /\ \A i \in 1..Len(queue) : queue[i] \in Writes
  BY <1>t
<1>3. \A v \in Writes : v # w => phase[v] \notin AtWork BY DEF ArchiveInv, Lined
<1>4. \A v \in Writes : phase'[v] \notin AtWork BY <1>t, <1>3 DEF AtWork
<1>5. \A i, j \in 1..Len(queue) : phase[queue[i]] \in {"queued"} \cup AtWork /\ (queue[i] = queue[j] => i = j)
  BY DEF ArchiveInv, Lined
<1>6. Lined'
  <2>1. ASSUME NEW i \in 1..Len(queue'), NEW j \in 1..Len(queue')
        PROVE  /\ phase'[queue'[i]] \in {"queued"} \cup AtWork
               /\ queue'[i] = queue'[j] => i = j
    <3>1. i + 1 \in 1..Len(queue) /\ j + 1 \in 1..Len(queue) /\ i + 1 # 1 BY <1>2
    <3>2. queue'[i] = queue[i + 1] /\ queue'[j] = queue[j + 1] BY <1>2
    <3>3. queue[i + 1] # w /\ queue[i + 1] \in Writes BY <1>2, <1>5, <3>1
    <3>4. phase'[queue[i + 1]] = phase[queue[i + 1]] BY <1>t, <3>3
    <3> QED BY <1>5, <3>1, <3>2, <3>4
  <2> QED BY <1>4, <2>1 DEF Lined
<1>7. Visible' = Visible BY DEF Visible
<1>8. Progress'
  <2> SUFFICES ASSUME NEW v \in Writes
               PROVE  /\ phase'[v] \in {"idle", "queued", "admitted", "opened", "flushed"} => entry'[v] # "record"
                      /\ phase'[v] \in {"admitted", "opened", "flushed"} => Fits(Visible, v)
                      /\ phase'[v] = "flushed" => content'[v] = "synced"
                      /\ phase'[v] \in {"published", "finished"} => entry'[v] = "record"
                      /\ SyncsDirectories /\ phase'[v] \in {"finished", "saved"} => v \in fast'
                      /\ entry'[v] = "record" => content'[v] = "synced"
                      /\ v \in fast' => entry'[v] = "record"
    BY <1>7 DEF Progress, Fits
  <2>1. CASE v = w BY <1>t, <2>1 DEF ArchiveInv, Progress
  <2>2. CASE v # w
    <3>1. phase'[v] = phase[v] BY <1>t, <2>2
    <3> QED BY <3>1 DEF ArchiveInv, Progress
  <2> QED BY <2>1, <2>2
<1> QED BY <1>1, <1>2, <1>6, <1>8 DEF ArchiveInv, ArchiveTypeOK

\* What a write that fails leaves behind.
LEMMA FailShape ==
  ASSUME ArchiveInv, NEW w \in Writes, Fail(w)
  PROVE  /\ queue # <<>> /\ w = Head(queue) /\ phase[w] \in ({"queued"} \cup AtWork) \ {"finished"}
         /\ phase' = [phase EXCEPT ![w] = "failed"] /\ queue' = Tail(queue)
         /\ entry' \in [Writes -> Entries] /\ content' = content /\ fast' = fast
         /\ \A v \in Writes : (entry'[v] = "record") <=> (entry[v] = "record")
<1>t. /\ queue \in Seq(Writes) /\ phase \in [Writes -> WritePhases] /\ entry \in [Writes -> Entries]
      /\ queue # <<>> /\ w = Head(queue)
  BY DEF ArchiveInv, ArchiveTypeOK, Fail
<1>1. phase[w] \in ({"queued"} \cup AtWork) \ {"finished"}
  <2>1. w = queue[1] /\ 1 \in 1..Len(queue) BY <1>t
  <2> QED BY <2>1 DEF ArchiveInv, Lined, Fail
<1>2. phase' = [phase EXCEPT ![w] = "failed"] BY <1>t DEF Fail
<1>3. /\ entry' \in [Writes -> Entries]
      /\ \A v \in Writes : (entry'[v] = "record") <=> (entry[v] = "record")
  <2>1. CASE entry[w] = "temporary" /\ entry' = [entry EXCEPT ![w] = "none"] BY <1>t, <2>1 DEF Entries
  <2>2. CASE entry' = entry BY <1>t, <2>2
  <2> QED BY <2>1, <2>2 DEF Fail
<1> QED BY <1>t, <1>1, <1>2, <1>3 DEF Fail

\* A record is renamed into place: it is whole, and nobody else is at work.
LEMMA PublishKeeps ==
  ASSUME ArchiveInv, NEW w \in Writes, Publish(w)
  PROVE  ArchiveInv' /\ w \notin Visible /\ Fits(Visible, w) /\ Visible' = Visible \cup {w}
<1> DEFINE to == IF SyncsDirectories THEN "published" ELSE "finished"
<1>t. /\ phase \in [Writes -> WritePhases] /\ entry \in [Writes -> Entries] /\ queue' = queue
      /\ entry' = [entry EXCEPT ![w] = "record"] /\ content' = content /\ fast' = fast
  BY DEF ArchiveInv, ArchiveTypeOK, Publish
<1>1. /\ Lined' /\ phase' \in [Writes -> WritePhases]
      /\ phase' = [phase EXCEPT ![w] = to] /\ phase[w] = "flushed"
      /\ \A v \in Writes : v # w => phase[v] \notin AtWork
  BY <1>t, AdvanceLines DEF Publish, AtWork
<1>2. w \notin Visible /\ Fits(Visible, w) /\ content[w] = "synced" BY <1>1 DEF ArchiveInv, Progress, Visible
<1>3. Visible' = Visible \cup {w} BY <1>t DEF Visible
<1>4. entry' \in [Writes -> Entries] BY <1>t DEF Entries
<1>5. Progress'
  <2> SUFFICES ASSUME NEW v \in Writes
               PROVE  /\ phase'[v] \in {"idle", "queued", "admitted", "opened", "flushed"} => entry'[v] # "record"
                      /\ phase'[v] \notin {"admitted", "opened", "flushed"}
                      /\ phase'[v] \in {"published", "finished"} => entry'[v] = "record"
                      /\ SyncsDirectories /\ phase'[v] \in {"finished", "saved"} => v \in fast'
                      /\ entry'[v] = "record" => content'[v] = "synced"
                      /\ v \in fast' => entry'[v] = "record"
    BY DEF Progress
  <2>1. CASE v = w BY <1>t, <1>1, <1>2, <2>1 DEF ArchiveInv, Progress
  <2>2. CASE v # w
    <3>1. phase'[v] = phase[v] /\ entry'[v] = entry[v] /\ phase[v] \notin AtWork BY <1>t, <1>1, <2>2
    <3> QED BY <1>t, <3>1 DEF ArchiveInv, Progress, AtWork
  <2> QED BY <2>1, <2>2
<1> QED BY <1>t, <1>1, <1>2, <1>3, <1>4, <1>5 DEF ArchiveInv, ArchiveTypeOK

\* Nobody is at work in a new process.
LEMMA Forgets ==
  ASSUME ArchiveInv, Forget
  PROVE  /\ queue' \in Seq(Writes) /\ Lined' /\ phase' \in [Writes -> WritePhases]
         /\ \A w \in Writes : phase'[w] \in {"idle", "saved", "failed", "lost"}
         /\ \A w \in Writes : phase'[w] # "lost" => phase'[w] = phase[w]
         /\ \A w \in Writes : phase[w] = "saved" => phase'[w] = "saved"
<1>t. phase \in [Writes -> WritePhases] BY DEF ArchiveInv, ArchiveTypeOK
<1>1. queue' = <<>> /\ phase' = [w \in Writes |-> IF phase[w] \in {"queued"} \cup AtWork THEN "lost" ELSE phase[w]]
  BY DEF Forget
<1>2. \A w \in Writes : /\ phase'[w] \in {"idle", "saved", "failed", "lost"}
                        /\ phase'[w] # "lost" => phase'[w] = phase[w]
                        /\ phase[w] = "saved" => phase'[w] = "saved"
  BY <1>t, <1>1 DEF WritePhases, AtWork
<1>3. phase' \in [Writes -> WritePhases] BY <1>1, <1>2 DEF WritePhases
<1>4. queue' \in Seq(Writes) /\ Len(queue') = 0 BY <1>1
<1>5. Lined' BY <1>2, <1>4 DEF Lined, AtWork
<1> QED BY <1>2, <1>3, <1>4, <1>5

\* The process dies.
LEMMA ArchiveCrashKeeps == ArchiveInv /\ ArchiveCrash => ArchiveInv' /\ Visible' = Visible
<1> SUFFICES ASSUME ArchiveInv, ArchiveCrash PROVE ArchiveInv' /\ Visible' = Visible OBVIOUS
<1>t. entry' = entry /\ content' = content /\ fast' = fast /\ Forget BY DEF ArchiveCrash, files
<1>1. Visible' = Visible BY <1>t DEF Visible
<1>2. Progress' BY <1>t, Forgets DEF ArchiveInv, Progress
<1> QED BY <1>t, <1>1, <1>2, Forgets DEF ArchiveInv, ArchiveTypeOK

\* The power fails: a record whose name was not on disk is gone, the others stay.
LEMMA ArchivePowerKeeps ==
  ASSUME ArchiveInv, ArchivePowerFailure
  PROVE  /\ ArchiveInv' /\ fast' = Visible'
         /\ \E lost \in SUBSET (Visible \ fast) : Visible' = Visible \ lost
<1>t. /\ phase \in [Writes -> WritePhases] /\ entry \in [Writes -> Entries] /\ content \in [Writes -> Contents]
      /\ fast \subseteq Writes
  BY DEF ArchiveInv, ArchiveTypeOK
<1>1. PICK lost \in SUBSET (Visible \ fast) :
        /\ entry' = [w \in Writes |-> IF w \in lost THEN "temporary" ELSE entry[w]]
        /\ fast' = Visible \ lost
  BY DEF ArchivePowerFailure
<1>2. content' = [w \in Writes |-> IF content[w] = "written" THEN "partial" ELSE content[w]]
  BY DEF ArchivePowerFailure
<1>3. Visible' = Visible \ lost BY <1>1 DEF Visible
<1>4. entry' \in [Writes -> Entries] /\ content' \in [Writes -> Contents] /\ fast' \subseteq Writes
  <2>1. \A w \in Writes : entry'[w] \in Entries /\ content'[w] \in Contents BY <1>t, <1>1, <1>2 DEF Entries, Contents
  <2> QED BY <1>1, <1>2, <2>1 DEF Visible
<1>5. /\ queue' \in Seq(Writes) /\ Lined' /\ phase' \in [Writes -> WritePhases]
      /\ \A w \in Writes : phase'[w] \in {"idle", "saved", "failed", "lost"}
      /\ \A w \in Writes : phase'[w] # "lost" => phase'[w] = phase[w]
  BY Forgets DEF ArchivePowerFailure
<1>6. Progress'
  <2> SUFFICES ASSUME NEW v \in Writes
               PROVE  /\ phase'[v] = "idle" => entry'[v] # "record"
                      /\ SyncsDirectories /\ phase'[v] = "saved" => v \in fast'
                      /\ entry'[v] = "record" => content'[v] = "synced"
                      /\ v \in fast' => entry'[v] = "record"
    BY <1>5 DEF Progress
  <2>1. entry'[v] = "record" => entry[v] = "record" /\ v \notin lost BY <1>1
  <2>2. v \in fast' => entry'[v] = "record" BY <1>1 DEF Visible
  <2>3. entry'[v] = "record" => content'[v] = "synced" BY <1>2, <2>1 DEF ArchiveInv, Progress
  <2>4. SyncsDirectories /\ phase'[v] = "saved" => v \in fast'
    <3>1. SyncsDirectories /\ phase'[v] = "saved" => v \in fast /\ entry[v] = "record" BY <1>5 DEF ArchiveInv, Progress
    <3> QED BY <1>1, <3>1 DEF Visible
  <2>5. phase'[v] = "idle" => entry'[v] # "record" BY <1>5, <2>1 DEF ArchiveInv, Progress
  <2> QED BY <2>2, <2>3, <2>4, <2>5
<1>7. fast' = Visible' BY <1>1, <1>3
<1> QED BY <1>3, <1>4, <1>5, <1>6, <1>7 DEF ArchiveInv, ArchiveTypeOK

\* What the steps of a write do to the book, and that they keep the invariant.
LEMMA WriteKeeps ==
  ASSUME ArchiveInv, NEW w \in Writes, Submit(w) \/ WriteStep(w)
  PROVE  /\ ArchiveInv'
         /\ Publish(w) \/ Visible' = Visible
         /\ SyncDirectory(w) \/ fast' = fast
         /\ Acknowledge(w) \/ Saved' = Saved
         /\ \A v \in Writes : phase[v] = "saved" => phase'[v] = "saved"
<1>t. /\ phase \in [Writes -> WritePhases] /\ entry \in [Writes -> Entries] /\ content \in [Writes -> Contents]
      /\ fast \subseteq Writes /\ (\A v \in fast : entry[v] = "record")
  BY DEF ArchiveInv, ArchiveTypeOK, Progress
<1>1. CASE Submit(w)
  <2>1. phase' = [phase EXCEPT ![w] = "queued"] /\ phase[w] = "idle" /\ entry' = entry /\ fast' = fast
    BY <1>1 DEF Submit, files
  <2> QED BY <1>t, <1>1, <2>1, SubmitKeeps DEF Visible, Saved
<1>2. CASE Admit(w)
  <2>1. /\ Advance(w, "queued", "admitted") /\ queue' = queue /\ Fits(Visible, w)
        /\ entry' = entry /\ content' = content /\ fast' = fast /\ phase[w] = "queued"
        /\ phase' = [phase EXCEPT ![w] = "admitted"]
    BY <1>2 DEF Admit, Advance, files
  <2>2. entry[w] # "record" BY <2>1 DEF ArchiveInv, Progress
  <2>3. ArchiveInv' BY <1>t, <2>1, <2>2, QuietAdvance DEF AtWork
  <2> QED BY <1>t, <2>1, <2>3 DEF Visible, Saved
<1>3. CASE Open(w)
  <2>1. /\ Advance(w, "admitted", "opened") /\ queue' = queue /\ fast' = fast /\ phase[w] = "admitted"
        /\ entry' = [entry EXCEPT ![w] = "temporary"] /\ content' = [content EXCEPT ![w] = "partial"]
        /\ phase' = [phase EXCEPT ![w] = "opened"]
    BY <1>3 DEF Open, Advance
  <2>2. entry[w] # "record" /\ Fits(Visible, w) BY <2>1 DEF ArchiveInv, Progress
  <2>3. entry' \in [Writes -> Entries] /\ content' \in [Writes -> Contents] BY <1>t, <2>1 DEF Entries, Contents
  <2>4. \A v \in Writes : (entry'[v] = "record") <=> (entry[v] = "record") BY <1>t, <2>1, <2>2
  <2>5. ArchiveInv' BY <1>t, <2>1, <2>2, <2>3, <2>4, QuietAdvance DEF AtWork
  <2> QED BY <1>t, <2>1, <2>4, <2>5 DEF Visible, Saved
<1>4. CASE Flush(w)
  <2>1. /\ Advance(w, "opened", "flushed") /\ queue' = queue /\ fast' = fast /\ phase[w] = "opened"
        /\ entry' = entry /\ content' = [content EXCEPT ![w] = "synced"]
        /\ phase' = [phase EXCEPT ![w] = "flushed"]
    BY <1>4 DEF Flush, Flushed, Advance
  <2>2. entry[w] # "record" /\ Fits(Visible, w) BY <2>1 DEF ArchiveInv, Progress
  <2>3. content' \in [Writes -> Contents] BY <1>t, <2>1 DEF Contents
  <2>4. ArchiveInv' BY <1>t, <2>1, <2>2, <2>3, QuietAdvance DEF AtWork
  <2> QED BY <1>t, <2>1, <2>4 DEF Visible, Saved
<1>5. CASE Publish(w)
  <2>1. /\ phase' = [phase EXCEPT ![w] = IF SyncsDirectories THEN "published" ELSE "finished"]
        /\ phase[w] = "flushed" /\ fast' = fast
    BY <1>5 DEF Publish, Advance
  <2> QED BY <1>t, <1>5, <2>1, PublishKeeps DEF Saved
<1>6. CASE SyncDirectory(w)
  <2>1. /\ Advance(w, "published", "finished") /\ queue' = queue /\ fast' = Visible /\ phase[w] = "published"
        /\ entry' = entry /\ content' = content
        /\ phase' = [phase EXCEPT ![w] = "finished"]
    BY <1>6 DEF SyncDirectory, SyncsDirectory, Advance
  <2>2. entry[w] = "record" /\ content[w] = "synced" BY <2>1 DEF ArchiveInv, Progress
  <2>3. ArchiveInv' BY <1>t, <2>1, <2>2, QuietAdvance DEF AtWork, Visible
  <2> QED BY <1>t, <1>6, <2>1, <2>3 DEF Visible, Saved
<1>7. CASE Acknowledge(w)
  <2>1. /\ queue # <<>> /\ w = Head(queue) /\ phase[w] = "finished" /\ queue' = Tail(queue)
        /\ entry' = entry /\ content' = content /\ fast' = fast
        /\ phase' = [phase EXCEPT ![w] = "saved"]
    BY <1>7 DEF Acknowledge, Advance, files
  <2>2. ArchiveInv' BY <1>t, <2>1, HeadEnds
  <2> QED BY <1>t, <1>7, <2>1, <2>2 DEF Visible, Saved
<1>8. CASE Fail(w)
  <2>1. /\ queue # <<>> /\ w = Head(queue) /\ phase[w] \in ({"queued"} \cup AtWork) \ {"finished"}
        /\ phase' = [phase EXCEPT ![w] = "failed"] /\ queue' = Tail(queue)
        /\ entry' \in [Writes -> Entries] /\ content' = content /\ fast' = fast
        /\ \A v \in Writes : (entry'[v] = "record") <=> (entry[v] = "record")
    BY <1>8, FailShape
  <2>2. ArchiveInv' BY <2>1, HeadEnds
  <2>3. phase[w] # "saved" BY <2>1 DEF AtWork
  <2> QED BY <1>t, <2>1, <2>2, <2>3 DEF Visible, Saved
<1> QED BY <1>1, <1>2, <1>3, <1>4, <1>5, <1>6, <1>7, <1>8 DEF WriteStep

\* Every step of the archive is one of the book, or none.
LEMMA BookStep ==
  ASSUME ArchiveInv, ArchiveNext
  PROVE  [Book!BookNext]_<<Visible, fast, Saved>>
<1>1. ASSUME NEW w \in Writes, Submit(w) \/ WriteStep(w)
      PROVE  [Book!BookNext]_<<Visible, fast, Saved>>
  <2>1. CASE Publish(w)
    <3>1. w \notin Visible /\ Fits(Visible, w) /\ Visible' = Visible \cup {w} BY <2>1, PublishKeeps
    <3>2. fast' = fast /\ Saved' = Saved
      BY <2>1 DEF Publish, Advance, Saved, ArchiveInv, ArchiveTypeOK
    <3>3. Book!Enter(w) BY <3>1, <3>2 DEF Book!Enter
    <3> QED BY <3>3 DEF Book!BookNext
  <2>2. CASE SyncDirectory(w)
    <3>1. fast' = Visible /\ Visible' = Visible /\ Saved' = Saved
      BY <2>2 DEF SyncDirectory, SyncsDirectory, Advance, Visible, Saved, ArchiveInv, ArchiveTypeOK
    <3>2. Book!Fasten BY <3>1 DEF Book!Fasten
    <3> QED BY <3>2 DEF Book!BookNext
  <2>3. CASE Acknowledge(w)
    <3>1. /\ phase \in [Writes -> WritePhases] /\ phase' = [phase EXCEPT ![w] = "saved"] /\ phase[w] = "finished"
          /\ Visible' = Visible /\ fast' = fast
      BY <2>3 DEF Acknowledge, Advance, files, Visible, ArchiveInv, ArchiveTypeOK
    <3>2. w \in Visible /\ (SyncsDirectories => w \in fast) BY <3>1 DEF ArchiveInv, Progress, Visible
    <3>3. Saved' = Saved \cup {w} BY <3>1 DEF Saved
    <3>4. Book!Acknowledge(w) BY <3>1, <3>2, <3>3 DEF Book!Acknowledge
    <3> QED BY <3>4 DEF Book!BookNext
  <2>4. CASE ~Publish(w) /\ ~SyncDirectory(w) /\ ~Acknowledge(w) BY <1>1, <2>4, WriteKeeps
  <2> QED BY <2>1, <2>2, <2>3, <2>4
<1>2. CASE ArchiveCrash
  <2>1. Visible' = Visible /\ fast' = fast BY <1>2, ArchiveCrashKeeps DEF ArchiveCrash, files
  <2>2. Saved' = Saved BY <1>2, Forgets DEF Saved, ArchiveCrash
  <2> QED BY <2>1, <2>2
<1>3. CASE ArchivePowerFailure
  <2>1. PICK lost \in SUBSET (Visible \ fast) : Visible' = Visible \ lost BY <1>3, ArchivePowerKeeps
  <2>2. fast' = Visible' BY <1>3, ArchivePowerKeeps
  <2>3. Saved' = Saved BY <1>3, Forgets DEF Saved, ArchivePowerFailure
  <2>4. Book!Lose(lost) BY <2>1, <2>2, <2>3 DEF Book!Lose
  <2>5. lost \in SUBSET Writes BY DEF Visible
  <2> QED BY <2>4, <2>5 DEF Book!BookNext
<1> QED BY <1>1, <1>2, <1>3 DEF ArchiveNext

-----------------------------------------------------------------------------
(* Both files together.                                                    *)

\* A record that was acknowledged can be read: only a power failure takes one
\* away, and only where directories are not synced.
SavedShown == SyncsDirectories \/ ~outage => Saved \subseteq Visible

\* A repair makes no call before its record is saved.
OnRecord == \A r \in Repairs : call[r] # "idle" => phase[Opening(r)] = "saved"

DiskInv ==
  /\ BudgetBase /\ Released /\ (outage \/ Covered)
  /\ ArchiveInv /\ SavedShown /\ OnRecord

\* A step of the process is one of each file's, or none of it.
LEMMA DiskSteps ==
  [Next]_vars => /\ BudgetNext \/ PowerFailure \/ UNCHANGED budgetVars
                 /\ ArchiveNext \/ UNCHANGED archiveVars
<1> SUFFICES ASSUME [Next]_vars
             PROVE  /\ BudgetNext \/ PowerFailure \/ UNCHANGED budgetVars
                    /\ ArchiveNext \/ UNCHANGED archiveVars
  OBVIOUS
<1>1. CASE Fault BY <1>1 DEF Fault, BudgetNext, ArchiveNext
<1>2. CASE Request
  <2>1. ASSUME NEW r \in Repairs, Repair(r)
        PROVE  (BudgetNext \/ UNCHANGED budgetVars) /\ (ArchiveNext \/ UNCHANGED archiveVars)
    <3>1. r \in Calls /\ Opening(r) \in Writes /\ Closing(r) \in Writes BY DiskAssumption
    <3> QED BY <2>1, <3>1 DEF Repair, BudgetNext, ArchiveNext
  <2>2. ASSUME NEW c \in Looks, CallStep(c) /\ UNCHANGED archiveVars PROVE BudgetNext /\ UNCHANGED archiveVars
    BY <2>2 DEF BudgetNext, Looks
  <2>3. ASSUME NEW t \in Trials, Submit(t) /\ UNCHANGED budgetVars PROVE ArchiveNext /\ UNCHANGED budgetVars
    BY <2>3 DEF ArchiveNext, Trials
  <2> QED BY <1>2, <2>1, <2>2, <2>3 DEF Request
<1>3. CASE DiskStep BY <1>3 DEF DiskStep, BudgetNext, ArchiveNext
<1>4. CASE UNCHANGED vars BY <1>4 DEF vars
<1> QED BY <1>1, <1>2, <1>3, <1>4 DEF Next

\* Saved records stay saved.
LEMMA SavedStays ==
  ASSUME ArchiveInv, ArchiveNext \/ UNCHANGED archiveVars, NEW w \in Writes, phase[w] = "saved"
  PROVE  phase'[w] = "saved"
<1>1. ASSUME NEW v \in Writes, Submit(v) \/ WriteStep(v) PROVE phase'[w] = "saved" BY <1>1, WriteKeeps
<1>2. CASE ArchiveCrash \/ ArchivePowerFailure BY <1>2, Forgets DEF ArchiveCrash, ArchivePowerFailure
<1>3. CASE UNCHANGED archiveVars BY <1>3 DEF archiveVars
<1> QED BY <1>1, <1>2, <1>3 DEF ArchiveNext

\* A step of a call is a step of no other.
LEMMA CallAlone ==
  ASSUME BudgetBase, NEW c \in Calls, CallStep(c), NEW d \in Calls, d # c
  PROVE  call'[d] = call[d]
<1>t. call \in [Calls -> CallPhases] BY DEF BudgetBase, BudgetTypeOK
<1>1. PICK p : call' = [call EXCEPT ![c] = p]
  BY DEF CallStep, ReserveCall, RefuseCall, Ask, Settle, Save, To
<1> QED BY <1>t, <1>1

\* The chain and a crash make no call of an idle one.
LEMMA IdleStays ==
  ASSUME BudgetBase, StoreStep \/ Crash \/ PowerFailure, NEW c \in Calls, call[c] = "idle"
  PROVE  call'[c] = "idle"
<1>t. call \in [Calls -> CallPhases] BY DEF BudgetBase, BudgetTypeOK
<1>1. CASE Serialise BY <1>1 DEF Serialise
<1>2. CASE Rename
  <2>1. call[Head(saves)] # "idle" BY <1>2, HeadLeaves
  <2>2. PICK p : call' = [call EXCEPT ![Head(saves)] = p] BY <1>2, HeadLeaves
  <2> QED BY <1>t, <2>1, <2>2
<1>3. CASE WriteFails BY <1>3 DEF WriteFails
<1>4. CASE Crash \/ PowerFailure
  <2>1. PICK saved \in {file, former} : Restart(saved) BY <1>4 DEF Crash, PowerFailure
  <2> QED BY <2>1 DEF Restart
<1> QED BY <1>1, <1>2, <1>3, <1>4 DEF StoreStep

\* Calls of repairs stay on record.
LEMMA OnRecordStep == DiskInv /\ [Next]_vars => OnRecord'
<1> SUFFICES ASSUME DiskInv, [Next]_vars, NEW r \in Repairs, call'[r] # "idle"
             PROVE  phase'[Opening(r)] = "saved"
  BY DEF OnRecord
<1>t. r \in Calls /\ Opening(r) \in Writes BY DiskAssumption
<1>1. phase[Opening(r)] = "saved" => phase'[Opening(r)] = "saved" BY <1>t, DiskSteps, SavedStays DEF DiskInv
<1>2. call[r] # "idle" => phase'[Opening(r)] = "saved" BY <1>1 DEF DiskInv, OnRecord
<1>3. CASE call[r] = "idle"
  <2>1. ~(StoreStep \/ Crash \/ PowerFailure) BY <1>t, <1>3, IdleStays DEF DiskInv
  <2>2. call' # call BY <1>3
  <2>3. call' # call => ~UNCHANGED budgetVars BY DEF budgetVars
  <2>4. PICK c \in Calls : CallStep(c) /\ (c \in Repairs => Recorded(c))
    BY <2>1, <2>2, <2>3, DiskAssumption
    DEF Next, vars, Fault, Request, DiskStep, Repair, Looks
  <2>5. c = r BY <1>t, <1>3, <2>4, CallAlone DEF DiskInv
  <2> QED BY <1>1, <2>4, <2>5 DEF Recorded
<1> QED BY <1>2, <1>3

\* A step of the chain leaves what was acknowledged where it can be read.
LEMMA ShownStays ==
  ASSUME ArchiveInv, Saved \subseteq Visible, NEW w \in Writes, Submit(w) \/ WriteStep(w)
  PROVE  Saved' \subseteq Visible'
<1>t. phase \in [Writes -> WritePhases] BY DEF ArchiveInv, ArchiveTypeOK
<1>1. CASE Publish(w)
  <2>1. phase' = [phase EXCEPT ![w] = IF SyncsDirectories THEN "published" ELSE "finished"] /\ phase[w] = "flushed"
    BY <1>1 DEF Publish, Advance
  <2>2. Saved' = Saved BY <1>t, <2>1 DEF Saved
  <2> QED BY <1>1, <2>2, PublishKeeps
<1>2. CASE Acknowledge(w)
  <2>1. phase' = [phase EXCEPT ![w] = "saved"] /\ phase[w] = "finished" /\ entry' = entry
    BY <1>2 DEF Acknowledge, Advance, files
  <2>2. w \in Visible BY <2>1 DEF ArchiveInv, Progress, Visible
  <2>3. Saved' = Saved \cup {w} /\ Visible' = Visible BY <1>t, <2>1 DEF Saved, Visible
  <2> QED BY <2>2, <2>3
<1>3. CASE ~Publish(w) /\ ~Acknowledge(w)
  <2>1. Visible' = Visible /\ Saved' = Saved BY <1>3, WriteKeeps
  <2> QED BY <2>1
<1> QED BY <1>1, <1>2, <1>3

\* So does every other step, but for a power failure without synced directories.
LEMMA SavedShownStep == DiskInv /\ ArchiveInv' /\ [Next]_vars => SavedShown'
<1> SUFFICES ASSUME DiskInv, ArchiveInv', [Next]_vars PROVE SavedShown' OBVIOUS
<1>1. CASE SyncsDirectories
  <2>1. Saved' \subseteq fast' /\ fast' \subseteq Visible'
    BY <1>1 DEF ArchiveInv, ArchiveTypeOK, Progress, Saved, Visible
  <2> QED BY <2>1 DEF SavedShown
<1>2. CASE ~SyncsDirectories
  <2> SUFFICES ASSUME ~outage' PROVE Saved' \subseteq Visible' BY <1>2 DEF SavedShown
  <2>1. ~PowerFailure BY DEF PowerFailure
  <2>2. ~outage
    <3>1. BudgetNext => outage' = outage
      BY DEF BudgetNext, StoreStep, Serialise, Rename, WriteFails, Crash, CallStep, ReserveCall, RefuseCall, Ask, Settle
    <3>2. UNCHANGED budgetVars => outage' = outage BY DEF budgetVars
    <3> QED BY <2>1, <3>1, <3>2, DiskSteps
  <2>3. Saved \subseteq Visible BY <2>2 DEF DiskInv, SavedShown
  <2>4. (\E w \in Writes : Submit(w) \/ WriteStep(w)) \/ ArchiveCrash \/ UNCHANGED archiveVars
    <3>1. CASE Fault BY <2>1, <3>1 DEF Fault
    <3>2. CASE Request \/ DiskStep
      <4>1. \A r \in Repairs : Opening(r) \in Writes /\ Closing(r) \in Writes BY DiskAssumption
      <4>2. Trials \subseteq Writes BY DEF Trials
      <4> QED BY <3>2, <4>1, <4>2 DEF Request, DiskStep, Repair
    <3>3. CASE UNCHANGED vars BY <3>3 DEF vars
    <3> QED BY <3>1, <3>2, <3>3 DEF Next
  <2>5. CASE \E w \in Writes : Submit(w) \/ WriteStep(w) BY <2>3, <2>5, ShownStays DEF DiskInv
  <2>6. CASE ArchiveCrash
    <3>1. Visible' = Visible BY <2>6, ArchiveCrashKeeps DEF DiskInv
    <3>2. Saved' = Saved BY <2>6, Forgets DEF Saved, ArchiveCrash, DiskInv
    <3> QED BY <2>3, <3>1, <3>2
  <2>7. CASE UNCHANGED archiveVars BY <2>3, <2>7 DEF archiveVars, Saved, Visible
  <2> QED BY <2>4, <2>5, <2>6, <2>7
<1> QED BY <1>1, <1>2, PlatformAssumption

\* The invariant holds at the start.
LEMMA DiskStarts == Init => DiskInv
<1> SUFFICES ASSUME Init PROVE DiskInv OBVIOUS
<1>2. SavedShown BY DEF Init, ArchiveInit, SavedShown, Saved, Visible
<1>1. OnRecord
  <2>1. \A r \in Repairs : call[r] = "idle" BY DiskAssumption DEF Init, BudgetInit
  <2> QED BY <2>1 DEF OnRecord
<1> QED BY <1>1, <1>2, BaseStarts, CoverStarts, ReleaseStarts, ArchiveStarts DEF Init, DiskInv

\* Every step keeps it.
LEMMA DiskStepKeeps == DiskInv /\ [Next]_vars => DiskInv'
<1> SUFFICES ASSUME DiskInv, [Next]_vars PROVE DiskInv' OBVIOUS
<1>1. BudgetBase' /\ Released' /\ (outage' \/ Covered')
  <2>1. CASE BudgetNext
    <3>1. BudgetBase' /\ Released' BY <2>1, BaseStep, ReleaseStep DEF DiskInv, BudgetStep
    <3>2. Covered => Covered' BY <2>1, CoverStep DEF DiskInv
    <3>3. outage' = outage
      BY <2>1 DEF BudgetNext, StoreStep, Serialise, Rename, WriteFails, Crash, CallStep, ReserveCall, RefuseCall,
                  Ask, Settle
    <3> QED BY <3>1, <3>2, <3>3 DEF DiskInv
  <2>2. CASE PowerFailure
    <3>1. BudgetBase' /\ Released' BY <2>2, BaseStep, ReleaseStep DEF DiskInv, BudgetStep
    <3> QED BY <2>2, <3>1 DEF PowerFailure
  <2>3. CASE UNCHANGED budgetVars
    <3>1. /\ budget' = budget /\ file' = file /\ former' = former /\ writing' = writing /\ saves' = saves
          /\ broken' = broken /\ call' = call /\ bill' = bill /\ outage' = outage
      BY <2>3 DEF budgetVars, storeVars
    <3>2. BudgetBase' BY <3>1 DEF DiskInv, BudgetBase, BudgetTypeOK, Chained
    <3>3. Released' BY <3>1 DEF DiskInv, Released
    <3>4. Covered => Covered' BY <3>1 DEF Covered, HeadHeld
    <3> QED BY <3>1, <3>2, <3>3, <3>4 DEF DiskInv
  <2> QED BY <2>1, <2>2, <2>3, DiskSteps
<1>2. ArchiveInv'
  <2>1. ASSUME NEW w \in Writes, Submit(w) \/ WriteStep(w) PROVE ArchiveInv' BY <2>1, WriteKeeps DEF DiskInv
  <2>2. CASE ArchiveCrash \/ ArchivePowerFailure BY <2>2, ArchiveCrashKeeps, ArchivePowerKeeps DEF DiskInv
  <2>3. CASE UNCHANGED archiveVars
    <3>1. entry' = entry /\ content' = content /\ fast' = fast /\ queue' = queue /\ phase' = phase
      BY <2>3 DEF archiveVars
    <3>2. Visible' = Visible BY <3>1 DEF Visible
    <3>3. ArchiveTypeOK' /\ Lined' BY <3>1 DEF DiskInv, ArchiveInv, ArchiveTypeOK, Lined
    <3>4. Progress' BY <3>1, <3>2 DEF DiskInv, ArchiveInv, Progress
    <3> QED BY <3>3, <3>4 DEF ArchiveInv
  <2> QED BY <2>1, <2>2, <2>3, DiskSteps DEF ArchiveNext
<1>3. SavedShown' BY <1>2, SavedShownStep
<1>4. OnRecord' BY OnRecordStep
<1> QED BY <1>1, <1>2, <1>3, <1>4 DEF DiskInv

\* Of every run of the process.
LEMMA DiskInvariant == Spec => []DiskInv
BY DiskStarts, DiskStepKeeps, PTL DEF Spec

\* Whatever may be charged is on disk and within the limit, for any number of
\* calls and any costs, whatever fails and however often the process dies
\* (store.ts:20-31).
THEOREM SpendingIsCovered == Spec => []SpendingCovered
<1>1. DiskInv => SpendingCovered
  <2> SUFFICES ASSUME DiskInv, ~outage PROVE bill <= Total(file) /\ bill <= Limit BY DEF SpendingCovered
  <2>1. BudgetBase /\ Covered BY DEF DiskInv
  <2> QED BY <2>1, Integral DEF Covered
<1> QED BY <1>1, DiskInvariant, PTL

\* Nothing is held in reserve without a call, for any number of calls, as long as
\* the state file can be written (store.ts:20-31).
THEOREM ReservesAreReleased == Spec => []NoReserveLost
<1>1. DiskInv => NoReserveLost BY HeldTogether DEF DiskInv, Released, NoReserveLost
<1> QED BY <1>1, DiskInvariant, PTL

\* What can be read in the archive is whole, for any number of writes, whatever
\* fails, dies or loses power (recordings.ts:159-166).
THEOREM RecordsAreWhole == Spec => []VisibleIsWhole
<1>1. DiskInv => VisibleIsWhole BY DEF DiskInv, ArchiveInv, Progress, VisibleIsWhole, Visible
<1> QED BY <1>1, DiskInvariant, PTL

\* The archive implements RecordBook (recordings.ts:144-174): where directories
\* are synced an acknowledged record outlasts every fault, and on win32, where
\* recordings.ts:164 leaves the sync out, every fault but a power failure.
THEOREM ArchiveKeepsBook == Spec => KeepsBook
<1>1. Init => Book!BookInit
  BY DEF Init, ArchiveInit, Book!BookInit, Visible, Saved
<1>2. DiskInv /\ [Next]_vars => [Book!BookNext]_Book!bookVars
  <2> SUFFICES ASSUME DiskInv, [Next]_vars PROVE [Book!BookNext]_<<Visible, fast, Saved>> BY DEF Book!bookVars
  <2>1. CASE ArchiveNext BY <2>1, BookStep DEF DiskInv
  <2>2. CASE UNCHANGED archiveVars BY <2>2 DEF archiveVars, Visible, Saved
  <2> QED BY <2>1, <2>2, DiskSteps
<1> QED BY <1>1, <1>2, DiskInvariant, PTL DEF Spec, KeepsBook, Book!BookSpec

\* A record that was reported as saved can be read ever after, whatever fails,
\* dies or loses power; where directories are not synced, until the power fails
\* (recordings.ts:163-165).
THEOREM SavedIsReadable == Spec => [](SyncsDirectories \/ ~outage => Saved \subseteq Visible)
<1>1. DiskInv => (SyncsDirectories \/ ~outage => Saved \subseteq Visible) BY DEF DiskInv, SavedShown
<1> QED BY <1>1, DiskInvariant, PTL

\* A repair that may be charged has its record (astra.ts:39, 50), on the same
\* condition.
THEOREM RepairsAreOnRecord == Spec => []ChargesAreOnRecord
<1>1. DiskInv => ChargesAreOnRecord
  <2> SUFFICES ASSUME DiskInv, SyncsDirectories \/ ~outage, NEW r \in Repairs, call[r] # "idle"
               PROVE  Opening(r) \in Visible /\ content[Opening(r)] = "synced"
    BY DEF ChargesAreOnRecord
  <2>1. phase[Opening(r)] = "saved" /\ Opening(r) \in Writes BY DiskAssumption DEF DiskInv, OnRecord
  <2>2. Opening(r) \in Visible BY <2>1 DEF DiskInv, SavedShown, Saved
  <2> QED BY <2>2 DEF DiskInv, ArchiveInv, Progress, Visible
<1> QED BY <1>1, DiskInvariant, PTL
=============================================================================
