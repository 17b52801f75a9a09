-------------------------- MODULE EvidenceCatalog ---------------------------
(***************************************************************************)
(* What the curation service promises of its evidence, with no job, lease, *)
(* worker or message in sight: a source is registered, its contents are    *)
(* approved once, episodes showing exactly those contents appear one by    *)
(* one, and the source counts as imported only when all of them are there; *)
(* the artifacts of an export appear once.  Nothing is ever taken back.    *)
(*                                                                         *)
(* docs/OSS_BACKEND_SPEC.md: "Retry only idempotent work; publish a        *)
(* logical result once."                                                   *)
(***************************************************************************)
CONSTANTS Sources, Episodes, Versions, None, Jobs

VARIABLES plan, sourceStatus, episodes, exported

catalog == <<plan, sourceStatus, episodes, exported>>

Init ==
  /\ plan = [s \in Sources |-> None]
  /\ sourceStatus = [s \in Sources |-> "none"]
  /\ episodes = [s \in Sources |-> [e \in Episodes |-> None]]
  /\ exported = {}

Register(s) ==
  /\ sourceStatus[s] = "none"
  /\ sourceStatus' = [sourceStatus EXCEPT ![s] = "preflight"]
  /\ UNCHANGED <<plan, episodes, exported>>

Approve(s, v) ==
  /\ sourceStatus[s] = "preflight"
  /\ plan' = [plan EXCEPT ![s] = v]
  /\ sourceStatus' = [sourceStatus EXCEPT ![s] = "ready"]
  /\ UNCHANGED <<episodes, exported>>

Commit(s, e) ==
  /\ sourceStatus[s] = "ready"
  /\ episodes[s][e] = None
  /\ episodes' = [episodes EXCEPT ![s][e] = plan[s]]
  /\ UNCHANGED <<plan, sourceStatus, exported>>

Imported(s) ==
  /\ sourceStatus[s] = "ready"
  /\ \A e \in Episodes : episodes[s][e] = plan[s]
  /\ sourceStatus' = [sourceStatus EXCEPT ![s] = "imported"]
  /\ UNCHANGED <<plan, episodes, exported>>

Export(j) ==
  /\ j \notin exported
  /\ \E s \in Sources, e \in Episodes : episodes[s][e] # None
  /\ exported' = exported \cup {j}
  /\ UNCHANGED <<plan, sourceStatus, episodes>>

Next ==
  \/ \E s \in Sources : Register(s) \/ Imported(s)
  \/ \E s \in Sources, v \in Versions : Approve(s, v)
  \/ \E s \in Sources, e \in Episodes : Commit(s, e)
  \/ \E j \in Jobs : Export(j)

Spec == Init /\ [][Next]_catalog
=============================================================================
