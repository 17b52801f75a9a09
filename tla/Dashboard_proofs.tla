-------------------------- MODULE Dashboard_proofs ---------------------------
(***************************************************************************)
(* Held-out results on display belong to the world and the source on       *)
(* display.  A result is compared with the source on display when it       *)
(* comes, but not with the world it was measured in: that this is the      *)
(* right one follows from where the request came from.  Every copy of a    *)
(* repair, on its way or on display, names the world of that repair, so a  *)
(* request that was offered for the world on display asks for a repair of  *)
(* it.  The source of a copy may long have been replaced at the gateway.   *)
(***************************************************************************)
EXTENDS Dashboard, TLAPS

Good(r) == r.id \in 1..Len(artifacts) /\ r.world = artifacts[r.id].world

RepairPosts ==
  [kind : {"repair"}, at : {"sent", "running", "refused", "answered", "refreshing"}, id : Nat, previous : Nat]

Measurements == [world : Nat, hash : Sources \ {0}]

HeldOutPosts ==
  [kind : {"heldout"}, at : {"sent", "running", "refused", "answered"}, world : Nat, id : Nat,
   hash : Sources, measured : Measurements \cup {None}]

\* A repair that was begun is one of the gateway's.
RepairPostOK(p) ==
  /\ p \in RepairPosts
  /\ p.at \in {"running", "answered", "refreshing"} => p.id \in 1..Len(artifacts)

\* Held-out runs were asked for in the world of their repair, and measured there.
HeldOutPostOK(p) ==
  /\ p \in HeldOutPosts
  /\ Good(p) /\ repair # None
  /\ p.at = "answered" => p.measured.hash # 0 /\ p.measured = [world |-> p.world, hash |-> p.measured.hash]

DashTypes ==
  /\ live \in Nat /\ shown \in Nat
  /\ artifacts \in Seq(Artifacts)
  /\ job \in {HeldOut} \cup 0..Len(artifacts)
  /\ news \in Seq(Copies)
  /\ get \in [Slots -> Copies \cup {None, Idle, Asked}]
  /\ repair \in Copies \cup {None}

CopiesGood ==
  /\ \A i \in 1..Len(news) : Good(news[i])
  /\ \A s \in Slots : get[s] \notin {None, Idle, Asked} => Good(get[s])
  /\ repair # None => Good(repair)

PostGood == post # None => RepairPostOK(post) \/ HeldOutPostOK(post)

DashInv == DashTypes /\ CopiesGood /\ PostGood /\ HeldOutIsOfShown

-----------------------------------------------------------------------------
(* Copies stay good: a repair never changes its world.                     *)

\* The gateway's repairs are added to and keep their worlds.
Grows ==
  /\ artifacts' \in Seq(Artifacts) /\ Len(artifacts) <= Len(artifacts')
  /\ \A i \in 1..Len(artifacts) : artifacts'[i].world = artifacts[i].world

LEMMA GoodStays ==
  ASSUME artifacts \in Seq(Artifacts), Grows, NEW r, Good(r)
  PROVE  r.id \in 1..Len(artifacts') /\ r.world = artifacts'[r.id].world
BY DEF Grows, Good

LEMMA SameGrows ==
  ASSUME artifacts \in Seq(Artifacts), UNCHANGED artifacts
  PROVE  Grows
BY DEF Grows

LEMMA AppendGrows ==
  ASSUME artifacts \in Seq(Artifacts), NEW a \in Artifacts, artifacts' = Append(artifacts, a)
  PROVE  Grows /\ Len(artifacts') = Len(artifacts) + 1 /\ artifacts'[Len(artifacts')] = a
BY DEF Grows

\* The copies and the request that a step leaves alone stay good.
LEMMA OthersStay ==
  ASSUME DashTypes, CopiesGood, Grows, UNCHANGED <<get, repair>>
  PROVE  /\ \A s \in Slots : get'[s] \notin {None, Idle, Asked} => Good(get[s])'
         /\ repair' # None => Good(repair)'
BY GoodStays DEF DashTypes, CopiesGood, Good

LEMMA CopiesStay ==
  ASSUME DashTypes, CopiesGood, Grows, UNCHANGED <<news, get, repair>>
  PROVE  CopiesGood'
<1>1. \A i \in 1..Len(news') : Good(news[i])'
  BY GoodStays DEF DashTypes, CopiesGood, Good
<1> QED BY <1>1, OthersStay DEF CopiesGood

LEMMA PostStays ==
  ASSUME DashTypes, PostGood, Grows, UNCHANGED post, repair # None => repair' # None
  PROVE  PostGood'
<1> SUFFICES ASSUME post # None PROVE (RepairPostOK(post) \/ HeldOutPostOK(post))'
  BY DEF PostGood
<1>1. CASE RepairPostOK(post)
  <2>1. RepairPostOK(post)'
    BY <1>1 DEF DashTypes, Grows, RepairPostOK
  <2> QED BY <2>1
<1>2. CASE HeldOutPostOK(post)
  <2>1. Good(post)'
    BY <1>2, GoodStays DEF DashTypes, HeldOutPostOK, Good
  <2>2. HeldOutPostOK(post)'
    BY <1>2, <2>1 DEF HeldOutPostOK
  <2> QED BY <2>2
<1> QED BY <1>1, <1>2 DEF PostGood

\* A repair is published: results of another source are put away.
LEMMA PublishKeeps ==
  ASSUME HeldOutIsOfShown, NEW r, r # None, Publish(r), UNCHANGED shown
  PROVE  repair' = r /\ HeldOutIsOfShown'
BY DEF HeldOutIsOfShown, Publish, Purge, Hash
-----------------------------------------------------------------------------
(* Init, and the steps of the gateway.                                     *)

LEMMA InitDash == Init => DashInv
<1> SUFFICES ASSUME Init PROVE DashInv
  OBVIOUS
<1>1. live \in Nat /\ shown \in Nat
  BY DEF Init, ViewInit
<1>2. artifacts = <<[world |-> 1, status |-> "final", source |-> 1]>> /\ artifacts \in Seq(Artifacts)
  BY DashboardAssumption DEF Init, Artifacts, Statuses, Told, Sources
<1>3. job \in {HeldOut} \cup 0..Len(artifacts)
  BY <1>2 DEF Init, NoJob
<1>4. news = <<>> /\ news \in Seq(Copies)
  BY DEF Init
<1>5. get \in [Slots -> {Idle, Asked}] /\ repair = None
  BY DEF Init, Slots
<1>6. DashTypes
  BY <1>1, <1>2, <1>3, <1>4, <1>5 DEF DashTypes
<1>7. CopiesGood
  BY <1>4, <1>5 DEF CopiesGood
<1>8. PostGood /\ HeldOutIsOfShown
  BY DEF Init, PostGood, HeldOutIsOfShown
<1> QED BY <1>6, <1>7, <1>8 DEF DashInv

\* A copy of one of the gateway's repairs is good.
LEMMA CopyIsGood ==
  ASSUME artifacts \in Seq(Artifacts), NEW id \in 1..Len(artifacts), NEW full \in BOOLEAN
  PROVE  Copy(id, full) \in Copies /\ Good(Copy(id, full)) /\ Copy(id, full) # None
<1>1. artifacts[id] \in Artifacts
  OBVIOUS
<1>2. artifacts[id].world \in Nat /\ artifacts[id].source \in Sources /\ artifacts[id].status \in Statuses
  BY <1>1 DEF Artifacts
<1> DEFINE status == CASE artifacts[id].status = "tested" -> "testing"
                       [] artifacts[id].status = "saving" -> "final"
                       [] OTHER -> artifacts[id].status
<1>3. status \in Told
  BY <1>2 DEF Statuses, Told
<1> HIDE DEF status
<1>4. (full /\ status = "final") \in BOOLEAN
  BY Zenon
<1>5. Copy(id, full) = [id |-> id, world |-> artifacts[id].world, source |-> artifacts[id].source,
                        status |-> status, full |-> full /\ status = "final"]
  BY DEF Copy, status
<1>6. Copy(id, full) \in Copies
  BY <1>2, <1>3, <1>4, <1>5 DEF Copies
<1>7. Good(Copy(id, full))
  BY <1>5 DEF Good
<1> QED BY <1>6, <1>7, DashboardAssumption

\* So is one made after a step.
LEMMA CopyIsGoodThen ==
  ASSUME artifacts' \in Seq(Artifacts), NEW id \in 1..Len(artifacts')
  PROVE  Copy(id, FALSE)' \in Copies /\ Good(Copy(id, FALSE))'
<1>1. artifacts'[id] \in Artifacts
  OBVIOUS
<1>2. artifacts'[id].world \in Nat /\ artifacts'[id].source \in Sources /\ artifacts'[id].status \in Statuses
  BY <1>1 DEF Artifacts
<1> DEFINE status == CASE artifacts'[id].status = "tested" -> "testing"
                       [] artifacts'[id].status = "saving" -> "final"
                       [] OTHER -> artifacts'[id].status
<1>3. status \in Told
  BY <1>2 DEF Statuses, Told
<1> HIDE DEF status
<1> DEFINE full == FALSE /\ status = "final"
<1>4. full \in BOOLEAN
  BY Zenon
<1> DEFINE copy == [id |-> id, world |-> artifacts'[id].world, source |-> artifacts'[id].source,
                    status |-> status, full |-> full]
<1>5. Copy(id, FALSE)' = copy
  BY DEF Copy, status
<1> HIDE DEF full
<1>6. copy \in Copies
  BY <1>2, <1>3, <1>4 DEF Copies
<1>7. copy.id = id /\ copy.world = artifacts'[id].world
  OBVIOUS
<1> HIDE DEF copy
<1> QED BY <1>5, <1>6, <1>7 DEF Good

LEMMA BeginGrows ==
  ASSUME DashTypes, BeginRepair
  PROVE  Grows /\ job' \in {HeldOut} \cup 0..Len(artifacts') /\ job' = Len(artifacts') /\ Len(artifacts') \in 1..Len(artifacts')
<1>1. [world |-> live, status |-> "generating", source |-> 0] \in Artifacts
  BY DashboardAssumption DEF DashTypes, Artifacts, Statuses, Told, Sources
<1> QED BY <1>1, AppendGrows DEF BeginRepair, DashTypes

LEMMA OtherRepairKeeps == DashInv /\ OtherRepair => DashInv'
<1> SUFFICES ASSUME DashInv, OtherRepair PROVE DashInv'
  OBVIOUS
<1>1. Grows /\ job' \in {HeldOut} \cup 0..Len(artifacts')
  BY BeginGrows DEF DashInv, OtherRepair
<1>2. UNCHANGED <<live, shown, news, get, repair, heldout, post>>
  BY DEF OtherRepair, viewVars, socketVars, requestVars, shownVars
<1>3. DashTypes'
  BY <1>1, <1>2 DEF DashInv, DashTypes, Grows
<1>4. CopiesGood'
  BY <1>1, <1>2, CopiesStay DEF DashInv
<1>5. PostGood'
  BY <1>1, <1>2, PostStays DEF DashInv
<1>6. HeldOutIsOfShown'
  BY <1>2 DEF DashInv, HeldOutIsOfShown, Hash
<1> QED BY <1>3, <1>4, <1>5, <1>6 DEF DashInv

LEMMA AdvanceKeeps ==
  ASSUME DashInv, job > 0, NEW status \in Statuses, NEW source \in Sources, NEW emit \in BOOLEAN,
         Advance(status, source, emit)
  PROVE  DashInv'
<1>1. job \in 1..Len(artifacts) /\ artifacts \in Seq(Artifacts)
  BY DEF DashInv, DashTypes, HeldOut
<1>2. UNCHANGED <<live, shown, job, get, repair, heldout, post>>
  BY DEF Advance, viewVars, requestVars, shownVars
<1> DEFINE a == artifacts[job]
           verdict == [a EXCEPT !.status = status]
           now == [verdict EXCEPT !.source = source]
           event == Copy(job, FALSE)'
<1>3. verdict \in Artifacts /\ verdict.world = a.world
  <2>1. a \in Artifacts
    BY <1>1
  <2> HIDE DEF a
  <2> QED BY <2>1 DEF Artifacts
<1>4. artifacts' = [artifacts EXCEPT ![job] = now]
  BY <1>1 DEF Advance
<1> HIDE DEF verdict
<1>5. now \in Artifacts /\ now.world = a.world
  BY <1>3 DEF Artifacts
<1>6. news' = news \/ news' = Append(news, event)
  BY DEF Advance
<1> HIDE DEF a, now
<1>7. Grows /\ Len(artifacts') = Len(artifacts) /\ artifacts' \in Seq(Artifacts)
  <2>1. artifacts' \in Seq(Artifacts) /\ Len(artifacts') = Len(artifacts)
    BY <1>1, <1>4, <1>5
  <2>2. \A i \in 1..Len(artifacts) : artifacts'[i].world = artifacts[i].world
    BY <1>1, <1>4, <1>5 DEF a
  <2> QED BY <1>1, <2>1, <2>2 DEF Grows
<1>8. event \in Copies /\ event.id \in 1..Len(artifacts') /\ event.world = artifacts'[event.id].world
  <2>1. ASSUME NEW id \in 1..Len(artifacts')
        PROVE  Copy(id, FALSE)' \in Copies /\ Good(Copy(id, FALSE))'
    BY <1>7, CopyIsGoodThen
  <2> QED BY <1>1, <1>2, <1>7, <2>1 DEF Good
<1> HIDE DEF event
<1>9. news \in Seq(Copies) /\ \A i \in 1..Len(news) : Good(news[i])
  BY DEF DashInv, DashTypes, CopiesGood
<1>10. \A i \in 1..Len(news) : news[i].id \in 1..Len(artifacts') /\ news[i].world = artifacts'[news[i].id].world
  BY <1>1, <1>7, <1>9, GoodStays
<1>11. news' \in Seq(Copies) /\ \A i \in 1..Len(news') : Good(news[i])'
  <2>1. CASE news' = news
    BY <1>9, <1>10, <2>1 DEF Good
  <2>2. CASE news' = Append(news, event)
    <3>1. news' \in Seq(Copies) /\ Len(news') = Len(news) + 1
      BY <1>8, <1>9, <2>2
    <3>2. \A i \in 1..Len(news') : news'[i] = IF i = Len(news') THEN event ELSE news[i]
      BY <1>8, <1>9, <2>2
    <3>3. ASSUME NEW i \in 1..Len(news') PROVE Good(news[i])'
      <4>1. CASE i = Len(news')
        BY <1>8, <3>2, <4>1 DEF Good
      <4>2. CASE i # Len(news')
        <5>1. i \in 1..Len(news) /\ news'[i] = news[i]
          BY <1>9, <3>1, <3>2, <4>2
        <5> QED BY <1>10, <5>1 DEF Good
      <4> QED BY <4>1, <4>2
    <3> QED BY <3>1, <3>3
  <2> QED BY <1>6, <2>1, <2>2
<1>12. DashTypes'
  BY <1>2, <1>7, <1>11 DEF DashInv, DashTypes, Grows
<1>13. CopiesGood'
  BY <1>2, <1>7, <1>11, OthersStay DEF DashInv, CopiesGood
<1>14. PostGood'
  BY <1>2, <1>7, PostStays DEF DashInv
<1>15. HeldOutIsOfShown'
  BY <1>2 DEF DashInv, HeldOutIsOfShown, Hash
<1> QED BY <1>12, <1>13, <1>14, <1>15 DEF DashInv

LEMMA RepairGoesOnKeeps == DashInv /\ RepairGoesOn => DashInv'
<1> SUFFICES ASSUME DashInv, RepairGoesOn PROVE DashInv'
  OBVIOUS
<1>1. job > 0 /\ artifacts[job] \in Artifacts
  BY DEF RepairGoesOn, DashInv, DashTypes, HeldOut
<1>2. artifacts[job].source \in Sources
  BY <1>1 DEF Artifacts
<1>3. \E status \in Statuses, source \in Sources, emit \in BOOLEAN : Advance(status, source, emit)
  <2>1. CASE Candidate
    BY <2>1 DEF Candidate, Statuses, Told
  <2>2. CASE ~Candidate
    BY <1>2, <2>2 DEF RepairGoesOn, Statuses, Told
  <2> QED BY <2>1, <2>2
<1> QED BY <1>1, <1>3, AdvanceKeeps

\* A step that leaves all but the request of the page alone.
LEMMA PostOnly ==
  ASSUME DashInv, UNCHANGED <<live, shown, artifacts, job, news, get, repair, heldout>>, PostGood'
  PROVE  DashInv'
<1>1. Grows
  BY SameGrows DEF DashInv, DashTypes
<1>2. DashTypes'
  BY DEF DashInv, DashTypes
<1>3. CopiesGood'
  BY <1>1, CopiesStay DEF DashInv
<1>4. HeldOutIsOfShown'
  BY DEF DashInv, HeldOutIsOfShown, Hash
<1> QED BY <1>2, <1>3, <1>4 DEF DashInv

LEMMA ServeKeeps == DashInv /\ (\E s \in Slots : Serve(s)) => DashInv'
<1> SUFFICES ASSUME DashInv, NEW slot \in Slots, Serve(slot) PROVE DashInv'
  OBVIOUS
<1>1. UNCHANGED <<live, shown, artifacts, job, news, repair, heldout, post>>
  BY DEF Serve, viewVars, gatewayVars, socketVars, shownVars
<1>2. Grows
  BY <1>1, SameGrows DEF DashInv, DashTypes
<1>3. Newest \in Copies \cup {None} /\ (Newest # None => Good(Newest))
  <2>1. CASE artifacts = <<>>
    BY <2>1 DEF Newest
  <2>2. CASE artifacts # <<>>
    <3>1. artifacts \in Seq(Artifacts) /\ Len(artifacts) \in 1..Len(artifacts)
      BY <2>2 DEF DashInv, DashTypes
    <3> QED BY <2>2, <3>1, CopyIsGood DEF Newest
  <2> QED BY <2>1, <2>2
<1>4. get' = [get EXCEPT ![slot] = Newest] /\ get \in [Slots -> Copies \cup {None, Idle, Asked}]
  BY DEF Serve, DashInv, DashTypes
<1>5. get' \in [Slots -> Copies \cup {None, Idle, Asked}]
  BY <1>3, <1>4
<1>6. DashTypes'
  BY <1>1, <1>5 DEF DashInv, DashTypes
<1>7. \A s \in Slots : get'[s] = get[s] \/ get'[s] = Newest
  BY <1>4
<1>8. \A s \in Slots : get'[s] \notin {None, Idle, Asked} => Good(get[s])'
  BY <1>1, <1>3, <1>7 DEF DashInv, CopiesGood, Good
<1>9. CopiesGood'
  BY <1>1, <1>8 DEF DashInv, CopiesGood, Good
<1>10. PostGood' /\ HeldOutIsOfShown'
  BY <1>1, <1>2, PostStays DEF DashInv, HeldOutIsOfShown, Hash
<1> QED BY <1>6, <1>9, <1>10 DEF DashInv

LEMMA ServeRepairKeeps == DashInv /\ ServeRepair => DashInv'
<1> SUFFICES ASSUME DashInv, ServeRepair PROVE DashInv'
  OBVIOUS
<1>1. UNCHANGED <<live, shown, news, get, repair, heldout>>
  BY DEF ServeRepair, viewVars, socketVars, requestVars, shownVars
<1>2. post \in RepairPosts
  BY DEF ServeRepair, DashInv, PostGood, RepairPostOK, HeldOutPostOK, HeldOutPosts
<1>3. CASE BeginRepair /\ post' = [post EXCEPT !.at = "running", !.id = Len(artifacts')]
  <2>1. Grows /\ job' \in {HeldOut} \cup 0..Len(artifacts') /\ job' = Len(artifacts')
    BY <1>3, BeginGrows DEF DashInv
  <2>2. Len(artifacts') \in 1..Len(artifacts')
    BY <1>3, BeginGrows DEF DashInv
  <2>3. DashTypes'
    BY <1>1, <2>1 DEF DashInv, DashTypes, Grows
  <2>4. CopiesGood'
    BY <1>1, <2>1, CopiesStay DEF DashInv
  <2> DEFINE sent == [post EXCEPT !.at = "running"]
  <2>5. sent \in RepairPosts /\ sent.at = "running"
    BY <1>2 DEF RepairPosts
  <2>6. post' = [sent EXCEPT !.id = Len(artifacts')]
    BY <1>3
  <2> HIDE DEF sent
  <2>7. post' \in RepairPosts /\ post'.id = Len(artifacts')
    BY <2>2, <2>5, <2>6 DEF RepairPosts
  <2>8. PostGood'
    BY <2>2, <2>7 DEF PostGood, RepairPostOK
  <2>9. HeldOutIsOfShown'
    BY <1>1 DEF DashInv, HeldOutIsOfShown, Hash
  <2> QED BY <2>3, <2>4, <2>8, <2>9 DEF DashInv
<1>4. CASE To("refused") /\ UNCHANGED gatewayVars
  <2>1. post' \in RepairPosts /\ post'.at = "refused"
    BY <1>2, <1>4 DEF To, RepairPosts
  <2>2. PostGood'
    BY <2>1 DEF PostGood, RepairPostOK
  <2> QED BY <1>1, <1>4, <2>2, PostOnly DEF gatewayVars
<1> QED BY <1>3, <1>4 DEF ServeRepair
\* A held-out request moves on, without an answer yet.
LEMMA HeldOutMoves ==
  ASSUME DashInv, post # None, HeldOutPostOK(post), NEW at \in {"running", "refused"}, To(at),
         UNCHANGED <<artifacts, repair>>
  PROVE  PostGood'
<1>1. post \in HeldOutPosts
  BY DEF HeldOutPostOK
<1>2. post' \in HeldOutPosts /\ post'.at = at /\ post'.id = post.id /\ post'.world = post.world
  BY <1>1 DEF To, HeldOutPosts
<1>3. HeldOutPostOK(post)'
  BY <1>2 DEF HeldOutPostOK, Good
<1> QED BY <1>3 DEF PostGood

LEMMA ServeHeldOutKeeps == DashInv /\ ServeHeldOut => DashInv'
<1> SUFFICES ASSUME DashInv, ServeHeldOut PROVE DashInv'
  OBVIOUS
<1>1. UNCHANGED <<live, shown, artifacts, news, get, repair, heldout>>
  BY DEF ServeHeldOut, viewVars, socketVars, requestVars, shownVars
<1>2. post # None /\ HeldOutPostOK(post)
  BY DEF ServeHeldOut, DashInv, PostGood, RepairPostOK, RepairPosts
<1>3. PostGood'
  BY <1>1, <1>2, HeldOutMoves DEF ServeHeldOut
<1>4. DashTypes'
  BY <1>1 DEF ServeHeldOut, DashInv, DashTypes
<1>5. CopiesGood' /\ HeldOutIsOfShown'
  BY <1>1 DEF DashInv, CopiesGood, Good, HeldOutIsOfShown, Hash
<1> QED BY <1>3, <1>4, <1>5 DEF DashInv

\* A repair's request is answered or refused.
LEMMA RepairMoves ==
  ASSUME DashInv, post # None, RepairPostOK(post), NEW at \in {"refused", "answered", "refreshing"}, To(at),
         UNCHANGED artifacts, post.at \in {"running", "answered"}
  PROVE  PostGood'
<1>1. post \in RepairPosts
  BY DEF RepairPostOK
<1>2. post' \in RepairPosts /\ post'.id = post.id
  BY <1>1 DEF To, RepairPosts
<1>3. RepairPostOK(post)'
  BY <1>2 DEF RepairPostOK
<1> QED BY <1>3 DEF PostGood

\* Held-out results are of the world their request was made in: that of the
\* repair, which was live to the end.
LEMMA JobOverKeeps == DashInv /\ JobOver => DashInv'
<1> SUFFICES ASSUME DashInv, JobOver PROVE DashInv'
  OBVIOUS
<1>1. UNCHANGED <<live, shown, artifacts, news, get, repair, heldout>> /\ job' = 0
  BY DEF JobOver, NoJob, viewVars, socketVars, requestVars, shownVars
<1>2. DashTypes'
  BY <1>1 DEF DashInv, DashTypes
<1>3. CopiesGood' /\ HeldOutIsOfShown'
  BY <1>1 DEF DashInv, CopiesGood, Good, HeldOutIsOfShown, Hash
<1>4. Grows
  BY <1>1, SameGrows DEF DashInv, DashTypes
<1>5. PostGood'
  <2>1. CASE UNCHANGED post
    BY <1>1, <1>4, <2>1, PostStays DEF DashInv
  <2>2. CASE post # None /\ post.kind = "repair" /\ post.at = "running" /\ (To("answered") \/ To("refused"))
    <3>1. RepairPostOK(post)
      BY <2>2 DEF DashInv, PostGood, HeldOutPostOK, HeldOutPosts
    <3> QED BY <1>1, <2>2, <3>1, RepairMoves
  <2>3. CASE post # None /\ post.kind = "heldout" /\ To("refused")
    <3>1. HeldOutPostOK(post)
      BY <2>3 DEF DashInv, PostGood, RepairPostOK, RepairPosts
    <3> QED BY <1>1, <2>3, <3>1, HeldOutMoves
  <2> DEFINE hash == Hash(artifacts[post.id])
             measured == [world |-> live, hash |-> hash]
  <2>4. CASE /\ post # None /\ post.kind = "heldout" /\ OfOrigin(post.id)
             /\ post' = [post EXCEPT !.at = "answered", !.measured = measured]
    <3>1. HeldOutPostOK(post) /\ post \in HeldOutPosts
      BY <2>4 DEF DashInv, PostGood, RepairPostOK, RepairPosts, HeldOutPostOK
    <3>2. post.id \in 1..Len(artifacts) /\ artifacts \in Seq(Artifacts)
      BY <3>1 DEF HeldOutPostOK, Good, DashInv, DashTypes
    <3>3. artifacts[post.id] \in Artifacts
      BY <3>2
    <3>4. hash \in Sources \ {0}
      BY <2>4, <3>3 DEF Artifacts, OfOrigin, Hash
    <3>5. measured \in Measurements
      BY <3>4 DEF Measurements, DashInv, DashTypes
    <3>6. measured.world = post.world /\ measured.hash # 0
      BY <2>4, <3>1, <3>4 DEF OfOrigin, HeldOutPostOK, Good
    <3> DEFINE done == [post EXCEPT !.at = "answered"]
    <3> HIDE DEF measured
    <3>7. done \in HeldOutPosts /\ done.id = post.id /\ done.world = post.world /\ done.at = "answered"
      BY <3>1 DEF HeldOutPosts
    <3>8. post' = [done EXCEPT !.measured = measured]
      BY <2>4
    <3> HIDE DEF done
    <3>9. post' \in HeldOutPosts /\ post'.id = post.id /\ post'.world = post.world /\ post'.measured = measured
      BY <3>5, <3>7, <3>8 DEF HeldOutPosts
    <3>10. measured = [world |-> post.world, hash |-> measured.hash]
      BY <3>5, <3>6 DEF Measurements
    <3>11. HeldOutPostOK(post)'
      BY <1>1, <3>1, <3>6, <3>9, <3>10 DEF HeldOutPostOK, Good
    <3> QED BY <3>11 DEF PostGood
  <2>5. CASE /\ post # None /\ post.at = "running" /\ (post.kind = "heldout" \/ post.id = job)
    BY <2>2, <2>3, <2>4, <2>5 DEF JobOver
  <2> QED BY <2>1, <2>5 DEF JobOver
<1> QED BY <1>2, <1>3, <1>5 DEF DashInv

-----------------------------------------------------------------------------
(* The browser's steps.                                                    *)

\* News are taken or lost, requests are made or ended, and a good copy may be
\* published; the request of the page is left alone or over.
LEMMA BrowserKeeps ==
  ASSUME DashInv, UNCHANGED <<live, shown, artifacts, job>>,
         news' = news \/ (news # <<>> /\ news' = Tail(news)) \/ news' = <<>>,
         get' \in [Slots -> Copies \cup {None, Idle, Asked}],
         \A s \in Slots : get'[s] \in {get[s], Idle, Asked},
         UNCHANGED <<repair, heldout>> \/ \E r \in Copies : Good(r) /\ Publish(r),
         post' = post \/ post' = None
  PROVE  DashInv'
<1>1. Grows
  BY SameGrows DEF DashInv, DashTypes
<1>2. (repair' \in Copies \cup {None}) /\ (repair # None => repair' # None) /\ (repair' # None => Good(repair)') /\ HeldOutIsOfShown'
  <2>1. CASE UNCHANGED <<repair, heldout>>
    BY <2>1 DEF DashInv, DashTypes, CopiesGood, Good, HeldOutIsOfShown, Hash
  <2>2. CASE \E r \in Copies : Good(r) /\ Publish(r)
    <3>1. PICK r \in Copies : Good(r) /\ Publish(r)
      BY <2>2
    <3>2. r # None
      BY DashboardAssumption
    <3>3. repair' = r /\ HeldOutIsOfShown'
      BY <3>1, <3>2, PublishKeeps DEF DashInv
    <3> QED BY <3>1, <3>2, <3>3 DEF Good
  <2> QED BY <2>1, <2>2
<1>3. news' \in Seq(Copies) /\ \A i \in 1..Len(news') : Good(news[i])'
  <2>1. news \in Seq(Copies) /\ \A i \in 1..Len(news) : Good(news[i])
    BY DEF DashInv, DashTypes, CopiesGood
  <2>2. CASE news' = news
    BY <2>1, <2>2 DEF Good
  <2>3. CASE news # <<>> /\ news' = Tail(news)
    BY <2>1, <2>3 DEF Good
  <2>4. CASE news' = <<>>
    BY <2>4 DEF Good
  <2> QED BY <2>2, <2>3, <2>4
<1>4. \A s \in Slots : get'[s] \notin {None, Idle, Asked} => Good(get[s])'
  BY DEF DashInv, CopiesGood, Good
<1>5. DashTypes'
  BY <1>2, <1>3 DEF DashInv, DashTypes
<1>6. CopiesGood'
  BY <1>2, <1>3, <1>4 DEF CopiesGood
<1>7. PostGood'
  BY <1>1, <1>2, PostStays DEF DashInv, PostGood
<1> QED BY <1>2, <1>5, <1>6, <1>7 DEF DashInv
LEMMA EventKeeps == DashInv /\ Event => DashInv'
<1> SUFFICES ASSUME DashInv, Event PROVE DashInv'
  OBVIOUS
<1>1. UNCHANGED <<live, shown, artifacts, job, get, post>> /\ news # <<>> /\ news' = Tail(news)
  BY DEF Event, viewVars, gatewayVars
<1>2. Head(news) \in Copies /\ Good(Head(news)) /\ Publish(Head(news))
  BY DEF Event, DashInv, DashTypes, CopiesGood
<1>3. get' \in [Slots -> Copies \cup {None, Idle, Asked}] /\ \A s \in Slots : get'[s] \in {get[s], Idle, Asked}
  BY <1>1 DEF DashInv, DashTypes
<1> QED BY <1>1, <1>2, <1>3, BrowserKeeps

\* What a request that is made or over leaves of the others.
LEMMA GetStays ==
  ASSUME DashTypes, NEW slot \in Slots, NEW value \in {Idle, Asked},
         get' = [get EXCEPT ![slot] = value] \/ get' = get
  PROVE  /\ get' \in [Slots -> Copies \cup {None, Idle, Asked}]
         /\ \A s \in Slots : get'[s] \in {get[s], Idle, Asked}
BY DEF DashTypes

LEMMA RefreshKeeps == ASSUME DashInv, NEW running2, Refresh(running2) PROVE DashInv'
<1>1. UNCHANGED <<live, shown, artifacts, job, news, repair, heldout, post>>
  BY DEF Refresh, viewVars, gatewayVars, socketVars, shownVars
<1>2. get \in [Slots -> Copies \cup {None, Idle, Asked}] /\ {"refresh", "history"} \subseteq Slots
  BY DEF DashInv, DashTypes, Slots
<1>3. get' = [get EXCEPT !["refresh"] = Idle, !["history"] = IF hydrate THEN Asked ELSE @]
  BY DEF Refresh
<1>4. get' \in [Slots -> Copies \cup {None, Idle, Asked}] /\ \A s \in Slots : get'[s] \in {get[s], Idle, Asked}
  BY <1>2, <1>3
<1> QED BY <1>1, <1>4, BrowserKeeps

LEMMA HydratedKeeps == DashInv /\ Hydrated => DashInv'
<1> SUFFICES ASSUME DashInv, Hydrated PROVE DashInv'
  OBVIOUS
<1>1. UNCHANGED <<live, shown, artifacts, job, news, post>>
  BY DEF Hydrated, viewVars, gatewayVars, socketVars
<1>2. "history" \in Slots /\ get' = [get EXCEPT !["history"] = Idle]
  BY DEF Hydrated, Finish, Slots
<1>3. get' \in [Slots -> Copies \cup {None, Idle, Asked}] /\ \A s \in Slots : get'[s] \in {get[s], Idle, Asked}
  BY <1>2, GetStays DEF DashInv
<1>4. UNCHANGED <<repair, heldout>> \/ \E r \in Copies : Good(r) /\ Publish(r)
  <2>1. CASE UNCHANGED shownVars
    BY <2>1 DEF shownVars
  <2>2. CASE get["history"] # None /\ Publish(get["history"])
    <3>1. get["history"] \in Copies /\ Good(get["history"])
      BY <1>2, <2>2 DEF Hydrated, Answered, DashInv, DashTypes, CopiesGood
    <3> QED BY <2>2, <3>1
  <2> QED BY <2>1, <2>2 DEF Hydrated
<1> QED BY <1>1, <1>3, <1>4, BrowserKeeps

LEMMA PollKeeps == DashInv /\ Poll => DashInv'
<1> SUFFICES ASSUME DashInv, Poll PROVE DashInv'
  OBVIOUS
<1>1. UNCHANGED <<live, shown, artifacts, job, news, repair, heldout, post>>
  BY DEF Poll, viewVars, gatewayVars, socketVars, shownVars
<1>2. "saved" \in Slots /\ (get' = [get EXCEPT !["saved"] = Asked] \/ get' = get)
  BY DEF Poll, Begin, Slots
<1>3. get' \in [Slots -> Copies \cup {None, Idle, Asked}] /\ \A s \in Slots : get'[s] \in {get[s], Idle, Asked}
  BY <1>2, GetStays DEF DashInv
<1> QED BY <1>1, <1>3, BrowserKeeps

LEMMA SavedKeeps == DashInv /\ Saved => DashInv'
<1> SUFFICES ASSUME DashInv, Saved PROVE DashInv'
  OBVIOUS
<1>1. UNCHANGED <<live, shown, artifacts, job, news, post>>
  BY DEF Saved, viewVars, gatewayVars, socketVars
<1>2. "saved" \in Slots /\ get' = [get EXCEPT !["saved"] = Idle]
  BY DEF Saved, Slots
<1>3. get' \in [Slots -> Copies \cup {None, Idle, Asked}] /\ \A s \in Slots : get'[s] \in {get[s], Idle, Asked}
  BY <1>2, GetStays DEF DashInv
<1>4. UNCHANGED <<repair, heldout>> \/ \E r \in Copies : Good(r) /\ Publish(r)
  <2>1. CASE UNCHANGED shownVars
    BY <2>1 DEF shownVars
  <2>2. CASE get["saved"] # None /\ Publish(get["saved"])
    <3>1. get["saved"] \in Copies /\ Good(get["saved"])
      BY <1>2, <2>2 DEF Saved, Answered, DashInv, DashTypes, CopiesGood
    <3> QED BY <2>2, <3>1
  <2> QED BY <2>1, <2>2 DEF Saved
<1> QED BY <1>1, <1>3, <1>4, BrowserKeeps

LEMMA LostKeeps == ASSUME DashInv, NEW slot \in Slots, Lost(slot) PROVE DashInv'
<1>1. UNCHANGED <<live, shown, artifacts, job, news, repair, heldout, post>> /\ get' = [get EXCEPT ![slot] = Idle]
  BY DEF Lost, Finish, viewVars, gatewayVars, socketVars, shownVars
<1>2. get' \in [Slots -> Copies \cup {None, Idle, Asked}] /\ \A s \in Slots : get'[s] \in {get[s], Idle, Asked}
  BY <1>1, GetStays DEF DashInv
<1> QED BY <1>1, <1>2, BrowserKeeps

LEMMA SameGet ==
  ASSUME DashInv, UNCHANGED get
  PROVE  get' \in [Slots -> Copies \cup {None, Idle, Asked}] /\ \A s \in Slots : get'[s] \in {get[s], Idle, Asked}
BY DEF DashInv, DashTypes

LEMMA FaultKeeps == DashInv /\ Fault => DashInv'
<1> SUFFICES ASSUME DashInv, Fault PROVE DashInv'
  OBVIOUS
<1>1. CASE Disconnect
  <2>1. UNCHANGED <<live, shown, artifacts, job, get, repair, heldout, post>> /\ news' = <<>>
    BY <1>1 DEF Disconnect, viewVars, gatewayVars, requestVars, shownVars
  <2> QED BY <2>1, SameGet, BrowserKeeps
<1>2. CASE Refresh(running)
  BY <1>2, RefreshKeeps
<1>3. CASE \E s \in Slots : Lost(s)
  BY <1>3, LostKeeps
<1> QED BY <1>1, <1>2, <1>3 DEF Fault

LEMMA ConnectKeeps == DashInv /\ Connect => DashInv'
<1> SUFFICES ASSUME DashInv, Connect PROVE DashInv'
  OBVIOUS
<1>1. UNCHANGED <<live, shown, artifacts, job, news, get, repair, heldout, post>>
  BY DEF Connect, viewVars, gatewayVars, requestVars, shownVars
<1> QED BY <1>1, SameGet, BrowserKeeps

-----------------------------------------------------------------------------
(* The page's steps.                                                       *)

LEMMA AskRepairKeeps == DashInv /\ AskRepair => DashInv'
<1> SUFFICES ASSUME DashInv, AskRepair PROVE DashInv'
  OBVIOUS
<1>1. UNCHANGED <<live, shown, artifacts, job, news, get, repair, heldout>>
  BY DEF AskRepair, viewVars, gatewayVars, socketVars, requestVars, shownVars
<1> DEFINE previous == IF repair = None THEN 0 ELSE repair.id
<1>2. previous \in Nat
  BY DEF DashInv, DashTypes, Copies
<1>3. post' = [kind |-> "repair", at |-> "sent", id |-> 0, previous |-> previous]
  BY DEF AskRepair
<1> HIDE DEF previous
<1>4. post' \in RepairPosts /\ post'.at = "sent"
  BY <1>2, <1>3 DEF RepairPosts
<1>5. PostGood'
  BY <1>4 DEF PostGood, RepairPostOK
<1> QED BY <1>1, <1>5, PostOnly

\* What is offered is a repair of the world on display.
LEMMA AskHeldOutKeeps == DashInv /\ AskHeldOut => DashInv'
<1> SUFFICES ASSUME DashInv, AskHeldOut PROVE DashInv'
  OBVIOUS
<1>1. UNCHANGED <<live, shown, artifacts, job, news, get, repair, heldout>>
  BY DEF AskHeldOut, viewVars, gatewayVars, socketVars, requestVars, shownVars
<1>2. repair # None /\ repair \in Copies /\ repair.world = shown /\ Good(repair)
  BY DEF AskHeldOut, Offered, DashInv, DashTypes, CopiesGood
<1>3. repair.id \in Nat /\ repair.source \in Sources /\ shown \in Nat
  BY <1>2 DEF Copies, DashInv, DashTypes
<1>4. post' = [kind |-> "heldout", at |-> "sent", world |-> shown, id |-> repair.id,
               hash |-> repair.source, measured |-> None]
  BY DEF AskHeldOut, Hash
<1>5. post' \in HeldOutPosts
  BY <1>3, <1>4 DEF HeldOutPosts
<1>6. post'.at = "sent" /\ post'.id = repair.id /\ post'.world = repair.world
  BY <1>2, <1>4
<1>7. HeldOutPostOK(post)'
  BY <1>1, <1>2, <1>5, <1>6 DEF HeldOutPostOK, Good
<1>8. PostGood'
  BY <1>7 DEF PostGood
<1> QED BY <1>1, <1>8, PostOnly

LEMMA PostOver ==
  ASSUME DashInv, UNCHANGED <<viewVars, gatewayVars, socketVars, requestVars, shownVars>>, post' = None
  PROVE  DashInv'
<1>1. UNCHANGED <<live, shown, artifacts, job, news, get, repair, heldout>>
  BY DEF viewVars, gatewayVars, socketVars, requestVars, shownVars
<1>2. PostGood'
  BY DEF PostGood
<1> QED BY <1>1, <1>2, PostOnly

LEMMA RepairedKeeps == DashInv /\ Repaired => DashInv'
<1> SUFFICES ASSUME DashInv, Repaired PROVE DashInv'
  OBVIOUS
<1>1. UNCHANGED <<live, shown, artifacts, job, news, repair, heldout>> /\ get' = [get EXCEPT !["refresh"] = Asked]
  BY DEF Repaired, Begin, viewVars, gatewayVars, socketVars, shownVars
<1>2. RepairPostOK(post)
  BY DEF Repaired, DashInv, PostGood, HeldOutPostOK, HeldOutPosts
<1>3. PostGood'
  BY <1>1, <1>2, RepairMoves DEF Repaired
<1>4. "refresh" \in Slots
  BY DEF Slots
<1>5. get' \in [Slots -> Copies \cup {None, Idle, Asked}] /\ \A s \in Slots : get'[s] \in {get[s], Idle, Asked}
  BY <1>1, <1>4, GetStays DEF DashInv
<1>6. DashTypes'
  BY <1>1, <1>5 DEF DashInv, DashTypes
<1>7. CopiesGood'
  BY <1>1, <1>5 DEF DashInv, CopiesGood, Good
<1>8. HeldOutIsOfShown'
  BY <1>1 DEF DashInv, HeldOutIsOfShown, Hash
<1> QED BY <1>3, <1>6, <1>7, <1>8 DEF DashInv

LEMMA ShowResultKeeps == DashInv /\ ShowResult => DashInv'
<1> SUFFICES ASSUME DashInv, ShowResult PROVE DashInv'
  OBVIOUS
<1>1. UNCHANGED <<live, shown, artifacts, job, news, get>> /\ post' = None
  BY DEF ShowResult, viewVars, gatewayVars, socketVars
<1>2. post.id \in 1..Len(artifacts)
  BY DEF ShowResult, DashInv, PostGood, RepairPostOK, HeldOutPostOK, HeldOutPosts
<1>3. Copy(post.id, TRUE) \in Copies /\ Good(Copy(post.id, TRUE))
  BY <1>2, CopyIsGood DEF DashInv, DashTypes
<1>4. UNCHANGED <<repair, heldout>> \/ Publish(Copy(post.id, TRUE))
  BY DEF ShowResult, shownVars
<1>5. UNCHANGED <<repair, heldout>> \/ \E r \in Copies : Good(r) /\ Publish(r)
  BY <1>3, <1>4
<1> QED BY <1>1, <1>5, SameGet, BrowserKeeps

\* The results are of the world the request was made in, and the world and the
\* source on display are those of the request.
LEMMA HeldOutDoneKeeps == DashInv /\ HeldOutDone => DashInv'
<1> SUFFICES ASSUME DashInv, HeldOutDone PROVE DashInv'
  OBVIOUS
<1>1. UNCHANGED <<live, shown, artifacts, job, news, get, repair>> /\ post' = None
  BY DEF HeldOutDone, viewVars, gatewayVars, socketVars, requestVars
<1>2. HeldOutPostOK(post) /\ post.at = "answered"
  BY DEF HeldOutDone, DashInv, PostGood, RepairPostOK, RepairPosts
<1>3. HeldOutIsOfShown'
  <2>1. CASE heldout' = heldout
    BY <1>1, <2>1 DEF DashInv, HeldOutIsOfShown, Hash
  <2>2. CASE Applies /\ heldout' = post.measured
    <3>1. post.measured.hash = Hash(repair) /\ post.world = shown
      BY <1>2, <2>2 DEF Applies, HeldOutPostOK
    <3>2. post.measured = [world |-> shown, hash |-> Hash(repair)] /\ repair # None
      BY <1>2, <3>1 DEF HeldOutPostOK
    <3> QED BY <1>1, <2>2, <3>2 DEF HeldOutIsOfShown, Hash
  <2> QED BY <2>1, <2>2 DEF HeldOutDone
<1>4. DashTypes'
  BY <1>1 DEF DashInv, DashTypes
<1>5. CopiesGood' /\ PostGood'
  BY <1>1 DEF DashInv, CopiesGood, Good, PostGood
<1> QED BY <1>3, <1>4, <1>5 DEF DashInv

\* Another world comes into view: results of the old one are put away.
LEMMA ViewStepKeeps == DashInv /\ ViewStep => DashInv'
<1> SUFFICES ASSUME DashInv, ViewStep PROVE DashInv'
  OBVIOUS
<1>1. UNCHANGED <<artifacts, job, news, get, repair, post>>
  BY DEF ViewStep, gatewayVars, socketVars, requestVars
<1>2. live' \in Nat /\ shown' \in Nat
  <2>1. live \in Nat /\ shown \in Nat
    BY DEF DashInv, DashTypes
  <2> QED BY <2>1 DEF ViewStep, Replace, Show
<1>3. DashTypes'
  BY <1>1, <1>2 DEF DashInv, DashTypes
<1>4. CopiesGood' /\ PostGood'
  BY <1>1 DEF DashInv, CopiesGood, Good, PostGood, RepairPostOK, HeldOutPostOK
<1>5. HeldOutIsOfShown'
  BY <1>1 DEF DashInv, HeldOutIsOfShown, ViewStep, Purge, Hash
<1> QED BY <1>3, <1>4, <1>5 DEF DashInv

LEMMA NextKeeps == DashInv /\ Next => DashInv'
<1> SUFFICES ASSUME DashInv, Next PROVE DashInv'
  OBVIOUS
<1>1. CASE GatewayStep
  BY <1>1, OtherRepairKeeps, RepairGoesOnKeeps, ServeRepairKeeps, ServeHeldOutKeeps, JobOverKeeps, ServeKeeps DEF GatewayStep, EndJob, Abandoned
<1>2. CASE BrowserStep
  <2>1. Refreshed => DashInv'
    BY RefreshKeeps DEF Refreshed
  <2> QED BY <1>2, <2>1, EventKeeps, HydratedKeeps, PollKeeps, SavedKeeps, FaultKeeps, ConnectKeeps DEF BrowserStep
<1>3. CASE PageStep
  <2>1. Refused \/ GiveUp \/ Conclude => DashInv'
    BY PostOver DEF Refused, GiveUp, Conclude
  <2> QED BY <1>3, <2>1, AskRepairKeeps, AskHeldOutKeeps, RepairedKeeps, ShowResultKeeps, HeldOutDoneKeeps DEF PageStep
<1>4. CASE ViewStep
  BY <1>4, ViewStepKeeps
<1> QED BY <1>1, <1>2, <1>3, <1>4 DEF Next

LEMMA StutterKeeps == DashInv /\ UNCHANGED vars => DashInv'
<1> SUFFICES ASSUME DashInv, UNCHANGED vars PROVE DashInv'
  OBVIOUS
<1>1. UNCHANGED <<live, shown, artifacts, job, news, get, repair, heldout, post>>
  BY DEF vars, viewVars, gatewayVars, socketVars, requestVars, shownVars
<1> QED BY <1>1, SameGet, BrowserKeeps

-----------------------------------------------------------------------------

\* Held-out results on display were measured with the source and in the world on
\* display, for any number of worlds, repairs, lost events and failed requests
\* (App.tsx:83, 149).
THEOREM HeldOutBelongs == Spec => []HeldOutIsOfShown
<1>1. DashInv /\ [Next]_vars => DashInv'
  BY NextKeeps, StutterKeeps
<1>2. DashInv => HeldOutIsOfShown
  BY DEF DashInv
<1> QED BY InitDash, <1>1, <1>2, PTL DEF Spec

\* Every copy of a repair, on its way to the page or on display, names the world
\* the repair was begun in, and every held-out request of the page was made in
\* the world of its repair.
THEOREM CopiesAreTrue == Spec => [](CopiesGood /\ PostGood)
<1>1. DashInv /\ [Next]_vars => DashInv'
  BY NextKeeps, StutterKeeps
<1>2. DashInv => CopiesGood /\ PostGood
  BY DEF DashInv
<1> QED BY InitDash, <1>1, <1>2, PTL DEF Spec
=============================================================================
