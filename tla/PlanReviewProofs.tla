-------------------------- MODULE PlanReviewProofs --------------------------
(***************************************************************************)
(* TLAPS proofs about PlanReview, for any workers, plan contents, rounds   *)
(* and reviews.                                                            *)
(***************************************************************************)
EXTENDS PlanReview, SequenceTheorems, TLAPS

Gates == {"after_review", "adjudication", "after_revision"}
Steps == {"review", "revision"}
Origins == {"human", "qc_interim", "qc_result"}

VersionRows == [st : {"candidate", "superseded", "in_qc", "changes_requested", "rejected",
                      "approved"},
                body : Bodies, origin : Origins]
Checkpoints == [step : Steps, round : Nat, flag : BOOLEAN, before : Bodies, body : Bodies]
ReviewRows == [st : Live \cup ReviewTerminal, mode : {"qc", "waived"}, seed : Nat,
               result : Bodies, revised : Nat, salvaged : Nat, gate : {"none"} \cup Gates,
               at : Nat, accepted : BOOLEAN, ckpt : Checkpoints \cup {NoCheckpoint},
               cadence : Cadences, rulings : Nat, patches : Nat,
               run : Live \cup ReviewTerminal \cup {"reviewing", "approved"},
               token : Workers \cup {NoToken}, late : BOOLEAN, max : Nat, round : Nat]
Items == [st : {"planning", "in_qc", "awaiting_approval"}, open : BOOLEAN, approved : Nat]

Pcs == {"claimed", "loaded", "reviewing", "reviewed", "revising", "revised", "saved_review",
        "saved_revision", "parking", "completing", "failing"}
\* where a pass stands behind the load of its review
Going == Pcs \ {"claimed", "loaded"}
PassGates == {"none"} \cup Gates \cup Steps \cup Success
FullPasses == [pc : Pcs, r : Nat, max : Nat, cadence : Cadences,
               kind : {"fresh", "human", "operational"},
               gate : PassGates, round : Nat,
               flag : BOOLEAN, body : Bodies, before : Bodies]
FailingPasses == [pc : {"failing"}, r : Nat]
Passes == {Idle} \cup FailingPasses \cup FullPasses

(* The type of each variable.                                                *)
Types ==
  /\ versions \in Seq(VersionRows)
  /\ reviews \in Seq(ReviewRows)
  /\ item \in Items
  /\ pass \in [Workers -> Passes]

(* One review row and its planning run agree.                                *)
Agrees(x) ==
  /\ x.token # NoToken <=> x.run = "reviewing"
  /\ x.st = "awaiting_human" => x.run \in {"awaiting_human", "queued", "reviewing"}
  /\ x.st \in {"queued", "running"} => x.run \in {"queued", "reviewing"}
  /\ x.st \in ReviewTerminal => x.run \in {x.st, "approved"}
  /\ x.gate # "none" <=> x.st = "awaiting_human"

RowInv == \A r \in DOMAIN reviews :
            Agrees(reviews[r]) /\ reviews[r].seed \in DOMAIN versions

(* A pass is about one of the n reviews; where it parks it has a gate to     *)
(* park at, where it completes a result; a claim starts afresh, and a        *)
(* checkpoint it goes on from names the step that was saved.                 *)
Fits(p, n) ==
  /\ p.pc # "idle" => p.r \in 1 .. n
  /\ p.pc \notin {"idle", "failing"} => p \in FullPasses
  /\ p.pc = "parking" => p.gate \in Gates
  /\ p.pc = "completing" => p.gate \in Success
  /\ p.pc = "claimed" => p.kind = "fresh"
  /\ p.pc = "loaded" /\ p.kind = "operational" => p.gate \in Steps
PassInv == \A w \in Workers : Fits(pass[w], Len(reviews))

(* The approved version is one a successful review resulted in, and closes   *)
(* the planning conversation.                                                *)
Approval(v, o) ==
  v.approved # NoVersion =>
    /\ ~ v.open
    /\ v.approved \in DOMAIN o
    /\ o[v.approved].st = "approved"
ApprovalInv ==
  /\ Approval(item, versions)
  /\ item.approved # NoVersion =>
       \E r \in DOMAIN reviews : /\ reviews[r].st \in Success
                                 /\ reviews[r].result = versions[item.approved].body

ReviewInv == Types /\ RowInv /\ PassInv /\ ApprovalInv

-----------------------------------------------------------------------------
(* What one transaction may do to the rows.                                  *)

(* Versions are only added; their contents stand, and an approved one is     *)
(* never changed.                                                            *)
Grow(from, to) ==
  /\ to \in Seq(VersionRows)
  /\ Len(from) <= Len(to)
  /\ \A v \in 1 .. Len(from) : /\ to[v].body = from[v].body
                               /\ from[v].st = "approved" => to[v] = from[v]

(* Reviews are only added, and the outcome of a successful one stands.       *)
Kept ==
  /\ reviews' \in Seq(ReviewRows)
  /\ Len(reviews) <= Len(reviews')
  /\ \A r \in 1 .. Len(reviews) : reviews[r].st \in Success =>
        reviews'[r].st = reviews[r].st /\ reviews'[r].result = reviews[r].result

Committed == Grow(versions, versions') /\ Kept /\ RowInv'

(* The rows, by the numbers they are found under.                            *)
LEMMA Rows ==
  ASSUME Types
  PROVE  /\ Len(versions) \in Nat /\ DOMAIN versions = 1 .. Len(versions)
         /\ Len(reviews) \in Nat /\ DOMAIN reviews = 1 .. Len(reviews)
         /\ \A v \in 1 .. Len(versions) : versions[v] \in VersionRows
         /\ \A r \in 1 .. Len(reviews) : reviews[r] \in ReviewRows
BY LenProperties, ElementOfSeq DEF Types

(* Nothing changed is a way to grow.                                         *)
LEMMA GrowSame == ASSUME NEW vs \in Seq(VersionRows) PROVE Grow(vs, vs)
BY LenProperties DEF Grow

(* A version that is not approved takes another status.                      *)
LEMMA GrowStatus ==
  ASSUME NEW vs \in Seq(VersionRows), NEW v \in 1 .. Len(vs), vs[v].st # "approved",
         NEW st \in {"candidate", "superseded", "in_qc", "changes_requested", "rejected",
                     "approved"}
  PROVE  Grow(vs, [vs EXCEPT ![v].st = st])
<1> DEFINE x == [vs[v] EXCEPT !.st = st]
<1>1. vs[v] \in VersionRows
  BY ElementOfSeq
<1>2. x \in VersionRows /\ x.body = vs[v].body
  BY <1>1 DEF VersionRows
<1> HIDE DEF x
<1>3. /\ [vs EXCEPT ![v] = x] \in Seq(VersionRows)
      /\ Len([vs EXCEPT ![v] = x]) = Len(vs)
      /\ \A j \in 1 .. Len(vs) : [vs EXCEPT ![v] = x][j] = IF j = v THEN x ELSE vs[j]
  BY <1>2, ExceptSeq
<1>4. Len(vs) \in Nat
  BY LenProperties
<1>5. Grow(vs, [vs EXCEPT ![v] = x])
  BY <1>2, <1>3, <1>4 DEF Grow
<1> QED
  BY <1>5 DEF x

(* A version is added.                                                       *)
LEMMA GrowInsert ==
  ASSUME NEW vs, NEW ws, Grow(vs, ws), Len(vs) \in Nat, NEW body \in Bodies,
         NEW origin \in Origins
  PROVE  /\ Grow(vs, InsertPlanVersion(ws, body, origin))
         /\ Len(InsertPlanVersion(ws, body, origin)) = Len(ws) + 1
         /\ InsertPlanVersion(ws, body, origin)[Len(ws) + 1].body = body
<1> DEFINE x == [st |-> "candidate", body |-> body, origin |-> origin]
<1>1. x \in VersionRows /\ x.body = body
  BY DEF VersionRows
<1> HIDE DEF x
<1>2. ws \in Seq(VersionRows) /\ Len(ws) \in Nat
  BY LenProperties DEF Grow
<1>3. /\ Append(ws, x) \in Seq(VersionRows)
      /\ Len(Append(ws, x)) = Len(ws) + 1
      /\ \A i \in 1 .. Len(ws) : Append(ws, x)[i] = ws[i]
      /\ Append(ws, x)[Len(ws) + 1] = x
  BY <1>1, <1>2, AppendProperties
<1>4. InsertPlanVersion(ws, body, origin) = Append(ws, x)
  BY DEF InsertPlanVersion, x
<1>5. Grow(vs, Append(ws, x))
  BY <1>2, <1>3 DEF Grow
<1> QED
  BY <1>1, <1>3, <1>4, <1>5

(* A step that leaves the reviews alone.                                     *)
LEMMA SameReviews ==
  ASSUME ReviewInv, UNCHANGED reviews, Grow(versions, versions')
  PROVE  Committed
<1>1. /\ Len(versions) \in Nat /\ DOMAIN versions = 1 .. Len(versions)
      /\ Len(reviews) \in Nat /\ reviews \in Seq(ReviewRows)
  BY Rows DEF ReviewInv, Types
<1>2. DOMAIN versions \subseteq DOMAIN versions'
  BY <1>1, LenProperties DEF Grow
<1> QED
  BY <1>1, <1>2 DEF Committed, Kept, RowInv, ReviewInv

(* A step that changes one review.                                           *)
LEMMA OneReview ==
  ASSUME ReviewInv, NEW r \in 1 .. Len(reviews), NEW x \in ReviewRows, Agrees(x),
         x.seed = reviews[r].seed,
         reviews[r].st \in Success => x.st = reviews[r].st /\ x.result = reviews[r].result,
         reviews' = [reviews EXCEPT ![r] = x], Grow(versions, versions')
  PROVE  Committed /\ Len(reviews') = Len(reviews)
<1>1. /\ Len(versions) \in Nat /\ DOMAIN versions = 1 .. Len(versions)
      /\ Len(reviews) \in Nat /\ DOMAIN reviews = 1 .. Len(reviews)
      /\ reviews \in Seq(ReviewRows)
  BY Rows DEF ReviewInv, Types
<1>2. DOMAIN versions \subseteq DOMAIN versions'
  BY <1>1, LenProperties DEF Grow
<1>3. /\ reviews' \in Seq(ReviewRows)
      /\ Len(reviews') = Len(reviews)
      /\ \A j \in 1 .. Len(reviews) : reviews'[j] = IF j = r THEN x ELSE reviews[j]
  BY <1>1, ExceptSeq
<1>4. DOMAIN reviews' = 1 .. Len(reviews)
  BY <1>3, LenProperties
<1>5. Kept
  BY <1>1, <1>3 DEF Kept
<1>6. RowInv'
  BY <1>1, <1>2, <1>3, <1>4 DEF RowInv, ReviewInv
<1> QED
  BY <1>3, <1>5, <1>6 DEF Committed

(* A step that adds a review.                                                *)
LEMMA NewReview ==
  ASSUME ReviewInv, NEW x \in ReviewRows, Agrees(x), x.seed \in DOMAIN versions,
         reviews' = Append(reviews, x), Grow(versions, versions')
  PROVE  Committed
<1>1. /\ Len(versions) \in Nat /\ DOMAIN versions = 1 .. Len(versions)
      /\ Len(reviews) \in Nat /\ DOMAIN reviews = 1 .. Len(reviews)
      /\ reviews \in Seq(ReviewRows)
  BY Rows DEF ReviewInv, Types
<1>2. DOMAIN versions \subseteq DOMAIN versions'
  BY <1>1, LenProperties DEF Grow
<1>3. /\ reviews' \in Seq(ReviewRows)
      /\ Len(reviews') = Len(reviews) + 1
      /\ \A j \in 1 .. Len(reviews) : reviews'[j] = reviews[j]
      /\ reviews'[Len(reviews) + 1] = x
  BY <1>1, AppendProperties
<1>4. DOMAIN reviews' = 1 .. Len(reviews) + 1
  BY <1>3, LenProperties
<1>5. Kept
  BY <1>1, <1>3 DEF Kept
<1>6. RowInv'
  BY <1>1, <1>2, <1>3, <1>4 DEF RowInv, ReviewInv
<1> QED
  BY <1>5, <1>6 DEF Committed

(* Reviews only added, every pass still has the one it is about.             *)
LEMMA FitsOn ==
  ASSUME NEW p, NEW m \in Nat, NEW n \in Nat, m <= n, Fits(p, m)
  PROVE  Fits(p, n)
BY DEF Fits

(* Passes stay sound while the rows only grow.                               *)
LEMMA SamePass ==
  ASSUME ReviewInv, Kept, UNCHANGED pass
  PROVE  PassInv'
<1>1. Len(reviews) \in Nat /\ Len(reviews') \in Nat /\ Len(reviews) <= Len(reviews')
  BY LenProperties DEF ReviewInv, Types, Kept
<1> QED
  BY <1>1, FitsOn DEF ReviewInv, PassInv

(* One worker goes on.                                                       *)
LEMMA OnePass ==
  ASSUME ReviewInv, Kept, NEW w \in Workers, NEW q \in Passes, Fits(q, Len(reviews')),
         pass' = [pass EXCEPT ![w] = q]
  PROVE  PassInv' /\ pass' \in [Workers -> Passes]
<1>1. Len(reviews) \in Nat /\ Len(reviews') \in Nat /\ Len(reviews) <= Len(reviews')
  BY LenProperties DEF ReviewInv, Types, Kept
<1>2. pass \in [Workers -> Passes]
  BY DEF ReviewInv, Types
<1>3. ASSUME NEW v \in Workers
      PROVE  Fits(pass'[v], Len(reviews'))
  <2>1. CASE v = w
    BY <1>2, <2>1
  <2>2. CASE v # w
    <3>1. pass'[v] = pass[v] /\ Fits(pass[v], Len(reviews))
      BY <1>2, <2>2 DEF ReviewInv, PassInv
    <3> QED
      BY <1>1, <3>1, FitsOn
  <2> QED
    BY <2>1, <2>2
<1> QED
  BY <1>2, <1>3 DEF PassInv

(* The approval stands while the item keeps it.                              *)
LEMMA ApprovalKept ==
  ASSUME ReviewInv, Committed, item'.approved = item.approved, ~ item.open => ~ item'.open
  PROVE  ApprovalInv'
<1>1. /\ Len(versions) \in Nat /\ DOMAIN versions = 1 .. Len(versions)
      /\ Len(reviews) \in Nat /\ DOMAIN reviews = 1 .. Len(reviews)
  BY Rows DEF ReviewInv
<1>2. /\ Len(versions') \in Nat /\ DOMAIN versions' = 1 .. Len(versions')
      /\ Len(reviews') \in Nat /\ DOMAIN reviews' = 1 .. Len(reviews')
  BY LenProperties DEF Committed, Grow, Kept
<1>3. ASSUME item'.approved # NoVersion
      PROVE  /\ Approval(item', versions')
             /\ \E r \in DOMAIN reviews' : /\ reviews'[r].st \in Success
                                           /\ reviews'[r].result = versions'[item'.approved].body
  <2>1. /\ ~ item.open /\ item.approved \in 1 .. Len(versions)
        /\ versions[item.approved].st = "approved"
    BY <1>1, <1>3 DEF ReviewInv, ApprovalInv, Approval
  <2>2. PICK r \in 1 .. Len(reviews) : /\ reviews[r].st \in Success
                                       /\ reviews[r].result = versions[item.approved].body
    BY <1>1, <1>3 DEF ReviewInv, ApprovalInv
  <2>3. versions'[item.approved] = versions[item.approved] /\ Len(versions) <= Len(versions')
    BY <2>1 DEF Committed, Grow
  <2>4. /\ reviews'[r].st \in Success /\ reviews'[r].result = reviews[r].result
        /\ Len(reviews) <= Len(reviews')
    BY <2>2 DEF Committed, Kept
  <2>5. r \in DOMAIN reviews' /\ item.approved \in DOMAIN versions'
    BY <1>1, <1>2, <2>1, <2>3, <2>4
  <2> QED
    BY <2>1, <2>2, <2>3, <2>4, <2>5 DEF Approval
<1> QED
  BY <1>3 DEF ApprovalInv, Approval

(* What every step must be shown to do.                                      *)
Sound == ReviewInv' /\ Committed /\ (item.approved # NoVersion => item'.approved = item.approved)

(* A step of the human, or of time, that is no approval.                     *)
LEMMA CommandSound ==
  ASSUME ReviewInv, Committed, UNCHANGED pass, item' \in Items,
         item'.approved = item.approved, ~ item.open => ~ item'.open
  PROVE  Sound
<1>1. Types'
  BY DEF ReviewInv, Types, Committed, Grow, Kept
<1>2. PassInv' /\ ApprovalInv'
  BY SamePass, ApprovalKept DEF Committed
<1> QED
  BY <1>1, <1>2 DEF Sound, ReviewInv, Committed

(* A step of one worker.                                                     *)
LEMMA WorkerSound ==
  ASSUME ReviewInv, Committed, NEW w \in Workers, NEW q \in Passes, Fits(q, Len(reviews')),
         pass' = [pass EXCEPT ![w] = q], item' \in Items, item'.approved = item.approved,
         ~ item.open => ~ item'.open
  PROVE  Sound
<1>1. PassInv' /\ pass' \in [Workers -> Passes] /\ ApprovalInv'
  BY OnePass, ApprovalKept DEF Committed
<1>2. Types'
  BY <1>1 DEF ReviewInv, Types, Committed, Grow, Kept
<1> QED
  BY <1>1, <1>2 DEF Sound, ReviewInv, Committed

(* A review that is queued again.                                            *)
LEMMA RequeuedRow ==
  ASSUME NEW x \in ReviewRows, Agrees(x), x.st \in Live
  PROVE  /\ Requeued(x) \in ReviewRows /\ Agrees(Requeued(x))
         /\ Requeued(x).seed = x.seed /\ Requeued(x).st = x.st
         /\ Requeued(x).result = x.result
<1>1. Requeued(x) \in ReviewRows
  BY DEF Requeued, ReviewRows, Live
<1>2. /\ Requeued(x).seed = x.seed /\ Requeued(x).st = x.st /\ Requeued(x).result = x.result
      /\ Requeued(x).gate = x.gate /\ Requeued(x).run = "queued"
      /\ Requeued(x).token = NoToken
  BY DEF Requeued, ReviewRows
<1> QED
  BY <1>1, <1>2 DEF Agrees, Live, ReviewTerminal, Success

(* A review that is stopped.                                                 *)
LEMMA StoppedRow ==
  ASSUME NEW x \in ReviewRows, NEW st \in {"cancelled", "failed"}
  PROVE  /\ Stopped(x, st) \in ReviewRows /\ Agrees(Stopped(x, st))
         /\ Stopped(x, st).seed = x.seed
<1>1. Stopped(x, st) \in ReviewRows
  BY DEF Stopped, ReviewRows, Live, ReviewTerminal, NoVersion
<1>2. /\ Stopped(x, st).seed = x.seed /\ Stopped(x, st).st = st /\ Stopped(x, st).run = st
      /\ Stopped(x, st).gate = "none" /\ Stopped(x, st).token = NoToken
  BY DEF Stopped, ReviewRows
<1> QED
  BY <1>1, <1>2 DEF Agrees, Live, ReviewTerminal, Success

(* A new review, or a waiver.                                                *)
LEMMA ReviewRow ==
  ASSUME Rounds \in Nat, Types, NEW v \in DOMAIN versions, NEW mode \in {"qc", "waived"},
         NEW st \in {"queued", "converged"}, NEW cadence \in Cadences
  PROVE  /\ Review(v, mode, st, cadence) \in ReviewRows
         /\ Agrees(Review(v, mode, st, cadence))
         /\ Review(v, mode, st, cadence).seed = v
<1>1. v \in Nat /\ Body(v) \in Bodies
  BY Rows DEF Body, VersionRows
<1>2. Review(v, mode, st, cadence) \in ReviewRows
  BY <1>1 DEF Review, ReviewRows, Live, ReviewTerminal, Success, NoVersion
<1> QED
  BY <1>2 DEF Review, Agrees, Live, ReviewTerminal, Success

-----------------------------------------------------------------------------
(* The human's commands.                                                     *)

(* The latest version, when there is one.                                    *)
LEMMA LatestVersion ==
  ASSUME Types, Latest # NoVersion
  PROVE  Latest \in 1 .. Len(versions) /\ Latest \in DOMAIN versions
BY Rows DEF Latest, NoVersion

(* A saved candidate supersedes only undecided versions.                     *)
LEMMA SavePlanCandidateSound ==
  ASSUME ReviewInv, SavePlanCandidate
  PROVE  Sound
<1> DEFINE superseded == [v \in DOMAIN versions |->
             IF v = Latest THEN [versions[v] EXCEPT !.st = "superseded"] ELSE versions[v]]
<1>1. Types /\ Len(versions) \in Nat /\ DOMAIN versions = 1 .. Len(versions)
      /\ versions \in Seq(VersionRows)
  BY Rows DEF ReviewInv, Types
<1>2. Grow(versions, superseded)
  <2>1. CASE Latest = NoVersion
    <3>1. superseded = versions
      BY <1>1, <2>1 DEF Latest, NoVersion
    <3> QED
      BY <1>1, <3>1, GrowSame
  <2>2. CASE Latest # NoVersion
    <3>1. Latest \in 1 .. Len(versions) /\ versions[Latest].st # "approved"
      BY <1>1, <2>2, LatestVersion DEF SavePlanCandidate
    <3>2. superseded = [versions EXCEPT ![Latest].st = "superseded"]
      BY <1>1, <3>1
    <3> QED
      BY <1>1, <3>1, <3>2, GrowStatus
  <2> QED
    BY <2>1, <2>2
<1>3. PICK body \in Bodies : versions' = InsertPlanVersion(superseded, body, "human")
  BY DEF SavePlanCandidate
<1> HIDE DEF superseded
<1>4. Grow(versions, versions')
  BY <1>1, <1>2, <1>3, GrowInsert DEF Origins
<1>5. UNCHANGED <<reviews, item, pass>> /\ item \in Items
  BY DEF SavePlanCandidate, Human, ReviewInv, Types
<1>6. Committed
  BY <1>4, <1>5, SameReviews
<1> QED
  BY <1>5, <1>6, CommandSound

(* A plan sent to review gets a queued review of its latest version.         *)
LEMMA SendPlanToQcSound ==
  ASSUME Rounds \in Nat, ReviewInv, SendPlanToQc
  PROVE  Sound
<1>1. Types /\ Latest \in 1 .. Len(versions) /\ Latest \in DOMAIN versions
      /\ versions[Latest].st # "approved" /\ versions \in Seq(VersionRows)
  BY LatestVersion DEF ReviewInv, Types, SendPlanToQc
<1>2. Grow(versions, versions')
  BY <1>1, GrowStatus DEF SendPlanToQc
<1>3. PICK cadence \in Cadences :
        reviews' = Append(reviews, Review(Latest, "qc", "queued", cadence))
  BY DEF SendPlanToQc
<1>4. Committed
  BY <1>1, <1>2, <1>3, ReviewRow, NewReview
<1>5. /\ UNCHANGED pass /\ item.open /\ item' \in Items /\ item'.approved = item.approved
  BY DEF SendPlanToQc, Human, ReviewInv, Types, Items
<1> QED
  BY <1>4, <1>5, CommandSound

(* A waiver is a finished review of exactly this version.                    *)
LEMMA SkipQcSound ==
  ASSUME Rounds \in Nat, ReviewInv, SkipQc
  PROVE  Sound
<1>1. Types /\ Latest \in DOMAIN versions /\ versions \in Seq(VersionRows)
  BY LatestVersion DEF ReviewInv, Types, SkipQc
<1>2. Grow(versions, versions')
  BY <1>1, GrowSame DEF SkipQc
<1>3. reviews' = Append(reviews, Review(Latest, "waived", "converged", "automatic"))
  BY DEF SkipQc
<1>4. Committed
  BY <1>1, <1>2, <1>3, ReviewRow, NewReview DEF Cadences
<1>5. /\ UNCHANGED pass /\ item.open /\ item' \in Items /\ item'.approved = item.approved
  BY DEF SkipQc, Human, ReviewInv, Types, Items
<1> QED
  BY <1>4, <1>5, CommandSound

(* A plan is returned only while it is undecided.                            *)
LEMMA ReturnPlanSound ==
  ASSUME ReviewInv, RequestPlanChanges \/ RejectPlan
  PROVE  Sound
<1>1. Types /\ Latest \in 1 .. Len(versions)
      /\ versions[Latest].st # "approved" /\ versions \in Seq(VersionRows)
  BY LatestVersion DEF ReviewInv, Types, RequestPlanChanges, RejectPlan
<1>2. Grow(versions, versions')
  BY <1>1, GrowStatus DEF RequestPlanChanges, RejectPlan
<1>3. /\ UNCHANGED <<pass, reviews>> /\ item.open /\ item' \in Items
      /\ item'.approved = item.approved
  BY DEF RequestPlanChanges, RejectPlan, Human, ReviewInv, Types, Items
<1>4. Committed
  BY <1>2, <1>3, SameReviews
<1> QED
  BY <1>3, <1>4, CommandSound

(* A row, and the version its review is about.                               *)
LEMMA Row ==
  ASSUME ReviewInv, NEW r \in DOMAIN reviews
  PROVE  /\ r \in 1 .. Len(reviews) /\ reviews[r] \in ReviewRows /\ Agrees(reviews[r])
         /\ reviews[r].seed \in 1 .. Len(versions)
         /\ versions[reviews[r].seed] \in VersionRows
         /\ Body(reviews[r].seed) \in Bodies
BY Rows DEF ReviewInv, RowInv, Body, VersionRows

(* The version goes back to the human, or has left QC already.               *)
LEMMA ReturnedGrows ==
  ASSUME NEW vs \in Seq(VersionRows), NEW v \in 1 .. Len(vs)
  PROVE  Grow(vs, Returned(vs, v)) /\ Len(Returned(vs, v)) = Len(vs)
<1>1. CASE vs[v].st = "in_qc"
  <2>1. Grow(vs, [vs EXCEPT ![v].st = "candidate"])
    BY <1>1, GrowStatus
  <2>2. Returned(vs, v) = [vs EXCEPT ![v].st = "candidate"]
    BY <1>1 DEF Returned
  <2>3. vs \in [1 .. Len(vs) -> VersionRows] /\ Len(vs) \in Nat
    BY LenProperties
  <2>4. DOMAIN Returned(vs, v) = 1 .. Len(vs)
    BY <2>2, <2>3
  <2>5. Returned(vs, v) \in Seq(VersionRows)
    BY <2>1, <2>2 DEF Grow
  <2> QED
    BY <2>1, <2>2, <2>3, <2>4, <2>5, LenProperties
<1>2. CASE vs[v].st # "in_qc"
  BY <1>2, GrowSame DEF Returned
<1> QED
  BY <1>1, <1>2

(* An approval is of the latest version, by a review that resulted in it.    *)
LEMMA ApprovePlanSound ==
  ASSUME ReviewInv, NEW r \in DOMAIN reviews, ApprovePlan(r)
  PROVE  Sound
<1> DEFINE x == [reviews[r] EXCEPT !.run = "approved"]
<1>1. /\ r \in 1 .. Len(reviews) /\ reviews[r] \in ReviewRows /\ Agrees(reviews[r])
      /\ reviews[r].st \in Success /\ Types
  BY Row DEF ApprovePlan, ReviewInv
<1>2. x \in ReviewRows /\ Agrees(x) /\ x.seed = reviews[r].seed /\ x.st = reviews[r].st
      /\ x.result = reviews[r].result
  <2>1. x \in ReviewRows
    BY <1>1 DEF ReviewRows
  <2>2. /\ x.seed = reviews[r].seed /\ x.st = reviews[r].st /\ x.result = reviews[r].result
        /\ x.gate = reviews[r].gate /\ x.token = reviews[r].token /\ x.run = "approved"
    BY <1>1 DEF ReviewRows
  <2> QED
    BY <1>1, <2>1, <2>2 DEF Agrees, ReviewTerminal, Success
<1>3. reviews' = [reviews EXCEPT ![r] = x]
  BY DEF ApprovePlan
<1> HIDE DEF x
<1>4. reviews[r].seed \in 1 .. Len(versions) /\ Len(versions) \in Nat
  BY <1>1, Row, Rows
<1>5. Latest \in 1 .. Len(versions) /\ versions[Latest].st # "approved"
  BY <1>4 DEF ApprovePlan, Latest
<1>6. versions' = [versions EXCEPT ![Latest].st = "approved"] /\ versions \in Seq(VersionRows)
  BY DEF ApprovePlan, ReviewInv, Types
<1>7. Grow(versions, versions')
  BY <1>5, <1>6, GrowStatus
<1>8. Committed
  BY <1>1, <1>2, <1>3, <1>7, OneReview
<1>9. item' = [st |-> "awaiting_approval", open |-> FALSE, approved |-> Latest]
      /\ UNCHANGED pass /\ item.open
  BY DEF ApprovePlan, Human
<1>10. item' \in Items
  BY <1>4, <1>5, <1>9 DEF Items
<1>11. Types' /\ PassInv'
  BY <1>8, <1>9, <1>10, SamePass DEF ReviewInv, Types, Committed, Grow, Kept
<1>12. ApprovalInv'
  <2>1. versions[Latest] \in VersionRows
    BY <1>1, <1>5, Rows
  <2>2. versions \in [1 .. Len(versions) -> VersionRows]
    BY <1>6, LenProperties
  <2>3. DOMAIN versions' = 1 .. Len(versions)
    BY <1>6, <2>2
  <2>4. versions'[Latest].st = "approved" /\ versions'[Latest].body = versions[Latest].body
    BY <1>5, <1>6, <2>1, <2>2 DEF VersionRows
  <2>5. /\ reviews'[r].st \in Success /\ reviews'[r].result = reviews[r].result
        /\ reviews[r].result = versions[Latest].body
    BY <1>1, <1>8 DEF Committed, Kept, ApprovePlan, Body
  <2>6. r \in DOMAIN reviews'
    <3>1. Len(reviews') \in Nat /\ DOMAIN reviews' = 1 .. Len(reviews')
      BY <1>8, LenProperties DEF Committed, Kept
    <3>2. Len(reviews) \in Nat /\ Len(reviews) <= Len(reviews')
      BY <1>1, <1>8, Rows DEF Committed, Kept
    <3> QED
      BY <1>1, <3>1, <3>2
  <2>7. item'.approved = Latest /\ ~ item'.open
    BY <1>9
  <2> QED
    BY <1>5, <2>3, <2>4, <2>5, <2>6, <2>7 DEF ApprovalInv, Approval
<1> QED
  BY <1>8, <1>9, <1>11, <1>12 DEF Sound, ReviewInv, Committed, ApprovalInv, Approval

(* A cancelled review ends with its run, whatever its worker does.           *)
LEMMA CancelReviewSound ==
  ASSUME ReviewInv, NEW r \in DOMAIN reviews, CancelReview(r)
  PROVE  Sound
<1> DEFINE s == Stopped(reviews[r], "cancelled")
           b == Body(reviews[r].seed)
           x == [s EXCEPT !.result = b]
<1>1. /\ r \in 1 .. Len(reviews) /\ reviews[r] \in ReviewRows /\ reviews[r].st \in Live
      /\ Body(reviews[r].seed) \in Bodies /\ reviews[r].seed \in 1 .. Len(versions)
      /\ versions \in Seq(VersionRows)
  BY Row DEF CancelReview, ReviewInv, Types
<1>2. reviews' = [reviews EXCEPT ![r] = x]
  BY DEF CancelReview
<1>3. s \in ReviewRows /\ Agrees(s) /\ s.seed = reviews[r].seed
  BY <1>1, StoppedRow
<1>4. b \in Bodies
  BY <1>1
<1> HIDE DEF s, b
<1>5. /\ x \in ReviewRows /\ x.seed = s.seed /\ x.st = s.st /\ x.run = s.run
      /\ x.token = s.token /\ x.gate = s.gate
  BY <1>3, <1>4 DEF ReviewRows
<1> HIDE DEF x
<1>6. Agrees(x)
  BY <1>3, <1>5 DEF Agrees
<1>7. Grow(versions, versions')
  BY <1>1, ReturnedGrows DEF CancelReview
<1>8. reviews[r].st \notin Success
  BY <1>1 DEF Live, Success
<1>9. Committed
  BY <1>1, <1>2, <1>3, <1>5, <1>6, <1>7, <1>8, OneReview
<1>10. UNCHANGED <<pass, item>> /\ item \in Items
  BY DEF CancelReview, Human, ReviewInv, Types
<1> QED
  BY <1>9, <1>10, CommandSound

(* A human's answer or ruling queues the run again, and a setting changes    *)
(* what it will do.                                                          *)
LEMMA AnswerSound ==
  ASSUME RoundCap \in Nat, ReviewInv, NEW r \in DOMAIN reviews,
         ResumeReview(r) \/ AdjudicateReview(r) \/ PatchReview(r)
  PROVE  Sound
<1>1. /\ r \in 1 .. Len(reviews) /\ reviews[r] \in ReviewRows /\ Agrees(reviews[r])
      /\ versions \in Seq(VersionRows)
  BY Row DEF ReviewInv, Types
<1>2. reviews[r].st \in Live
  BY DEF ResumeReview, AdjudicateReview, PatchReview, Live
<1>3. PICK x \in ReviewRows : /\ reviews' = [reviews EXCEPT ![r] = x]
                              /\ Agrees(x) /\ x.seed = reviews[r].seed
  <2>1. CASE ResumeReview(r)
    <3> DEFINE q == Requeued(reviews[r])
    <3>1. PICK accepted \in BOOLEAN, cadence \in Cadences :
            reviews' = [reviews EXCEPT ![r] = [q EXCEPT !.accepted = accepted,
                                                        !.cadence = cadence]]
      BY <1>1, <2>1 DEF ResumeReview, ReviewRows, Cadences
    <3>2. q \in ReviewRows /\ Agrees(q) /\ q.seed = reviews[r].seed
      BY <1>1, <1>2, RequeuedRow
    <3> DEFINE y == [q EXCEPT !.accepted = accepted, !.cadence = cadence]
    <3> HIDE DEF q
    <3>3. /\ y \in ReviewRows /\ y.seed = q.seed /\ y.st = q.st /\ y.run = q.run
          /\ y.token = q.token /\ y.gate = q.gate
      BY <3>2 DEF ReviewRows
    <3>4. reviews' = [reviews EXCEPT ![r] = y]
      BY <3>1
    <3> HIDE DEF y
    <3> QED
      BY <3>2, <3>3, <3>4 DEF Agrees
  <2>2. CASE AdjudicateReview(r)
    <3> DEFINE q == Requeued(reviews[r])
    <3>1. PICK rulings \in Nat, max \in Nat :
            reviews' = [reviews EXCEPT ![r] = [q EXCEPT !.rulings = rulings, !.max = max]]
      <4>1. /\ reviews[r].rulings + 1 \in Nat /\ reviews[r].max + 1 \in Nat
            /\ reviews[r].max \in Nat
        BY <1>1 DEF ReviewRows
      <4> QED
        BY <2>2, <4>1 DEF AdjudicateReview
    <3>2. q \in ReviewRows /\ Agrees(q) /\ q.seed = reviews[r].seed
      BY <1>1, <1>2, RequeuedRow
    <3> DEFINE y == [q EXCEPT !.rulings = rulings, !.max = max]
    <3> HIDE DEF q
    <3>3. /\ y \in ReviewRows /\ y.seed = q.seed /\ y.st = q.st /\ y.run = q.run
          /\ y.token = q.token /\ y.gate = q.gate
      BY <3>2 DEF ReviewRows
    <3>4. reviews' = [reviews EXCEPT ![r] = y]
      BY <3>1
    <3> HIDE DEF y
    <3> QED
      BY <3>2, <3>3, <3>4 DEF Agrees
  <2>3. CASE PatchReview(r)
    <3> DEFINE q == reviews[r]
    <3>1. PICK cadence \in Cadences, max \in Nat, patches \in Nat :
            reviews' = [reviews EXCEPT ![r] = [q EXCEPT !.cadence = cadence, !.max = max,
                                                        !.patches = patches]]
      <4>1. reviews[r].patches + 1 \in Nat /\ 1 .. RoundCap \subseteq Nat
        BY <1>1 DEF ReviewRows
      <4> QED
        BY <2>3, <4>1 DEF PatchReview
    <3>2. q \in ReviewRows /\ Agrees(q) /\ q.seed = reviews[r].seed
      BY <1>1
    <3> DEFINE y == [q EXCEPT !.cadence = cadence, !.max = max, !.patches = patches]
    <3> HIDE DEF q
    <3>3. /\ y \in ReviewRows /\ y.seed = q.seed /\ y.st = q.st /\ y.run = q.run
          /\ y.token = q.token /\ y.gate = q.gate
      BY <3>2 DEF ReviewRows
    <3>4. reviews' = [reviews EXCEPT ![r] = y]
      BY <3>1
    <3> HIDE DEF y
    <3> QED
      BY <3>2, <3>3, <3>4 DEF Agrees
  <2> QED
    BY <2>1, <2>2, <2>3
<1>4. /\ UNCHANGED <<versions, item, pass>> /\ item \in Items
  BY DEF ResumeReview, AdjudicateReview, PatchReview, Human, ReviewInv, Types
<1>5. Grow(versions, versions')
  BY <1>1, <1>4, GrowSame
<1>6. reviews[r].st \notin Success
  BY <1>2 DEF Live, Success
<1>7. Committed
  BY <1>1, <1>3, <1>5, <1>6, OneReview
<1> QED
  BY <1>4, <1>7, CommandSound

-----------------------------------------------------------------------------
(* Leases: they run out, are renewed, given back and taken back.             *)

(* A run that is worked on belongs to a review that is not finished.         *)
LEMMA ReviewingIsLive ==
  ASSUME NEW x \in ReviewRows, Agrees(x), x.run = "reviewing"
  PROVE  x.st \in Live /\ x.st \notin Success
BY DEF ReviewRows, Agrees, Live, ReviewTerminal, Success

(* The review a worker's pass is about.                                      *)
LEMMA PassRow ==
  ASSUME ReviewInv, NEW w \in Workers, pass[w].pc # "idle"
  PROVE  pass[w].r \in DOMAIN reviews /\ pass[w].r \in 1 .. Len(reviews)
BY Rows DEF ReviewInv, PassInv, Fits

(* A lease that runs late, or is renewed, changes nothing else.              *)
LEMMA LateRow ==
  ASSUME NEW x \in ReviewRows, Agrees(x), NEW late \in BOOLEAN
  PROVE  LET y == [x EXCEPT !.late = late]
         IN  /\ y \in ReviewRows /\ Agrees(y) /\ y.seed = x.seed /\ y.st = x.st
             /\ y.result = x.result
<1> DEFINE y == [x EXCEPT !.late = late]
<1>1. /\ y \in ReviewRows /\ y.seed = x.seed /\ y.st = x.st /\ y.result = x.result
      /\ y.run = x.run /\ y.token = x.token /\ y.gate = x.gate
  BY DEF ReviewRows
<1> HIDE DEF y
<1>2. Agrees(y)
  BY <1>1 DEF Agrees
<1> QED
  BY <1>1, <1>2 DEF y

(* The clock and a renewal of the lease.                                     *)
LEMMA LeaseSound ==
  ASSUME ReviewInv,
         \/ \E r \in DOMAIN reviews : LeaseRunsOut(r)
         \/ \E w \in Workers : RenewReviewLease(w)
  PROVE  Sound
<1>1. PICK r \in DOMAIN reviews, late \in BOOLEAN :
        reviews' = [reviews EXCEPT ![r].late = late] /\ UNCHANGED <<versions, item, pass>>
  BY PassRow DEF LeaseRunsOut, RenewReviewLease, Mine
<1> DEFINE y == [reviews[r] EXCEPT !.late = late]
<1>2. /\ r \in 1 .. Len(reviews) /\ reviews[r] \in ReviewRows /\ Agrees(reviews[r])
      /\ versions \in Seq(VersionRows) /\ item \in Items
  BY Row DEF ReviewInv, Types
<1>3. /\ y \in ReviewRows /\ Agrees(y) /\ y.seed = reviews[r].seed /\ y.st = reviews[r].st
      /\ y.result = reviews[r].result
  BY <1>2, LateRow
<1>4. reviews' = [reviews EXCEPT ![r] = y]
  BY <1>1
<1> HIDE DEF y
<1>5. Committed
  BY <1>1, <1>2, <1>3, <1>4, GrowSame, OneReview
<1> QED
  BY <1>1, <1>2, <1>5, CommandSound

(* A worker that shuts down hands its review back.                           *)
LEMMA DrainSound ==
  ASSUME ReviewInv, NEW w \in Workers, Drain(w)
  PROVE  Sound
<1> DEFINE r == pass[w].r
           y == Requeued(reviews[r])
<1>1. r \in DOMAIN reviews /\ reviews[r].run = "reviewing"
  BY PassRow DEF Drain, Mine, ownsReviewLease
<1> HIDE DEF r
<1>2. /\ r \in 1 .. Len(reviews) /\ reviews[r] \in ReviewRows /\ Agrees(reviews[r])
      /\ versions \in Seq(VersionRows) /\ item \in Items
  BY <1>1, Row DEF ReviewInv, Types
<1>3. /\ y \in ReviewRows /\ Agrees(y) /\ y.seed = reviews[r].seed /\ y.st = reviews[r].st
      /\ y.result = reviews[r].result
  BY <1>1, <1>2, ReviewingIsLive, RequeuedRow
<1>4. reviews' = [reviews EXCEPT ![r] = y] /\ UNCHANGED <<versions, item, pass>>
  BY DEF Drain, r
<1> HIDE DEF y
<1>5. Committed
  BY <1>2, <1>3, <1>4, GrowSame, OneReview
<1> QED
  BY <1>2, <1>4, <1>5, CommandSound

(* Recovery requeues or parks every review whose lease ran out.              *)
LEMMA RecoverSound ==
  ASSUME ReviewInv, RecoverExpiredReviewOnly
  PROVE  Sound
<1> DEFINE n == Len(reviews)
<1>1. /\ n \in Nat /\ DOMAIN reviews = 1 .. n /\ versions \in Seq(VersionRows) /\ item \in Items
      /\ Len(versions) \in Nat
  BY Rows DEF ReviewInv, Types
<1> HIDE DEF n
<1>2. /\ DOMAIN reviews' = 1 .. n
      /\ reviews' = [r \in 1 .. n |-> reviews'[r]]
      /\ \A r \in 1 .. n : \/ reviews'[r] = reviews[r]
                           \/ reviews'[r] = Requeued(reviews[r]) /\ reviews[r].run = "reviewing"
  <2>1. reviews' = [r \in 1 .. n |->
                      IF reviews[r].run = "reviewing" /\ reviews[r].late
                      THEN Requeued(reviews[r]) ELSE reviews[r]]
    BY <1>1 DEF RecoverExpiredReviewOnly
  <2>2. DOMAIN reviews' = 1 .. n
    BY <2>1
  <2>3. reviews' = [r \in 1 .. n |-> reviews'[r]]
    BY <2>1
  <2>4. ASSUME NEW r \in 1 .. n
        PROVE  \/ reviews'[r] = reviews[r]
               \/ reviews'[r] = Requeued(reviews[r]) /\ reviews[r].run = "reviewing"
    BY <2>1
  <2> QED
    BY <2>2, <2>3, <2>4
<1>3. ASSUME NEW r \in 1 .. n
      PROVE  /\ reviews'[r] \in ReviewRows /\ Agrees(reviews'[r])
             /\ reviews'[r].seed = reviews[r].seed /\ reviews'[r].st = reviews[r].st
             /\ reviews'[r].result = reviews[r].result
  <2>1. reviews[r] \in ReviewRows /\ Agrees(reviews[r])
    BY <1>1, Row
  <2> QED
    BY <1>2, <2>1, ReviewingIsLive, RequeuedRow
<1>4. reviews' \in [1 .. n -> ReviewRows]
  BY <1>2, <1>3
<1>5. reviews' \in Seq(ReviewRows)
  BY <1>1, <1>4, SeqDef
<1>6. Len(reviews') = n
  BY <1>1, <1>2, <1>5, LenProperties
<1>7. UNCHANGED <<versions, item, pass>>
  BY DEF RecoverExpiredReviewOnly
<1>8. Kept
  BY <1>1, <1>3, <1>5, <1>6 DEF Kept, n
<1>9. RowInv'
  BY <1>1, <1>2, <1>3, <1>7 DEF RowInv, ReviewInv
<1>10. Committed
  BY <1>1, <1>7, <1>8, <1>9, GrowSame DEF Committed
<1> QED
  BY <1>1, <1>7, <1>10, CommandSound

(* A worker that dies leaves the rows as they are.                           *)
LEMMA CrashSound ==
  ASSUME ReviewInv, NEW w \in Workers, Crash(w)
  PROVE  Sound
<1>1. /\ UNCHANGED <<versions, reviews, item>> /\ pass' = [pass EXCEPT ![w] = Idle]
      /\ versions \in Seq(VersionRows) /\ item \in Items
  BY DEF Crash, Ends, ReviewInv, Types
<1>2. Committed
  BY <1>1, GrowSame, SameReviews
<1>3. Idle \in Passes /\ Fits(Idle, Len(reviews'))
  BY DEF Passes, Idle, Fits
<1> QED
  BY <1>1, <1>2, <1>3, WorkerSound

-----------------------------------------------------------------------------
(* The reviewer/PM loop.                                                     *)

(* A pass that is given up.                                                  *)
LEMMA FailingFits ==
  ASSUME NEW p, NEW n \in Nat, p.r \in 1 .. n
  PROVE  Failing(p) \in Passes /\ Fits(Failing(p), n)
BY DEF Failing, Passes, FailingPasses, Fits

(* A pass that goes on, with another place, gate, round, flag and contents.  *)
Moved(p, pc, gate, round, flag, body, before) ==
  [p EXCEPT !.pc = pc, !.gate = gate, !.round = round, !.flag = flag, !.body = body,
            !.before = before]

(* A pass that goes on with these values is a pass, and fits.                *)
LEMMA MovedFits ==
  ASSUME NEW p \in FullPasses, NEW n \in Nat, p.r \in 1 .. n, NEW pc \in Going,
         NEW gate \in PassGates, NEW round \in Nat,
         NEW flag \in BOOLEAN, NEW body \in Bodies, NEW before \in Bodies,
         pc = "parking" => gate \in Gates, pc = "completing" => gate \in Success
  PROVE  /\ Moved(p, pc, gate, round, flag, body, before) \in Passes
         /\ Fits(Moved(p, pc, gate, round, flag, body, before), n)
<1> DEFINE q == Moved(p, pc, gate, round, flag, body, before)
<1>1. q \in FullPasses
  BY DEF FullPasses, Moved, Going
<1>2. q.r = p.r /\ q.pc = pc /\ q.gate = gate
  BY DEF FullPasses, Moved
<1> HIDE DEF q
<1>3. q \in Passes /\ Fits(q, n)
  BY <1>1, <1>2 DEF Passes, Fits, Going, Pcs
<1> QED
  BY <1>3 DEF q

(* The values a pass holds.                                                  *)
LEMMA PassFields ==
  ASSUME NEW p \in FullPasses
  PROVE  /\ p.pc \in Pcs /\ p.r \in Nat /\ p.max \in Nat /\ p.round \in Nat
         /\ p.flag \in BOOLEAN /\ p.body \in Bodies /\ p.before \in Bodies
         /\ p.gate \in PassGates
         /\ p.kind \in {"fresh", "human", "operational"} /\ p.cadence \in Cadences
BY DEF FullPasses

(* So it is when the pass is about to park,                                  *)
LEMMA ParkFits ==
  ASSUME NEW p \in FullPasses, NEW n \in Nat, p.r \in 1 .. n, NEW gate \in Gates,
         NEW body \in Bodies
  PROVE  Park(p, gate, body) \in Passes /\ Fits(Park(p, gate, body), n)
<1>1. Park(p, gate, body) = Moved(p, "parking", gate, p.round, p.flag, body, p.before)
  BY DEF Park, Moved, FullPasses
<1>2. /\ "parking" \in Going /\ "parking" # "completing"
      /\ gate \in PassGates
  BY DEF Going, Pcs, PassGates
<1> QED
  BY <1>1, <1>2, PassFields, MovedFits

(* when it is about to complete,                                             *)
LEMMA FinishFits ==
  ASSUME NEW p \in FullPasses, NEW n \in Nat, p.r \in 1 .. n, NEW st \in Success
  PROVE  Finish(p, st) \in Passes /\ Fits(Finish(p, st), n)
<1>1. Finish(p, st) = Moved(p, "completing", st, p.round, p.flag, p.body, p.before)
  BY DEF Finish, Moved, FullPasses
<1>2. /\ "completing" \in Going /\ "parking" # "completing"
      /\ st \in PassGates
  BY DEF Going, Pcs, PassGates
<1> QED
  BY <1>1, <1>2, PassFields, MovedFits

(* when it goes on to another round or has none left,                        *)
LEMMA NextRoundFits ==
  ASSUME NEW p \in FullPasses, NEW n \in Nat, p.r \in 1 .. n
  PROVE  NextRound(p) \in Passes /\ Fits(NextRound(p), n)
<1>1. CASE p.round < p.max
  <2> DEFINE next == p.round + 1
             clear == FALSE
  <2>1. NextRound(p) = Moved(p, "reviewing", "none", next, clear, p.body, p.body)
    BY <1>1 DEF NextRound, Moved, FullPasses
  <2>2. /\ "reviewing" \in Going /\ next \in Nat /\ p.body \in Bodies
        /\ "reviewing" # "parking" /\ "reviewing" # "completing"
        /\ "none" \in PassGates /\ clear \in BOOLEAN
    BY PassFields DEF Going, Pcs, PassGates
  <2> HIDE DEF next, clear
  <2> QED
    BY <2>1, <2>2, MovedFits
<1>2. CASE ~ (p.round < p.max)
  BY <1>2, FailingFits DEF NextRound
<1> QED
  BY <1>1, <1>2

(* when the reviewer has answered,                                           *)
LEMMA AfterReviewFits ==
  ASSUME NEW p \in FullPasses, NEW n \in Nat, p.r \in 1 .. n
  PROVE  AfterReview(p) \in Passes /\ Fits(AfterReview(p), n)
<1>1. "after_review" \in Gates /\ "converged" \in Success /\ p.body \in Bodies
  BY PassFields DEF Gates, Success
<1> QED
  BY <1>1, ParkFits, FinishFits DEF AfterReview

(* when the plan has been revised,                                           *)
LEMMA AfterRevisionFits ==
  ASSUME NEW p \in FullPasses, NEW n \in Nat, p.r \in 1 .. n
  PROVE  AfterRevision(p) \in Passes /\ Fits(AfterRevision(p), n)
<1>1. /\ "adjudication" \in Gates /\ "after_revision" \in Gates /\ "cap_reached" \in Success
      /\ p.body \in Bodies /\ p.before \in Bodies
  BY PassFields DEF Gates, Success
<1> QED
  BY <1>1, ParkFits, FinishFits, NextRoundFits DEF AfterRevision

(* and when it starts from what the review had reached.                      *)
LEMMA EnterFits ==
  ASSUME NEW p \in FullPasses, NEW n \in Nat, p.r \in 1 .. n,
         p.kind = "operational" => p.gate \in Steps
  PROVE  Enter(p) \in Passes /\ Fits(Enter(p), n)
<1>1. CASE p.kind = "fresh" \/ (p.kind = "human" /\ p.gate # "after_review")
  <2>1. Enter(p) = NextRound(p)
    BY <1>1 DEF Enter
  <2> QED
    BY <2>1, NextRoundFits
<1>2. CASE p.kind = "human" /\ p.gate = "after_review"
  <2>1. Enter(p) = IF p.round > p.max THEN Failing(p)
                   ELSE IF p.flag THEN [p EXCEPT !.pc = "revising"] ELSE Finish(p, "converged")
    BY <1>2 DEF Enter
  <2>2. [p EXCEPT !.pc = "revising"] =
          Moved(p, "revising", p.gate, p.round, p.flag, p.body, p.before)
    BY DEF Moved, FullPasses
  <2>3. /\ "revising" \in Going /\ "converged" \in Success
        /\ "revising" # "parking" /\ "revising" # "completing"
    BY DEF Going, Pcs, Success
  <2>4. [p EXCEPT !.pc = "revising"] \in Passes /\ Fits([p EXCEPT !.pc = "revising"], n)
    BY <2>2, <2>3, PassFields, MovedFits
  <2> QED
    BY <2>1, <2>3, <2>4, FailingFits, FinishFits
<1>3. CASE p.kind = "operational"
  <2>1. Enter(p) \in {AfterReview(p), AfterRevision(p)}
    BY <1>3 DEF Enter, Steps
  <2> QED
    BY <2>1, AfterReviewFits, AfterRevisionFits
<1> QED
  BY <1>1, <1>2, <1>3, PassFields

-----------------------------------------------------------------------------
(* The worker.                                                               *)

(* The pass of a worker that is in one.                                      *)
LEMMA WorkerPass ==
  ASSUME ReviewInv, NEW w \in Workers, pass[w].pc # "idle"
  PROVE  /\ pass[w].r \in 1 .. Len(reviews) /\ pass[w].r \in DOMAIN reviews
         /\ Len(reviews) \in Nat
         /\ pass[w].pc # "failing" => pass[w] \in FullPasses
         /\ pass[w].pc = "parking" => pass[w].gate \in Gates
         /\ pass[w].pc = "completing" => pass[w].gate \in Success
         /\ pass[w].pc = "claimed" => pass[w].kind = "fresh"
         /\ pass[w].pc = "loaded" /\ pass[w].kind = "operational" => pass[w].gate \in Steps
BY Rows, PassRow DEF ReviewInv, PassInv, Fits

(* A step of a worker that writes nothing.                                   *)
LEMMA ThinkingSound ==
  ASSUME ReviewInv, NEW w \in Workers, NEW q \in Passes, Fits(q, Len(reviews)),
         pass' = [pass EXCEPT ![w] = q], UNCHANGED <<versions, reviews, item>>
  PROVE  Sound
<1>1. versions \in Seq(VersionRows) /\ item \in Items
  BY DEF ReviewInv, Types
<1>2. Committed
  BY <1>1, GrowSame, SameReviews
<1> QED
  BY <1>1, <1>2, WorkerSound

(* A claim gives the run a new token and the worker its lease.               *)
LEMMA ClaimSound ==
  ASSUME NoToken \notin Workers, ReviewInv, NEW w \in Workers, Claim(w)
  PROVE  Sound
<1>1. PICK r \in DOMAIN reviews :
        /\ reviews[r].run = "queued"
        /\ reviews' = [reviews EXCEPT ![r] = [reviews[r] EXCEPT !.run = "reviewing",
                                                                 !.token = w]]
        /\ pass' = [pass EXCEPT ![w] =
              [pc |-> "claimed", r |-> r, max |-> reviews[r].max, cadence |-> "automatic",
               kind |-> "fresh", gate |-> "none", round |-> 0, flag |-> FALSE,
               body |-> Body(reviews[r].seed), before |-> Body(reviews[r].seed)]]
        /\ UNCHANGED <<versions, item>>
  BY DEF Claim
<1>2. /\ r \in 1 .. Len(reviews) /\ reviews[r] \in ReviewRows /\ Agrees(reviews[r])
      /\ Body(reviews[r].seed) \in Bodies
      /\ versions \in Seq(VersionRows) /\ item \in Items
  BY Row DEF ReviewInv, Types
<1> DEFINE x == [reviews[r] EXCEPT !.run = "reviewing", !.token = w]
           q == [pc |-> "claimed", r |-> r, max |-> reviews[r].max, cadence |-> "automatic",
                 kind |-> "fresh", gate |-> "none", round |-> 0, flag |-> FALSE,
                 body |-> Body(reviews[r].seed), before |-> Body(reviews[r].seed)]
<1>3. reviews[r].st \in Live /\ reviews[r].st \notin Success
  BY <1>1, <1>2 DEF ReviewRows, Agrees, Live, ReviewTerminal, Success
<1>4. /\ x \in ReviewRows /\ x.seed = reviews[r].seed /\ x.st = reviews[r].st
      /\ x.run = "reviewing" /\ x.token = w /\ x.gate = reviews[r].gate
  BY <1>2 DEF ReviewRows
<1>5. reviews' = [reviews EXCEPT ![r] = x]
  BY <1>1
<1> HIDE DEF x
<1>6. Agrees(x)
  BY <1>2, <1>3, <1>4 DEF Agrees, Live, ReviewTerminal, Success
<1>7. Committed /\ Len(reviews') = Len(reviews)
  BY <1>1, <1>2, <1>3, <1>4, <1>5, <1>6, GrowSame, OneReview
<1>8. q \in FullPasses
  <2>1. reviews[r].max \in Nat /\ r \in Nat
    BY <1>2 DEF ReviewRows
  <2> QED
    BY <1>2, <2>1 DEF FullPasses, Pcs, Cadences, PassGates
<1>9. q.r = r /\ q.pc = "claimed" /\ q.kind = "fresh"
  OBVIOUS
<1>10. pass' = [pass EXCEPT ![w] = q]
  BY <1>1
<1> HIDE DEF q
<1>11. q \in Passes /\ Fits(q, Len(reviews'))
  BY <1>2, <1>7, <1>8, <1>9 DEF Passes, Fits
<1> QED
  BY <1>1, <1>2, <1>7, <1>10, <1>11, WorkerSound

(* The seed of a pass is the saved checkpoint or the version itself.         *)
LEMMA LoadSound ==
  ASSUME ReviewInv, NEW w \in Workers, LoadReviewOnlySeed(w)
  PROVE  Sound
<1> DEFINE p == pass[w]
           x == reviews[p.r]
           at == [p EXCEPT !.pc = "loaded", !.cadence = x.cadence]
<1>1. /\ p \in FullPasses /\ p.r \in 1 .. Len(reviews) /\ p.r \in DOMAIN reviews
      /\ Len(reviews) \in Nat /\ p.kind = "fresh"
  BY WorkerPass DEF LoadReviewOnlySeed
<1>2. x \in ReviewRows
  BY <1>1, Row
<1>3. UNCHANGED <<versions, reviews, item>>
  BY DEF LoadReviewOnlySeed
<1>4. PICK q : /\ pass' = [pass EXCEPT ![w] = q]
               /\ \/ q = Failing(p)
                  \/ q = [at EXCEPT !.kind = "human", !.gate = x.gate, !.round = x.at,
                                    !.flag = x.accepted, !.before = x.result, !.body = x.result]
                  \/ /\ x.ckpt # NoCheckpoint
                     /\ q = [at EXCEPT !.kind = "operational", !.gate = x.ckpt.step,
                                       !.round = x.ckpt.round, !.flag = x.ckpt.flag,
                                       !.before = x.ckpt.before, !.body = x.ckpt.body]
                  \/ q = at
  BY DEF LoadReviewOnlySeed
<1> HIDE DEF p, x
<1>5. at \in FullPasses /\ at.r = p.r /\ at.pc = "loaded" /\ at.kind = p.kind
  BY <1>1, <1>2 DEF FullPasses, ReviewRows, Pcs
<1> HIDE DEF at
<1>6. q \in Passes /\ Fits(q, Len(reviews))
  <2>1. CASE q = Failing(p)
    BY <1>1, <2>1, FailingFits
  <2>2. CASE q = [at EXCEPT !.kind = "human", !.gate = x.gate, !.round = x.at,
                            !.flag = x.accepted, !.before = x.result, !.body = x.result]
    <3>1. /\ x.gate \in {"none"} \cup Gates /\ x.at \in Nat /\ x.accepted \in BOOLEAN
          /\ x.result \in Bodies
      BY <1>2 DEF ReviewRows
    <3>2. q \in FullPasses /\ q.r = p.r /\ q.pc = "loaded" /\ q.kind = "human"
      BY <1>5, <2>2, <3>1 DEF FullPasses, PassGates
    <3> QED
      BY <1>1, <3>2 DEF Passes, Fits
  <2>3. CASE /\ x.ckpt # NoCheckpoint
             /\ q = [at EXCEPT !.kind = "operational", !.gate = x.ckpt.step,
                               !.round = x.ckpt.round, !.flag = x.ckpt.flag,
                               !.before = x.ckpt.before, !.body = x.ckpt.body]
    <3> DEFINE c == x.ckpt
    <3>1. c \in Checkpoints
      BY <1>2, <2>3 DEF ReviewRows
    <3> HIDE DEF c
    <3>2. /\ c.step \in Steps /\ c.round \in Nat /\ c.flag \in BOOLEAN
          /\ c.before \in Bodies /\ c.body \in Bodies
      BY <3>1 DEF Checkpoints
    <3>3. q = [at EXCEPT !.kind = "operational", !.gate = c.step, !.round = c.round,
                         !.flag = c.flag, !.before = c.before, !.body = c.body]
      BY <2>3 DEF c
    <3>4. q \in FullPasses /\ q.r = p.r /\ q.pc = "loaded" /\ q.gate = c.step
      BY <1>5, <3>2, <3>3 DEF FullPasses, PassGates
    <3> QED
      BY <1>1, <3>2, <3>4 DEF Passes, Fits
  <2>4. CASE q = at
    BY <1>1, <1>5, <2>4 DEF Passes, Fits
  <2> QED
    BY <1>4, <2>1, <2>2, <2>3, <2>4
<1> QED
  BY <1>3, <1>4, <1>6, ThinkingSound

(* A step of a worker that writes the review it is about.                    *)
LEMMA WritingSound ==
  ASSUME ReviewInv, NEW w \in Workers, NEW q \in Passes, Fits(q, Len(reviews)),
         pass' = [pass EXCEPT ![w] = q], NEW r \in 1 .. Len(reviews), NEW x \in ReviewRows,
         Agrees(x), x.seed = reviews[r].seed, reviews[r].st \notin Success,
         reviews' = [reviews EXCEPT ![r] = x], Grow(versions, versions'), item' \in Items,
         item'.approved = item.approved, ~ item.open => ~ item'.open
  PROVE  Sound
<1>1. Committed /\ Len(reviews') = Len(reviews)
  BY OneReview
<1> QED
  BY <1>1, WorkerSound

(* The run is marked started by the pass that owns it.                       *)
LEMMA MarkStartedSound ==
  ASSUME ReviewInv, NEW w \in Workers, MarkReviewOnlyStarted(w)
  PROVE  Sound
<1> DEFINE p == pass[w]
           q == Enter(p)
<1>1. /\ p \in FullPasses /\ p.r \in 1 .. Len(reviews) /\ p.r \in DOMAIN reviews
      /\ Len(reviews) \in Nat /\ (p.kind = "operational" => p.gate \in Steps)
  BY WorkerPass DEF MarkReviewOnlyStarted
<1>2. q \in Passes /\ Fits(q, Len(reviews))
  BY <1>1, EnterFits
<1>3. pass' = [pass EXCEPT ![w] = q] /\ UNCHANGED <<versions, item>>
      /\ versions \in Seq(VersionRows) /\ item \in Items
  BY DEF MarkReviewOnlyStarted, ReviewInv, Types
<1> DEFINE x == reviews[p.r]
           b == Body(x.seed)
           y == [x EXCEPT !.st = "running", !.gate = "none", !.at = 0, !.revised = NoVersion,
                          !.ckpt = NoCheckpoint, !.result = b]
<1>4. /\ x \in ReviewRows /\ Agrees(x) /\ b \in Bodies
  BY <1>1, Row
<1>5. \/ UNCHANGED reviews
      \/ reviews' = [reviews EXCEPT ![p.r] = y] /\ x.st \in {"queued", "awaiting_human"}
         /\ x.run = "reviewing"
  BY DEF MarkReviewOnlyStarted, Mine, ownsReviewLease
<1> HIDE DEF q
<1>6. CASE UNCHANGED reviews
  BY <1>2, <1>3, <1>6, ThinkingSound
<1>7. CASE reviews' = [reviews EXCEPT ![p.r] = y] /\ x.st \in {"queued", "awaiting_human"}
           /\ x.run = "reviewing"
  <2> HIDE DEF x, b
  <2>1. /\ y \in ReviewRows /\ y.seed = x.seed /\ y.st = "running" /\ y.gate = "none"
        /\ y.run = x.run /\ y.token = x.token
    BY <1>4 DEF ReviewRows, NoVersion, Live
  <2> HIDE DEF y
  <2>2. Agrees(y) /\ x.st \notin Success
    BY <1>4, <1>7, <2>1 DEF Agrees, ReviewTerminal, Success
  <2> USE DEF x
  <2> QED
    BY <1>1, <1>2, <1>3, <1>7, <2>1, <2>2, GrowSame, WritingSound
<1> QED
  BY <1>5, <1>6, <1>7

(* The reviewer or the PM has answered, or the call has failed.              *)
LEMMA AnswersSound ==
  ASSUME ReviewInv, NEW w \in Workers, ReviewerAnswers(w) \/ PmAnswers(w) \/ CallFails(w)
  PROVE  Sound
<1> DEFINE p == pass[w]
<1>1. /\ p \in FullPasses /\ p.r \in 1 .. Len(reviews) /\ Len(reviews) \in Nat
  BY WorkerPass DEF ReviewerAnswers, PmAnswers, CallFails
<1>2. UNCHANGED <<versions, reviews, item>>
  BY DEF ReviewerAnswers, PmAnswers, CallFails
<1>3. PICK q : /\ pass' = [pass EXCEPT ![w] = q]
               /\ \/ q = Failing(p)
                  \/ \E flag \in BOOLEAN : q = [p EXCEPT !.pc = "reviewed", !.flag = flag]
                  \/ \E flag \in BOOLEAN, body \in Bodies :
                       q = [p EXCEPT !.pc = "revised", !.flag = flag, !.body = body]
  <2>1. CASE ReviewerAnswers(w)
    BY <2>1 DEF ReviewerAnswers
  <2>2. CASE PmAnswers(w)
    BY <2>2 DEF PmAnswers
  <2>3. CASE CallFails(w)
    BY <2>3 DEF CallFails
  <2> QED
    BY <2>1, <2>2, <2>3
<1> HIDE DEF p
<1>4. q \in Passes /\ Fits(q, Len(reviews))
  <2>1. CASE q = Failing(p)
    BY <1>1, <2>1, FailingFits
  <2>2. ASSUME NEW flag \in BOOLEAN, q = [p EXCEPT !.pc = "reviewed", !.flag = flag]
        PROVE  q \in Passes /\ Fits(q, Len(reviews))
    <3>1. q = Moved(p, "reviewed", p.gate, p.round, flag, p.body, p.before)
      BY <1>1, <2>2 DEF Moved, FullPasses
    <3>2. "reviewed" \in Going /\ "reviewed" # "parking" /\ "reviewed" # "completing"
      BY DEF Going, Pcs
    <3> QED
      BY <1>1, <3>1, <3>2, PassFields, MovedFits
  <2>3. ASSUME NEW flag \in BOOLEAN, NEW body \in Bodies,
               q = [p EXCEPT !.pc = "revised", !.flag = flag, !.body = body]
        PROVE  q \in Passes /\ Fits(q, Len(reviews))
    <3>1. q = Moved(p, "revised", p.gate, p.round, flag, body, p.before)
      BY <1>1, <2>3 DEF Moved, FullPasses
    <3>2. "revised" \in Going /\ "revised" # "parking" /\ "revised" # "completing"
      BY DEF Going, Pcs
    <3> QED
      BY <1>1, <3>1, <3>2, PassFields, MovedFits
  <2> QED
    BY <1>3, <2>1, <2>2, <2>3
<1> QED
  BY <1>2, <1>3, <1>4, ThinkingSound

(* A checkpoint, or the round, is recorded, or the lease was lost.           *)
LEMMA RecordSound ==
  ASSUME ReviewInv, NEW w \in Workers,
         RecordReviewOnlyCheckpoint(w) \/ RecordReviewOnlyProgress(w)
  PROVE  Sound
<1> DEFINE p == pass[w]
           x == reviews[p.r]
<1>1. /\ p \in FullPasses /\ p.r \in 1 .. Len(reviews) /\ p.r \in DOMAIN reviews
      /\ Len(reviews) \in Nat
  BY WorkerPass DEF RecordReviewOnlyCheckpoint, RecordReviewOnlyProgress
<1>2. x \in ReviewRows /\ Agrees(x)
  BY <1>1, Row
<1>3. UNCHANGED <<versions, item>> /\ versions \in Seq(VersionRows) /\ item \in Items
  BY DEF RecordReviewOnlyCheckpoint, RecordReviewOnlyProgress, ReviewInv, Types
<1>4. PICK q \in Passes : pass' = [pass EXCEPT ![w] = q] /\ Fits(q, Len(reviews))
  <2>1. CASE RecordReviewOnlyCheckpoint(w)
    <3>1. PICK pc \in {"saved_review", "saved_revision"} :
            pass' = [pass EXCEPT ![w] = [p EXCEPT !.pc = pc]]
      BY <2>1 DEF RecordReviewOnlyCheckpoint
    <3>2. [p EXCEPT !.pc = pc] = Moved(p, pc, p.gate, p.round, p.flag, p.body, p.before)
      BY <1>1 DEF Moved, FullPasses
    <3>3. pc \in Going /\ pc # "parking" /\ pc # "completing"
      BY DEF Going, Pcs
    <3>4. /\ p.gate \in PassGates /\ p.round \in Nat /\ p.flag \in BOOLEAN
          /\ p.body \in Bodies /\ p.before \in Bodies
      BY <1>1, PassFields
    <3> HIDE DEF p
    <3>5. /\ Moved(p, pc, p.gate, p.round, p.flag, p.body, p.before) \in Passes
          /\ Fits(Moved(p, pc, p.gate, p.round, p.flag, p.body, p.before), Len(reviews))
      BY <1>1, <3>3, <3>4, MovedFits
    <3> QED
      BY <3>1, <3>2, <3>5
  <2>2. CASE RecordReviewOnlyProgress(w)
    BY <1>1, <2>2, AfterReviewFits, AfterRevisionFits DEF RecordReviewOnlyProgress
  <2> QED
    BY <2>1, <2>2
<1>5. CASE UNCHANGED reviews
  BY <1>3, <1>4, <1>5, ThinkingSound
<1>6. CASE reviews' # reviews
  <2>1. x.st = "running"
    BY <1>6 DEF RecordReviewOnlyCheckpoint, RecordReviewOnlyProgress
  <2>2. PICK y \in ReviewRows :
          /\ reviews' = [reviews EXCEPT ![p.r] = y]
          /\ y.seed = x.seed /\ y.st = x.st /\ y.gate = x.gate /\ y.run = x.run
          /\ y.token = x.token
    <3>1. CASE RecordReviewOnlyCheckpoint(w)
      <4> DEFINE c == [step |-> StepOf(p), round |-> p.round, flag |-> p.flag,
                       before |-> p.before, body |-> p.body]
                 y == [x EXCEPT !.ckpt = c]
      <4>1. reviews' = [reviews EXCEPT ![p.r] = y]
        BY <1>6, <3>1 DEF RecordReviewOnlyCheckpoint
      <4>2. c \in Checkpoints
        BY <1>1, PassFields DEF Checkpoints, StepOf, Steps
      <4> HIDE DEF c, x
      <4>3. /\ y \in ReviewRows /\ y.seed = x.seed /\ y.st = x.st /\ y.gate = x.gate
            /\ y.run = x.run /\ y.token = x.token
        BY <1>2, <4>2 DEF ReviewRows
      <4> QED
        BY <4>1, <4>3
    <3>2. CASE RecordReviewOnlyProgress(w)
      <4> DEFINE k == p.round
                 y == [x EXCEPT !.round = k]
      <4>1. reviews' = [reviews EXCEPT ![p.r] = y]
        BY <1>6, <3>2 DEF RecordReviewOnlyProgress
      <4>2. k \in Nat
        BY <1>1, PassFields
      <4> HIDE DEF k, x
      <4>3. /\ y \in ReviewRows /\ y.seed = x.seed /\ y.st = x.st /\ y.gate = x.gate
            /\ y.run = x.run /\ y.token = x.token
        BY <1>2, <4>2 DEF ReviewRows
      <4> QED
        BY <4>1, <4>3
    <3> QED
      BY <3>1, <3>2
  <2>3. Agrees(y) /\ x.st \notin Success
    BY <1>2, <2>1, <2>2 DEF Agrees, Success
  <2> QED
    BY <1>1, <1>3, <1>4, <2>2, <2>3, GrowSame, WritingSound
<1> QED
  BY <1>5, <1>6

(* A gate parks the review, and keeps the plan the pass reached.             *)
LEMMA PauseSound ==
  ASSUME ReviewInv, NEW w \in Workers, PauseReviewOnly(w)
  PROVE  Sound
<1> DEFINE p == pass[w]
           x == reviews[p.r]
           same == p.body = Body(Latest)
           back == ~ same /\ p.body = Body(x.seed)
           interim == ~ same /\ ~ back
           revised == IF interim THEN Latest + 1 ELSE IF back THEN NoVersion ELSE x.revised
           result == IF interim THEN p.body ELSE IF back THEN Body(x.seed) ELSE x.result
           gate == p.gate
           at == p.round
           y == [x EXCEPT
              !.st = "awaiting_human", !.run = "awaiting_human", !.token = NoToken,
              !.late = FALSE, !.gate = gate, !.at = at, !.ckpt = NoCheckpoint,
              !.revised = revised, !.result = result]
<1>1. /\ p \in FullPasses /\ p.r \in 1 .. Len(reviews) /\ p.r \in DOMAIN reviews
      /\ Len(reviews) \in Nat /\ gate \in Gates
  BY WorkerPass DEF PauseReviewOnly
<1>2. x \in ReviewRows /\ Agrees(x) /\ Body(x.seed) \in Bodies
  BY <1>1, Row
<1>3. /\ UNCHANGED item /\ versions \in Seq(VersionRows) /\ item \in Items
      /\ Len(versions) \in Nat /\ pass' = [pass EXCEPT ![w] = Idle]
  BY Rows DEF PauseReviewOnly, Ends, ReviewInv, Types
<1>4. Idle \in Passes /\ Fits(Idle, Len(reviews))
  BY DEF Passes, Idle, Fits
<1>5. revised \in Nat /\ result \in Bodies /\ at \in Nat
  BY <1>1, <1>2, <1>3, PassFields DEF ReviewRows, Latest, NoVersion
<1>6. \/ UNCHANGED <<reviews, versions>>
      \/ /\ x.st = "running"
         /\ reviews' = [reviews EXCEPT ![p.r] = y]
         /\ versions' \in {versions, InsertPlanVersion(versions, p.body, "qc_interim")}
  BY DEF PauseReviewOnly
<1>7. Grow(versions, versions) /\ Grow(versions, InsertPlanVersion(versions, p.body, "qc_interim"))
  <2>1. p.body \in Bodies /\ "qc_interim" \in Origins
    BY <1>1, PassFields DEF Origins
  <2> QED
    BY <1>3, <2>1, GrowSame, GrowInsert
<1> HIDE DEF x, same, back, interim, revised, result, gate, at
<1>8. /\ y \in ReviewRows /\ y.seed = x.seed /\ y.st = "awaiting_human" /\ y.gate = gate
      /\ y.run = "awaiting_human" /\ y.token = NoToken
  BY <1>1, <1>2, <1>5 DEF ReviewRows, Live
<1> HIDE DEF y
<1>9. Agrees(y)
  BY <1>1, <1>8 DEF Agrees, ReviewTerminal, Success, Gates
<1>10. CASE UNCHANGED <<reviews, versions>>
  BY <1>3, <1>4, <1>10, ThinkingSound
<1>11. CASE /\ x.st = "running"
            /\ reviews' = [reviews EXCEPT ![p.r] = y]
            /\ versions' \in {versions, InsertPlanVersion(versions, p.body, "qc_interim")}
  <2>1. Grow(versions, versions')
    BY <1>7, <1>11
  <2>2. reviews[p.r].st \notin Success /\ y.seed = reviews[p.r].seed
    BY <1>8, <1>11 DEF x, Success
  <2> QED
    BY <1>1, <1>3, <1>4, <1>8, <1>9, <1>11, <2>1, <2>2, WritingSound
<1> QED
  BY <1>6, <1>10, <1>11

(* A version that is closed by its review's result.                          *)
LEMMA ClosedGrows ==
  ASSUME NEW vs \in Seq(VersionRows), NEW v \in 1 .. Len(vs)
  PROVE  Grow(vs, [vs EXCEPT ![v].st =
                     IF @ \in {"in_qc", "changes_requested"} THEN "superseded" ELSE @])
<1>1. vs[v] \in VersionRows /\ vs \in [1 .. Len(vs) -> VersionRows]
  BY ElementOfSeq, LenProperties
<1>2. CASE vs[v].st \in {"in_qc", "changes_requested"}
  BY <1>2, GrowStatus
<1>3. CASE vs[v].st \notin {"in_qc", "changes_requested"}
  <2>1. [vs[v] EXCEPT !.st = vs[v].st] = vs[v]
    BY <1>1 DEF VersionRows
  <2>2. [vs EXCEPT ![v] = vs[v]] = vs
    BY <1>1
  <2> QED
    BY <1>3, <2>1, <2>2, GrowSame
<1> QED
  BY <1>2, <1>3

(* The review completes, with a new version when the plan was revised.       *)
LEMMA CompleteSound ==
  ASSUME ReviewInv, NEW w \in Workers, CompleteReviewOnly(w)
  PROVE  Sound
<1> DEFINE p == pass[w]
           x == reviews[p.r]
           changed == p.body # Body(x.seed)
           closed == [versions EXCEPT ![x.seed].st =
                        IF @ \in {"in_qc", "changes_requested"} THEN "superseded" ELSE @]
           st == p.gate
           round == p.round
           body == p.body
           revised == IF changed THEN Latest + 1 ELSE NoVersion
           y == [x EXCEPT !.st = st, !.run = st, !.token = NoToken, !.late = FALSE,
                          !.round = round, !.ckpt = NoCheckpoint, !.result = body,
                          !.revised = revised]
<1>1. /\ p \in FullPasses /\ p.r \in 1 .. Len(reviews) /\ p.r \in DOMAIN reviews
      /\ Len(reviews) \in Nat /\ st \in Success
  BY WorkerPass DEF CompleteReviewOnly
<1>2. x \in ReviewRows /\ Agrees(x) /\ x.seed \in 1 .. Len(versions)
  BY <1>1, Row
<1>3. /\ versions \in Seq(VersionRows) /\ item \in Items /\ Len(versions) \in Nat
  BY Rows DEF ReviewInv, Types
<1>4. round \in Nat /\ body \in Bodies /\ revised \in Nat
  BY <1>1, <1>3, PassFields DEF Latest, NoVersion
<1>5. \/ /\ UNCHANGED <<reviews, versions, item>>
         /\ pass' \in {[pass EXCEPT ![w] = Idle], [pass EXCEPT ![w] = Failing(p)]}
      \/ /\ x.st = "running" /\ item.open
         /\ reviews' = [reviews EXCEPT ![p.r] = y]
         /\ versions' \in {versions, InsertPlanVersion(closed, body, "qc_result")}
         /\ item' = [item EXCEPT !.st = "awaiting_approval"]
         /\ pass' = [pass EXCEPT ![w] = Idle]
  BY DEF CompleteReviewOnly, Ends
<1>6. /\ Idle \in Passes /\ Fits(Idle, Len(reviews))
      /\ Failing(p) \in Passes /\ Fits(Failing(p), Len(reviews))
  BY <1>1, FailingFits DEF Passes, Idle, Fits
<1>7. Grow(versions, versions) /\ Grow(versions, InsertPlanVersion(closed, body, "qc_result"))
  <2>1. Grow(versions, closed)
    BY <1>2, <1>3, ClosedGrows
  <2>2. "qc_result" \in Origins
    BY DEF Origins
  <2> QED
    BY <1>3, <1>4, <2>1, <2>2, GrowSame, GrowInsert
<1> HIDE DEF x, changed, closed, st, round, body, revised
<1>8. /\ y \in ReviewRows /\ y.seed = x.seed /\ y.st = st /\ y.gate = x.gate
      /\ y.run = st /\ y.token = NoToken
  BY <1>1, <1>2, <1>4 DEF ReviewRows, ReviewTerminal
<1> HIDE DEF y
<1>9. CASE /\ UNCHANGED <<reviews, versions, item>>
           /\ pass' \in {[pass EXCEPT ![w] = Idle], [pass EXCEPT ![w] = Failing(p)]}
  BY <1>6, <1>9, ThinkingSound
<1>10. CASE /\ x.st = "running" /\ item.open
            /\ reviews' = [reviews EXCEPT ![p.r] = y]
            /\ versions' \in {versions, InsertPlanVersion(closed, body, "qc_result")}
            /\ item' = [item EXCEPT !.st = "awaiting_approval"]
            /\ pass' = [pass EXCEPT ![w] = Idle]
  <2>1. Grow(versions, versions')
    BY <1>7, <1>10
  <2>2. reviews[p.r].st \notin Success /\ y.seed = reviews[p.r].seed
    BY <1>8, <1>10 DEF x, Success
  <2>3. item' \in Items /\ item'.approved = item.approved /\ item'.open = item.open
    BY <1>3, <1>10 DEF Items
  <2>4. Agrees(y)
    BY <1>1, <1>2, <1>8, <1>10 DEF Agrees, ReviewTerminal, Success
  <2> QED
    BY <1>1, <1>6, <1>8, <1>10, <2>1, <2>2, <2>3, <2>4, WritingSound
<1> QED
  BY <1>5, <1>9, <1>10

(* Growing twice is growing.                                                 *)
LEMMA GrowTrans ==
  ASSUME NEW us, NEW vs, NEW ws, Len(us) \in Nat, Grow(us, vs), Grow(vs, ws)
  PROVE  Grow(us, ws)
<1>1. Len(vs) \in Nat /\ Len(ws) \in Nat
  BY LenProperties DEF Grow
<1>2. 1 .. Len(us) \subseteq 1 .. Len(vs)
  BY <1>1 DEF Grow
<1> QED
  BY <1>1, <1>2 DEF Grow

(* The review fails; what was last checkpointed is kept as a version.        *)
LEMMA FailSound ==
  ASSUME ReviewInv, NEW w \in Workers, FailReviewOnly(w)
  PROVE  Sound
<1> DEFINE p == pass[w]
           x == reviews[p.r]
           salvage == x.ckpt # NoCheckpoint /\ x.ckpt.body # Body(x.seed)
           kept == salvage /\ Body(Latest) = x.ckpt.body /\ Latest # x.seed
           result == Body(x.seed)
           salvaged == IF kept THEN Latest ELSE IF salvage THEN Latest + 1 ELSE NoVersion
           s == Stopped(x, "failed")
           y == [s EXCEPT !.result = result, !.salvaged = salvaged]
           ws == IF salvage /\ ~ kept
                 THEN InsertPlanVersion(versions, x.ckpt.body, "qc_interim") ELSE versions
<1>1. /\ p.r \in 1 .. Len(reviews) /\ p.r \in DOMAIN reviews /\ Len(reviews) \in Nat
  BY WorkerPass DEF FailReviewOnly
<1>2. /\ x \in ReviewRows /\ Agrees(x) /\ x.seed \in 1 .. Len(versions) /\ result \in Bodies
  BY <1>1, Row
<1>3. /\ versions \in Seq(VersionRows) /\ item \in Items /\ Len(versions) \in Nat
      /\ UNCHANGED item /\ pass' = [pass EXCEPT ![w] = Idle]
  BY Rows DEF FailReviewOnly, Ends, ReviewInv, Types
<1>4. Idle \in Passes /\ Fits(Idle, Len(reviews))
  BY DEF Passes, Idle, Fits
<1>5. \/ UNCHANGED <<reviews, versions>>
      \/ /\ x.st \in Live
         /\ reviews' = [reviews EXCEPT ![p.r] = y]
         /\ versions' = Returned(ws, x.seed)
  BY DEF FailReviewOnly
<1>6. salvaged \in Nat /\ result \in Bodies
  BY <1>2, <1>3 DEF Latest, NoVersion
<1>7. Grow(versions, ws)
  <2>1. CASE salvage /\ ~ kept
    <3>1. x.ckpt \in Checkpoints
      BY <1>2, <2>1 DEF ReviewRows
    <3>2. x.ckpt.body \in Bodies /\ "qc_interim" \in Origins
      BY <3>1 DEF Checkpoints, Origins
    <3> QED
      BY <1>3, <2>1, <3>2, GrowSame, GrowInsert
  <2>2. CASE ~ (salvage /\ ~ kept)
    BY <1>3, <2>2, GrowSame
  <2> QED
    BY <2>1, <2>2
<1> HIDE DEF x, salvage, kept, result, salvaged, ws
<1>8. Grow(versions, Returned(ws, x.seed))
  <2>1. ws \in Seq(VersionRows) /\ Len(ws) \in Nat /\ Len(versions) <= Len(ws)
    BY <1>7, LenProperties DEF Grow
  <2>2. x.seed \in 1 .. Len(ws)
    BY <1>2, <1>3, <2>1
  <2> QED
    BY <1>3, <1>7, <2>1, <2>2, ReturnedGrows, GrowTrans
<1>9. s \in ReviewRows /\ Agrees(s) /\ s.seed = x.seed
  BY <1>2, StoppedRow
<1> HIDE DEF s
<1>10. /\ y \in ReviewRows /\ y.seed = s.seed /\ y.st = s.st /\ y.run = s.run
       /\ y.token = s.token /\ y.gate = s.gate
  BY <1>6, <1>9 DEF ReviewRows
<1> HIDE DEF y
<1>11. Agrees(y)
  BY <1>9, <1>10 DEF Agrees
<1>12. CASE UNCHANGED <<reviews, versions>>
  BY <1>3, <1>4, <1>12, ThinkingSound
<1>13. CASE /\ x.st \in Live
            /\ reviews' = [reviews EXCEPT ![p.r] = y]
            /\ versions' = Returned(ws, x.seed)
  <2>1. reviews[p.r].st \notin Success /\ y.seed = reviews[p.r].seed
    BY <1>9, <1>10, <1>13 DEF x, Live, Success
  <2> QED
    BY <1>1, <1>3, <1>4, <1>8, <1>10, <1>11, <1>13, <2>1, WritingSound
<1> QED
  BY <1>5, <1>12, <1>13

-----------------------------------------------------------------------------
(* Every step of the specification.                                          *)

(* There are no reviews at first.                                            *)
LEMMA InitInv == Init => ReviewInv
<1> SUFFICES ASSUME Init PROVE ReviewInv
  OBVIOUS
<1>1. /\ versions \in Seq(VersionRows) /\ reviews \in Seq(ReviewRows)
      /\ Len(versions) = 0 /\ Len(reviews) = 0
  BY EmptySeq DEF Init
<1>2. DOMAIN reviews = {}
  BY <1>1, LenProperties
<1>3. item \in Items /\ item.approved = NoVersion
  BY DEF Init, Items, NoVersion
<1>4. pass \in [Workers -> Passes] /\ \A w \in Workers : pass[w].pc = "idle"
  BY DEF Init, Passes, Idle
<1>5. PassInv
  BY <1>4 DEF PassInv, Fits
<1> QED
  BY <1>1, <1>2, <1>3, <1>4, <1>5 DEF ReviewInv, Types, RowInv, ApprovalInv, Approval

(* A step that changes nothing.                                              *)
LEMMA StutterSound ==
  ASSUME ReviewInv, UNCHANGED reviewVars
  PROVE  Sound
<1>1. UNCHANGED <<versions, reviews, item, pass>> /\ versions \in Seq(VersionRows)
      /\ item \in Items
  BY DEF reviewVars, ReviewInv, Types
<1>2. Committed
  BY <1>1, GrowSame, SameReviews
<1> QED
  BY <1>1, <1>2, CommandSound

(* Every step keeps the invariant and what was approved.                     *)
LEMMA StepSound ==
  ASSUME NoToken \notin Workers, Rounds \in Nat, RoundCap \in Nat, ReviewInv,
         [Next]_reviewVars
  PROVE  Sound
<1>1. CASE SavePlanCandidate \/ SendPlanToQc \/ SkipQc \/ RequestPlanChanges \/ RejectPlan
  BY <1>1, SavePlanCandidateSound, SendPlanToQcSound, SkipQcSound, ReturnPlanSound
<1>2. ASSUME NEW r \in DOMAIN reviews, Command(r)
      PROVE  Sound
  BY <1>2, SkipQcSound, ApprovePlanSound, CancelReviewSound, AnswerSound
     DEF Command, ContinueWithoutQc
<1>3. ASSUME NEW w \in Workers, Pass(w)
      PROVE  Sound
  BY <1>3, ClaimSound, LoadSound, MarkStartedSound, AnswersSound, RecordSound, PauseSound,
     CompleteSound, FailSound DEF Pass
<1>4. ASSUME NEW w \in Workers, Drain(w) \/ Crash(w)
      PROVE  Sound
  BY <1>4, DrainSound, CrashSound
<1>5. CASE \/ \E r \in DOMAIN reviews : LeaseRunsOut(r)
           \/ \E w \in Workers : RenewReviewLease(w)
  BY <1>5, LeaseSound
<1>6. CASE RecoverExpiredReviewOnly
  BY <1>6, RecoverSound
<1>7. CASE UNCHANGED reviewVars
  BY <1>7, StutterSound
<1> QED
  BY <1>1, <1>2, <1>3, <1>4, <1>5, <1>6, <1>7 DEF Next

(* What ReviewInv says of the reviews and their runs.                        *)
LEMMA RowsAgree == ASSUME ReviewInv PROVE ReviewAndRunAgree
BY DEF ReviewInv, RowInv, ReviewAndRunAgree, Agrees

(* A sound step leaves an approval as it is.                                 *)
LEMMA ApprovalStands ==
  ASSUME ReviewInv, Sound
  PROVE  ApprovedStep
<1>1. ASSUME item.approved # NoVersion
      PROVE  /\ item'.approved = item.approved
             /\ versions'[item.approved] = versions[item.approved]
  <2>1. item.approved \in 1 .. Len(versions) /\ versions[item.approved].st = "approved"
    BY <1>1, Rows DEF ReviewInv, ApprovalInv, Approval
  <2> QED
    BY <1>1, <2>1 DEF Sound, Committed, Grow
<1>2. ApprovalInv'
  BY DEF Sound, ReviewInv
<1> QED
  BY <1>1, <1>2 DEF ApprovedStep, ApprovalInv

(* A pass without its lease writes nothing.                                  *)
LEMMA StaleStep ==
  ASSUME ReviewInv, [Next]_reviewVars
  PROVE  StaleWorkerStep
<1> SUFFICES ASSUME NEW w \in Workers, pass[w].pc # "idle", ~ Mine(w), pass'[w] # pass[w]
             PROVE  UNCHANGED <<versions, reviews, item>>
  BY DEF StaleWorkerStep
<1>1. pass \in [Workers -> Passes]
  BY DEF ReviewInv, Types
<1>2. PICK v \in Workers : Pass(v) \/ Crash(v)
  BY DEF Next, reviewVars, SavePlanCandidate, SendPlanToQc, SkipQc, RequestPlanChanges,
     RejectPlan, Human, Command, ContinueWithoutQc, ApprovePlan, CancelReview, ResumeReview,
     AdjudicateReview, PatchReview, LeaseRunsOut, RenewReviewLease, Drain,
     RecoverExpiredReviewOnly
<1>3. v = w
  <2>1. \E q : pass' = [pass EXCEPT ![v] = q]
    BY <1>2 DEF Pass, Crash, Ends, Claim, LoadReviewOnlySeed, MarkReviewOnlyStarted,
       ReviewerAnswers, PmAnswers, CallFails, RecordReviewOnlyCheckpoint,
       RecordReviewOnlyProgress, PauseReviewOnly, CompleteReviewOnly, FailReviewOnly
  <2> QED
    BY <1>1, <2>1
<1>4. ~ Claim(w)
  BY DEF Claim
<1> QED
  BY <1>2, <1>3, <1>4 DEF Pass, Crash, LoadReviewOnlySeed, MarkReviewOnlyStarted,
     ReviewerAnswers, PmAnswers, CallFails, RecordReviewOnlyCheckpoint,
     RecordReviewOnlyProgress, PauseReviewOnly, CompleteReviewOnly, FailReviewOnly

-----------------------------------------------------------------------------
(* ReviewInv is an invariant: rows and passes keep their types, every review *)
(* row agrees with its planning run, and the approved version closed the     *)
(* planning conversation with a successful review of its contents.           *)
THEOREM ReviewInvariant ==
  ASSUME NoToken \notin Workers, Rounds \in Nat, RoundCap \in Nat
  PROVE  Spec => []ReviewInv
<1>1. ReviewInv /\ [Next]_reviewVars => ReviewInv'
  BY StepSound DEF Sound
<1> QED
  BY <1>1, InitInv, PTL DEF Spec

(* The review row and the planning run, written by worker, human and         *)
(* recovery in different transactions (planWorkflow.ts, runWorker.ts), never *)
(* disagree.                                                                 *)
THEOREM ReviewMatchesRun ==
  ASSUME NoToken \notin Workers, Rounds \in Nat, RoundCap \in Nat
  PROVE  Spec => []ReviewAndRunAgree
BY ReviewInvariant, RowsAgree, PTL

(* A pass that lost its lease changes neither review nor plan, however late  *)
(* its provider answers (planWorkflow.ts, ownsReviewLease).                  *)
THEOREM StaleHarmless ==
  ASSUME NoToken \notin Workers, Rounds \in Nat, RoundCap \in Nat
  PROVE  Spec => StaleWorkerHarmless
<1>1. ReviewInv /\ [Next]_reviewVars => [StaleWorkerStep]_reviewVars
  BY StaleStep
<1> QED
  BY <1>1, ReviewInvariant, PTL DEF Spec, StaleWorkerHarmless

(* An approved plan is what a successful review, or a waiver, resulted in,   *)
(* and neither is changed afterwards (planWorkflow.ts, approvePlan).         *)
THEOREM ApprovalFinal ==
  ASSUME NoToken \notin Workers, Rounds \in Nat, RoundCap \in Nat
  PROVE  Spec => ApprovedForGood
<1>1. ReviewInv /\ [Next]_reviewVars => [ApprovedStep]_reviewVars
  BY StepSound, ApprovalStands
<1> QED
  BY <1>1, ReviewInvariant, PTL DEF Spec, ApprovedForGood
=============================================================================
