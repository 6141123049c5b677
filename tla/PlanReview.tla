----------------------------- MODULE PlanReview -----------------------------
(***************************************************************************)
(* The plan of a work item and its quality review (QC): plan versions and  *)
(* review rows (apps/server/src/conversations/planWorkflow.ts), the        *)
(* review-only planning run whichever server process has leased            *)
(* (planning/runWorker.ts), and the reviewer/PM loop the worker runs and   *)
(* may be interrupted in (planning/reviewOnlySession.ts).                  *)
(*                                                                         *)
(* A transaction is one step: each locks the review row first. A review    *)
(* row and its planning run are created together and are one record here.  *)
(* The worker's pass (load, mark started, provider calls, checkpoint,      *)
(* progress, outcome) interleaves with the human's commands, other workers *)
(* and the passing of time. A plan's content is a member of Bodies; what   *)
(* reviewer and PM say is whether findings are actionable and whether a    *)
(* disposition is contested (Gate C).                                      *)
(***************************************************************************)
EXTENDS Naturals, Sequences, FiniteSets

CONSTANTS Workers,      \* server processes ticking the planning worker
          Bodies,       \* plan contents, told apart by their hash
          Rounds,       \* max_rounds a review is started with
          RoundCap,     \* the most rounds a raise may reach (5 in the code)
          MaxVersions,  \* bound: versions of the plan up to which a human saves another
          MaxReviews,   \* bound: reviews of the work item
          MaxRulings,   \* bound: findings that can be adjudicated in a review
          MaxPatches,   \* bound: changes of a review's cadence or round limit
          MaxFaults     \* bound: crashes, drains and lease expiries

VARIABLES versions,     \* work_plan_versions of the work item
          reviews,      \* conversation_plan_reviews, each with its planning run
          item,         \* the work item and its planning conversation
          pass,         \* pass[w]: the review pass worker w is in
          faults        \* faults so far

reviewVars == <<versions, reviews, item, pass, faults>>

NoVersion == 0
NoToken == "none"
NoCheckpoint == [step |-> "none", round |-> 0]
Success == {"converged", "cap_reached"}
ReviewTerminal == Success \cup {"failed", "cancelled"}
Live == {"queued", "running", "awaiting_human"}
Cadences == {"automatic", "gated"}   \* gated_each_round and gated_each_step gate alike

Latest == Len(versions)
Body(v) == versions[v].body
InsertPlanVersion(vs, body, origin) ==
    Append(vs, [st |-> "candidate", body |-> body, origin |-> origin])
OnVersion(v) == {r \in DOMAIN reviews : reviews[r].seed = v}
activeReview(v) == \E r \in OnVersion(v) : reviews[r].st \in Live

\* The database's guard on a plan version that leaves QC without a result.
MayReturn(rs, v) ==
    LET on == {r \in DOMAIN rs : rs[r].seed = v}
        last == CHOOSE r \in on : \A q \in on : q <= r
    IN  /\ \A r \in on : rs[r].st \notin {"queued", "running"}
        /\ rs[last].st \in {"failed", "cancelled"}

\* Every claim draws a fresh token. A worker is a pass in some server process; it
\* claims again only after its pass ended, so its name serves as the token.
ownsReviewLease(r, token) == reviews[r].run = "reviewing" /\ reviews[r].token = token

-----------------------------------------------------------------------------
(* Versions and reviews as the human's confirmed actions change them. Each *)
(* requires the planning conversation to be active, and names the latest   *)
(* version.                                                                *)

Human == item.open /\ UNCHANGED <<pass, faults>>

SavePlanCandidate ==
    /\ Human
    /\ Latest < MaxVersions
    /\ Latest # NoVersion => versions[Latest].st \in {"candidate", "changes_requested", "rejected"}
    /\ \E body \in Bodies :
          /\ Latest # NoVersion => body # Body(Latest)
          /\ versions' = InsertPlanVersion(
                [v \in DOMAIN versions |->
                   IF v = Latest THEN [versions[v] EXCEPT !.st = "superseded"] ELSE versions[v]],
                body, "human")
    /\ UNCHANGED <<reviews, item>>

Review(v, mode, st, cadence) ==
    [st |-> st, mode |-> mode, seed |-> v, result |-> Body(v), revised |-> NoVersion,
     salvaged |-> NoVersion, gate |-> "none", at |-> 0, accepted |-> FALSE,
     ckpt |-> NoCheckpoint, cadence |-> cadence, rulings |-> 0, patches |-> 0,
     run |-> st, token |-> NoToken, late |-> FALSE, max |-> Rounds, round |-> 0]

SendPlanToQc ==
    /\ Human
    /\ Latest # NoVersion /\ Len(reviews) < MaxReviews
    /\ versions[Latest].st = "candidate"
    /\ ~ activeReview(Latest)
    /\ \E cadence \in Cadences :
          reviews' = Append(reviews, Review(Latest, "qc", "queued", cadence))
    /\ versions' = [versions EXCEPT ![Latest].st = "in_qc"]
    /\ item' = [item EXCEPT !.st = "in_qc"]

\* A waiver: QC recorded as passed without being run. A parked review does not
\* block it, and is left parked.
SkipQc ==
    /\ Human
    /\ Latest # NoVersion /\ Len(reviews) < MaxReviews
    /\ versions[Latest].st \in {"candidate", "in_qc"}
    /\ \A r \in OnVersion(Latest) : reviews[r].st \notin {"queued", "running"}
    /\ reviews' = Append(reviews, Review(Latest, "waived", "converged", "automatic"))
    /\ item' = [item EXCEPT !.st = "awaiting_approval"]
    /\ UNCHANGED versions

\* The waiver offered on a failed or parked review: of its salvaged, revised or
\* seed version, which the confirmation refuses unless it is the latest.
ContinueWithoutQc(r) ==
    /\ reviews[r].st \in {"failed", "awaiting_human"}
    /\ LET x == reviews[r]
       IN  Latest = IF x.salvaged # NoVersion THEN x.salvaged
                    ELSE IF x.revised # NoVersion THEN x.revised ELSE x.seed
    /\ SkipQc

RequestPlanChanges ==
    /\ Human
    /\ Latest # NoVersion /\ versions[Latest].st \in {"candidate", "in_qc"}
    /\ ~ activeReview(Latest)
    /\ versions' = [versions EXCEPT ![Latest].st = "changes_requested"]
    /\ item' = [item EXCEPT !.st = "planning"]
    /\ UNCHANGED reviews

RejectPlan ==
    /\ Human
    /\ Latest # NoVersion
    /\ versions[Latest].st \in {"candidate", "in_qc", "changes_requested"}
    /\ ~ activeReview(Latest)
    /\ versions' = [versions EXCEPT ![Latest].st = "rejected"]
    /\ item' = [item EXCEPT !.st = "planning"]
    /\ UNCHANGED reviews

ResultVersion(r) == IF reviews[r].revised # NoVersion THEN reviews[r].revised ELSE reviews[r].seed

\* Variant: a review that passed stands for whatever version came after it.
ApproveReviewed(r) ==
    /\ Human
    /\ reviews[r].st \in Success
    /\ versions[Latest].st = "in_qc"
    /\ versions' = [versions EXCEPT ![Latest].st = "approved"]
    /\ reviews' = [reviews EXCEPT ![r].run = "approved"]
    /\ item' = [st |-> "awaiting_approval", open |-> FALSE, approved |-> Latest]

\* The exact version a successful review resulted in; the database asks for a
\* review of a candidate once more. The planning conversation is archived.
ApprovePlan(r) ==
    /\ Human
    /\ reviews[r].st \in Success
    /\ ResultVersion(r) = Latest /\ reviews[r].result = Body(Latest)
    /\ versions[Latest].st \in {"candidate", "in_qc"}
    /\ versions[Latest].st = "candidate" =>
          \E q \in DOMAIN reviews :
             /\ reviews[q].st \in Success /\ reviews[q].result = Body(Latest)
             /\ \/ reviews[q].revised = Latest
                \/ reviews[q].mode = "waived" /\ reviews[q].seed = Latest
    /\ versions' = [versions EXCEPT ![Latest].st = "approved"]
    /\ reviews' = [reviews EXCEPT ![r].run = "approved"]
    /\ item' = [st |-> "awaiting_approval", open |-> FALSE, approved |-> Latest]

-----------------------------------------------------------------------------
(* The human at a review.                                                  *)

\* Variant: a stopped review keeps its lease.
StoppedLeased(x, st) ==
    [x EXCEPT !.st = st, !.run = st, !.gate = "none", !.at = 0, !.ckpt = NoCheckpoint,
              !.revised = NoVersion]

\* What a review forgets when it is stopped, and its plan version's way back.
Stopped(x, st) ==
    [x EXCEPT !.st = st, !.run = st, !.token = NoToken, !.late = FALSE, !.gate = "none",
              !.at = 0, !.ckpt = NoCheckpoint, !.revised = NoVersion]

Returned(vs, v) == IF vs[v].st = "in_qc" THEN [vs EXCEPT ![v].st = "candidate"] ELSE vs
MayStop(rs, v) == versions[v].st = "in_qc" => MayReturn(rs, v)

CancelReview(r) ==
    LET v == reviews[r].seed
        stopped == [reviews EXCEPT ![r] = [Stopped(@, "cancelled") EXCEPT !.result = Body(v)]]
    IN  /\ Human
        /\ reviews[r].st \in Live
        /\ MayStop(stopped, v)
        /\ reviews' = stopped
        /\ versions' = Returned(versions, v)
        /\ UNCHANGED item

\* The run is re-queued; the review row keeps its pause until a worker starts it.
Requeued(x) == [x EXCEPT !.run = "queued", !.token = NoToken, !.late = FALSE]

ResumeReview(r) ==
    /\ Human
    /\ reviews[r].st = "awaiting_human" /\ reviews[r].run = "awaiting_human"
    /\ \E accepted \in BOOLEAN, stopAsking \in BOOLEAN :
          /\ accepted => reviews[r].gate = "after_review"
          /\ reviews' = [reviews EXCEPT ![r] = [Requeued(reviews[r]) EXCEPT
                !.accepted = accepted,
                !.cadence = IF stopAsking THEN "automatic" ELSE reviews[r].cadence]]
    /\ UNCHANGED <<versions, item>>

\* A ruling needs no parked run: one made while an earlier one is queued, or
\* just claimed, queues the run again.
AdjudicateReview(r) ==
    /\ Human
    /\ reviews[r].st = "awaiting_human" /\ reviews[r].gate = "adjudication"
    /\ reviews[r].rulings < MaxRulings
    /\ \E forReviewer \in BOOLEAN :
          LET x == reviews[r]
              raise == forReviewer /\ x.round >= x.max
          IN  /\ raise => x.max < RoundCap
              /\ reviews' = [reviews EXCEPT ![r] = [Requeued(x) EXCEPT
                    !.rulings = x.rulings + 1, !.max = IF raise THEN x.max + 1 ELSE x.max]]
    /\ UNCHANGED <<versions, item>>

PatchReview(r) ==
    /\ Human
    /\ reviews[r].st \in Live
    /\ reviews[r].patches < MaxPatches
    /\ \E cadence \in Cadences, max \in 1 .. RoundCap :
          /\ max # reviews[r].max => max > reviews[r].round
          /\ reviews' = [reviews EXCEPT ![r] = [reviews[r] EXCEPT
                !.cadence = cadence, !.max = max, !.patches = reviews[r].patches + 1]]
    /\ UNCHANGED <<versions, item>>

-----------------------------------------------------------------------------
(* The reviewer/PM loop, between two provider calls. A pass p carries what *)
(* was loaded with the claim: the cadence and the round limit are not read *)
(* again.                                                                  *)

Idle == [pc |-> "idle"]

Failing(p) == [pc |-> "failing", r |-> p.r]
Park(p, gate, body) == [p EXCEPT !.pc = "parking", !.gate = gate, !.body = body]
Finish(p, st) == [p EXCEPT !.pc = "completing", !.gate = st]

\* The loop left without a result throws.
NextRound(p) ==
    IF p.round < p.max
    THEN [p EXCEPT !.pc = "reviewing", !.round = @ + 1, !.gate = "none", !.flag = FALSE,
                   !.before = p.body]
    ELSE Failing(p)

AfterReview(p) == IF p.flag THEN Park(p, "after_review", p.body) ELSE Finish(p, "converged")

AfterRevision(p) ==
    IF p.flag THEN Park(p, "adjudication", p.before)
    ELSE IF p.round = p.max THEN Finish(p, "cap_reached")
    ELSE IF p.cadence = "gated" THEN Park(p, "after_revision", p.body)
    ELSE NextRound(p)

\* Where the loop is entered: afresh, after a human's answer, or at the last
\* checkpoint of an interrupted pass.
Enter(p) ==
    CASE p.kind = "fresh" -> NextRound(p)
      [] p.kind = "human" /\ p.gate = "after_review" ->
            IF p.round > p.max THEN Failing(p)
            ELSE IF p.flag THEN [p EXCEPT !.pc = "revising"] ELSE Finish(p, "converged")
      [] p.kind = "human" /\ p.gate # "after_review" -> NextRound(p)
      [] p.kind = "operational" /\ p.gate = "review" -> AfterReview(p)
      [] p.kind = "operational" /\ p.gate = "revision" -> AfterRevision(p)

-----------------------------------------------------------------------------
(* The worker.                                                             *)

MayFault == faults < MaxFaults
Ends(w) == pass' = [pass EXCEPT ![w] = Idle]
Mine(w) == pass[w].pc # "idle" /\ ownsReviewLease(pass[w].r, w)

\* Variant: only the leases of reviews that are marked as running are recovered.
RecoverRunningOnly ==
    /\ \E r \in DOMAIN reviews : reviews[r].run = "reviewing" /\ reviews[r].late
    /\ reviews' = [r \in DOMAIN reviews |->
          IF reviews[r].st = "running" /\ reviews[r].run = "reviewing" /\ reviews[r].late
          THEN Requeued(reviews[r]) ELSE reviews[r]]
    /\ UNCHANGED <<versions, item, pass, faults>>

\* tick(): expired leases are queued again before a run is claimed.
RecoverExpiredReviewOnly ==
    /\ \E r \in DOMAIN reviews : reviews[r].run = "reviewing" /\ reviews[r].late
    /\ reviews' = [r \in DOMAIN reviews |->
          IF reviews[r].run = "reviewing" /\ reviews[r].late THEN Requeued(reviews[r])
          ELSE reviews[r]]
    /\ UNCHANGED <<versions, item, pass, faults>>

Claim(w) ==
    /\ pass[w].pc = "idle"
    /\ \E r \in DOMAIN reviews :
          /\ reviews[r].run = "queued"
          /\ reviews' = [reviews EXCEPT ![r] = [@ EXCEPT !.run = "reviewing", !.token = w]]
          /\ pass' = [pass EXCEPT ![w] =
                [pc |-> "claimed", r |-> r, max |-> reviews[r].max, cadence |-> "automatic", kind |-> "fresh",
                 gate |-> "none", round |-> 0, flag |-> FALSE,
                 body |-> Body(reviews[r].seed), before |-> Body(reviews[r].seed)]]
    /\ UNCHANGED <<versions, item, faults>>

LoadReviewOnlySeed(w) ==
    /\ pass[w].pc = "claimed"
    /\ LET p == pass[w]
           x == reviews[p.r]
           at == [p EXCEPT !.pc = "loaded", !.cadence = x.cadence]
       IN  pass' = [pass EXCEPT ![w] =
              IF ~ Mine(w) THEN Failing(p)
              ELSE IF x.st = "awaiting_human"
                   THEN [at EXCEPT !.kind = "human", !.gate = x.gate, !.round = x.at,
                                   !.flag = x.accepted, !.before = x.result, !.body = x.result]
              ELSE IF x.st = "running" /\ x.ckpt # NoCheckpoint
                   THEN [at EXCEPT !.kind = "operational", !.gate = x.ckpt.step,
                                   !.round = x.ckpt.round, !.flag = x.ckpt.flag,
                                   !.before = x.ckpt.before, !.body = x.ckpt.body]
              ELSE at]
    /\ UNCHANGED <<versions, reviews, item, faults>>

\* Clears the pause and its evidence, and any checkpoint. A lost lease goes
\* unnoticed: the pass goes on, and can record nothing.
MarkReviewOnlyStarted(w) ==
    /\ pass[w].pc = "loaded"
    /\ LET p == pass[w]
           x == reviews[p.r]
       IN  /\ pass' = [pass EXCEPT ![w] = Enter(p)]
           /\ reviews' =
                IF Mine(w) /\ x.st \in {"queued", "awaiting_human"}
                THEN [reviews EXCEPT ![p.r] = [x EXCEPT
                        !.st = "running", !.gate = "none", !.at = 0, !.revised = NoVersion,
                        !.ckpt = NoCheckpoint, !.result = Body(x.seed)]]
                ELSE reviews
    /\ UNCHANGED <<versions, item, faults>>

\* The reviewer or the PM answers; a failed call fails the review.
ReviewerAnswers(w) ==
    /\ pass[w].pc = "reviewing"
    /\ \E actionable \in BOOLEAN :
          pass' = [pass EXCEPT ![w] = [@ EXCEPT
                     !.pc = "reviewed", !.flag = actionable]]
    /\ UNCHANGED <<versions, reviews, item, faults>>

PmAnswers(w) ==
    /\ pass[w].pc = "revising"
    /\ \E body \in Bodies, contested \in BOOLEAN :
          pass' = [pass EXCEPT ![w] = [@ EXCEPT
                     !.pc = "revised", !.flag = contested, !.body = body]]
    /\ UNCHANGED <<versions, reviews, item, faults>>

CallFails(w) ==
    /\ pass[w].pc \in {"claimed", "loaded", "reviewing", "revising"}
    /\ pass' = [pass EXCEPT ![w] = Failing(@)]
    /\ UNCHANGED <<versions, reviews, item, faults>>

Ordinal(round, step) == round * 2 + (IF step = "revision" THEN 1 ELSE 0)
StepOf(p) == IF p.pc = "reviewed" THEN "review" ELSE "revision"

RecordReviewOnlyCheckpoint(w) ==
    /\ pass[w].pc \in {"reviewed", "revised"}
    /\ LET p == pass[w]
           x == reviews[p.r]
           ahead == x.ckpt = NoCheckpoint
                      \/ Ordinal(x.ckpt.round, x.ckpt.step) < Ordinal(p.round, StepOf(p))
       IN  /\ pass' = [pass EXCEPT ![w].pc = IF StepOf(p) = "review" THEN "saved_review"
                                             ELSE "saved_revision"]
           /\ reviews' = IF x.st = "running" /\ Mine(w) /\ ahead
                         THEN [reviews EXCEPT ![p.r].ckpt =
                                 [step |-> StepOf(p), round |-> p.round, flag |-> p.flag,
                                  before |-> p.before, body |-> p.body]]
                         ELSE reviews
    /\ UNCHANGED <<versions, item, faults>>

\* Variant: progress is recorded without the lease.
RecordProgressUnfenced(w) ==
    /\ pass[w].pc \in {"saved_review", "saved_revision"}
    /\ LET p == pass[w]
       IN  /\ pass' = [pass EXCEPT ![w] =
                 IF p.pc = "saved_review" THEN AfterReview(p) ELSE AfterRevision(p)]
           /\ reviews' = IF reviews[p.r].st = "running"
                         THEN [reviews EXCEPT ![p.r].round = p.round] ELSE reviews
    /\ UNCHANGED <<versions, item, faults>>

RecordReviewOnlyProgress(w) ==
    /\ pass[w].pc \in {"saved_review", "saved_revision"}
    /\ LET p == pass[w]
           x == reviews[p.r]
       IN  /\ pass' = [pass EXCEPT ![w] =
                 IF p.pc = "saved_review" THEN AfterReview(p) ELSE AfterRevision(p)]
           /\ reviews' = IF x.st = "running" /\ Mine(w)
                         THEN [reviews EXCEPT ![p.r].round = p.round] ELSE reviews
    /\ UNCHANGED <<versions, item, faults>>

\* A gate parks the review and gives up the lease. The plan as it stands is kept
\* as a version of its own when it is not the latest one or the seed again.
PauseReviewOnly(w) ==
    /\ pass[w].pc = "parking"
    /\ LET p == pass[w]
           x == reviews[p.r]
           same == p.body = Body(Latest)
           back == ~ same /\ p.body = Body(x.seed)
           interim == ~ same /\ ~ back
           parked == [x EXCEPT
              !.st = "awaiting_human", !.run = "awaiting_human", !.token = NoToken,
              !.late = FALSE, !.gate = p.gate, !.at = p.round, !.ckpt = NoCheckpoint,
              !.revised = IF interim THEN Latest + 1 ELSE IF back THEN NoVersion ELSE @,
              !.result = IF interim THEN p.body ELSE IF back THEN Body(x.seed) ELSE @]
       IN  IF x.st = "running" /\ Mine(w)
           THEN /\ reviews' = [reviews EXCEPT ![p.r] = parked]
                /\ versions' = IF interim THEN InsertPlanVersion(versions, p.body, "qc_interim")
                               ELSE versions
           ELSE UNCHANGED <<reviews, versions>>
    /\ Ends(w)
    /\ UNCHANGED <<item, faults>>

\* Throws, and the review is then failed, when the review is not running or the
\* planning conversation was archived meanwhile.
CompleteReviewOnly(w) ==
    /\ pass[w].pc = "completing"
    /\ LET p == pass[w]
           x == reviews[p.r]
           changed == p.body # Body(x.seed)
           done == [x EXCEPT !.st = p.gate, !.run = p.gate, !.token = NoToken, !.late = FALSE,
                             !.round = p.round, !.ckpt = NoCheckpoint, !.result = p.body,
                             !.revised = IF changed THEN Latest + 1 ELSE NoVersion]
           closed == [versions EXCEPT ![x.seed].st =
                        IF @ \in {"in_qc", "changes_requested"} THEN "superseded" ELSE @]
       IN  IF x.st \in Success \cup {"cancelled"} THEN Ends(w) /\ UNCHANGED <<reviews, versions, item>>
           ELSE IF x.st # "running"
                THEN pass' = [pass EXCEPT ![w] = Failing(@)] /\ UNCHANGED <<reviews, versions, item>>
           ELSE IF ~ Mine(w) THEN Ends(w) /\ UNCHANGED <<reviews, versions, item>>
           ELSE IF ~ item.open
                THEN pass' = [pass EXCEPT ![w] = Failing(@)] /\ UNCHANGED <<reviews, versions, item>>
           ELSE /\ reviews' = [reviews EXCEPT ![p.r] = done]
                /\ versions' = IF changed THEN InsertPlanVersion(closed, p.body, "qc_result")
                               ELSE versions
                /\ item' = [item EXCEPT !.st = "awaiting_approval"]
                /\ Ends(w)
    /\ UNCHANGED faults

\* The last checkpointed plan is kept as a version. The database refuses to take
\* the seed out of QC under a later waiver of it: the failure is not recorded.
FailReviewOnly(w) ==
    /\ pass[w].pc = "failing"
    /\ LET p == pass[w]
           x == reviews[p.r]
           salvage == x.ckpt # NoCheckpoint /\ x.ckpt.body # Body(x.seed)
           kept == salvage /\ Body(Latest) = x.ckpt.body /\ Latest # x.seed
           failed == [Stopped(x, "failed") EXCEPT
                        !.result = Body(x.seed),
                        !.salvaged = IF kept THEN Latest ELSE IF salvage THEN Latest + 1
                                     ELSE NoVersion]
           rows == [reviews EXCEPT ![p.r] = failed]
       IN  IF x.st \in Live /\ Mine(w) /\ MayStop(rows, x.seed)
           THEN /\ reviews' = rows
                /\ versions' = Returned(IF salvage /\ ~ kept
                                        THEN InsertPlanVersion(versions, x.ckpt.body, "qc_interim")
                                        ELSE versions, x.seed)
           ELSE UNCHANGED <<reviews, versions>>
    /\ Ends(w)
    /\ UNCHANGED <<item, faults>>

RenewReviewLease(w) ==
    /\ Mine(w) /\ reviews[pass[w].r].late
    /\ reviews' = [reviews EXCEPT ![pass[w].r].late = FALSE]
    /\ UNCHANGED <<versions, item, pass, faults>>

\* drain(): the claim is given back; the pass may still be answered, too late.
Drain(w) ==
    /\ MayFault /\ Mine(w)
    /\ reviews' = [reviews EXCEPT ![pass[w].r] = Requeued(@)]
    /\ faults' = faults + 1
    /\ UNCHANGED <<versions, item, pass>>

Crash(w) ==
    /\ MayFault /\ pass[w].pc # "idle"
    /\ Ends(w)
    /\ faults' = faults + 1
    /\ UNCHANGED <<versions, reviews, item>>

LeaseRunsOut(r) ==
    /\ reviews[r].run = "reviewing" /\ ~ reviews[r].late
    /\ \/ MayFault /\ faults' = faults + 1
       \/ (\A w \in Workers : ~ (Mine(w) /\ pass[w].r = r)) /\ UNCHANGED faults
    /\ reviews' = [reviews EXCEPT ![r].late = TRUE]
    /\ UNCHANGED <<versions, item, pass>>

-----------------------------------------------------------------------------

Init ==
    /\ versions = <<>>
    /\ reviews = <<>>
    /\ item = [st |-> "planning", open |-> TRUE, approved |-> NoVersion]
    /\ pass = [w \in Workers |-> Idle]
    /\ faults = 0

Pass(w) ==
    \/ Claim(w) \/ LoadReviewOnlySeed(w) \/ MarkReviewOnlyStarted(w)
    \/ ReviewerAnswers(w) \/ PmAnswers(w) \/ CallFails(w)
    \/ RecordReviewOnlyCheckpoint(w) \/ RecordReviewOnlyProgress(w)
    \/ PauseReviewOnly(w) \/ CompleteReviewOnly(w) \/ FailReviewOnly(w)

Command(r) ==
    \/ ContinueWithoutQc(r) \/ ApprovePlan(r) \/ CancelReview(r)
    \/ ResumeReview(r) \/ AdjudicateReview(r) \/ PatchReview(r)

Next ==
    \/ SavePlanCandidate \/ SendPlanToQc \/ SkipQc \/ RequestPlanChanges \/ RejectPlan
    \/ \E r \in DOMAIN reviews : Command(r) \/ LeaseRunsOut(r)
    \/ \E w \in Workers : Pass(w) \/ RenewReviewLease(w) \/ Drain(w) \/ Crash(w)
    \/ RecoverExpiredReviewOnly

Spec == Init /\ [][Next]_reviewVars

\* The server's timer ticks the worker, provider calls end (the pass is aborted
\* after planningRunMaxMs), and an abandoned lease runs out.
ReviewFairness ==
    /\ \A w \in Workers : WF_reviewVars(Pass(w))
    /\ WF_reviewVars(RecoverExpiredReviewOnly)
    /\ \A r \in 1 .. MaxReviews : WF_reviewVars(r \in DOMAIN reviews /\ LeaseRunsOut(r))

-----------------------------------------------------------------------------
(* Properties.                                                             *)

\* The review row and the planning run, written by different transactions of
\* worker, human and recovery, never disagree: a lease exists exactly while the
\* run is being worked on, a parked or finished review holds none, and the two
\* finish together (planWorkflow.ts pauseReviewOnly, completeReviewOnly,
\* failReviewOnly, cancelReview; runWorker.ts claim, drain, recovery).
ReviewAndRunAgree ==
    \A r \in DOMAIN reviews :
       LET x == reviews[r]
       IN  /\ x.token # NoToken <=> x.run = "reviewing"
           /\ x.st = "awaiting_human" => x.run \in {"awaiting_human", "queued", "reviewing"}
           /\ x.st \in {"queued", "running"} => x.run \in {"queued", "reviewing"}
           /\ x.st \in ReviewTerminal => x.run \in {x.st, "approved"}
           /\ x.gate # "none" <=> x.st = "awaiting_human"

\* Fencing: a pass that lost its lease (expired, drained, cancelled, claimed by
\* another worker, re-queued by a ruling) changes neither review nor plan, however
\* late its provider answers.
StaleWorkerStep ==
    \A w \in Workers :
       pass[w].pc # "idle" /\ ~ Mine(w) /\ pass'[w] # pass[w] =>
          UNCHANGED <<versions, reviews, item>>
StaleWorkerHarmless == [][StaleWorkerStep]_reviewVars

\* Whatever a human approved was the result of a review that passed, or a waiver,
\* of exactly this content, and it is never changed again.
ApprovedStep ==
    /\ item.approved # NoVersion =>
          /\ item'.approved = item.approved
          /\ versions'[item.approved] = versions[item.approved]
    /\ item'.approved # NoVersion =>
          \E r \in DOMAIN reviews' : /\ reviews'[r].st \in Success
                                     /\ reviews'[r].result = versions'[item'.approved].body
ApprovedForGood == [][ApprovedStep]_reviewVars

\* A review sent to QC or resumed does not stay queued or under way: it parks for
\* the human or ends, whatever crashes, drains and expiries it goes through, unless
\* the database refuses to record its failure (planWorkflow.ts failReviewOnly).
Unsettled(r) == r \in DOMAIN reviews /\ reviews[r].run \in {"queued", "reviewing"}

\* The failure of a parked review whose plan was waived in the meantime: the guard
\* on work_plan_versions keeps the seed in QC, the transaction is rolled back, and
\* the review is tried again when its lease has expired.
FailureRefused(r) ==
    \E w \in Workers :
       /\ pass[w].pc = "failing" /\ pass[w].r = r /\ Mine(w)
       /\ reviews[r].st \in Live
       /\ ~ MayStop([reviews EXCEPT ![r] = Stopped(@, "failed")], reviews[r].seed)

\* planWorkflow.ts:1835 on a parked review: "'Accept now' on a paused review keeps
\* whatever plan is current at the pause point - the interim revision if the PM
\* already revised it, the original seed otherwise - never silently reverting to
\* the seed". The plan a park records is the plan the pass had reached.
ParkKeepsPlan ==
    [][\A w \in Workers :
          pass[w].pc = "parking" /\ Mine(w) /\ pass'[w] = Idle
             /\ reviews'[pass[w].r].st = "awaiting_human" =>
                reviews'[pass[w].r].result = pass[w].body]_reviewVars
=============================================================================
