---------------------------- MODULE MCWorkflows ----------------------------
(***************************************************************************)
(* Instances of the workflow components for TLC.  A behaviour picks one    *)
(* component, `part`, and runs it alone: the components keep their state   *)
(* in separate tables, and one run of TLC covers all of them.              *)
(***************************************************************************)
EXTENDS Naturals, FiniteSets, TLC

CONSTANTS Parts,      \* the components this run explores
          Workers,    \* worker processes, callers, concurrent requests
          Bodies,     \* plan contents
          Things,     \* conversations, pauses
          Size,       \* rounds of a debate or review, actors of a round, turns
          Crashes,    \* bound on the crashes of a steering server
          Amount,     \* what is reserved for a run's model calls
          Charges,    \* what one of them may be estimated to cost
          MaxExcess   \* how far its cost may exceed the estimate

VARIABLES part,
          debate, tick, overdue,
          versions, reviews, item, pass,
          phases, bound, project, intent, shown, call, retries,
          plan, exec, late, modified,
          minted, calls, held, settled, spent, lapsed,
          conv, attempt, turn, reader, booting,
          run, task, money, waits, act, point, job, agent, delivering,
          resuming, suspendedBy,
          attempts, stop, published, head, permit, at, green, seen, event,
          tree, branch, base, guarded, writes,
          faults, crashes

D == INSTANCE Debates WITH
       RoundSize <- Size, MaxRounds <- Size, TurnCharge <- 1, MaxCost <- 3,
       ActorBudget <- 2, MaxActorTurns <- 2, MaxAttempts <- 2, MaxCommands <- 1

\* one review with a lost worker; a review of one of several saved plans whose
\* settings change; two reviews, one of which may be a waiver, of several plans; the
\* same of one plan, with a lost worker
R == INSTANCE PlanReview WITH
       Rounds <- Size, RoundCap <- Size, MaxVersions <- 1, MaxReviews <- 1,
       MaxRulings <- 1, MaxPatches <- 0, MaxFaults <- 1
S == INSTANCE PlanReview WITH
       Rounds <- 1, RoundCap <- 1, MaxVersions <- 2, MaxReviews <- 1,
       MaxRulings <- 0, MaxPatches <- 1, MaxFaults <- 0
V == INSTANCE PlanReview WITH
       Workers <- {"w"}, Rounds <- 1, RoundCap <- 1, MaxVersions <- 2, MaxReviews <- 2,
       MaxRulings <- 0, MaxPatches <- 0, MaxFaults <- 0
W == INSTANCE PlanReview WITH
       Workers <- {"w"}, Bodies <- {"b"}, Rounds <- 1, RoundCap <- 1, MaxVersions <- 1,
       MaxReviews <- 2, MaxRulings <- 0, MaxPatches <- 0, MaxFaults <- 1

\* one plan kicked off and retried by two users; two plans of one project, whose
\* kickoffs overlap and may lose their caller
K == INSTANCE Kickoff WITH
       Plans <- {"p"}, Users <- {"u", "v"}, Decider <- "u", Staffed <- {"p"},
       Callers <- Workers, Tasks <- 2, MaxRetries <- 1, MaxFaults <- 1,
       item <- shown
L == INSTANCE Kickoff WITH
       Plans <- {"p", "q"}, Users <- {"u"}, Decider <- "u", Staffed <- {},
       Callers <- Workers, Tasks <- 1, MaxRetries <- 0, MaxFaults <- 1,
       item <- shown

P == INSTANCE PlanningRuns WITH
       MaxRounds <- 2, MaxModify <- 1, MaxFaults <- 2, run <- plan

G == INSTANCE Gateway WITH
       Calls <- Workers, MaxCrashes <- 1, run <- minted

\* two conversations under one usage policy; one conversation and a restart
T == INSTANCE ConversationTurns WITH
       Conversations <- Things, Turns <- {1, 2}, MaxMessages <- 1,
       MaxCharge <- 1, Limit <- 1, MaxFaults <- 0
U == INSTANCE ConversationTurns WITH
       Conversations <- {"c"}, Turns <- 1 .. Size, MaxMessages <- 1,
       MaxCharge <- 1, Limit <- 1, MaxFaults <- 1

H == INSTANCE Steering WITH
       Pauses <- Things, Resumes <- {"resume"}, MaxWaits <- 1, MaxFaults <- 1,
       MaxCrashes <- Crashes

B == INSTANCE Publication WITH
       MaxAttempts <- 2, MaxFaults <- 1, run <- attempts, overdue <- writes

\* the components that are not picked have no state at all
Init ==
  /\ part \in Parts
  /\ faults = 0 /\ crashes = 0
  /\ IF part = "debates" THEN D!Init
     ELSE debate = 0 /\ tick = 0 /\ overdue = 0
  /\ CASE part \in {"review", "saves"} -> R!Init
       [] part = "waivers" -> V!Init
       [] part = "waived" -> W!Init
       [] OTHER -> versions = 0 /\ reviews = 0 /\ item = 0 /\ pass = 0
  /\ CASE part = "kickoff" -> K!Init
       [] part = "kickoffs" -> L!Init
       [] OTHER -> /\ phases = 0 /\ bound = 0 /\ project = 0 /\ intent = 0
                   /\ shown = 0 /\ call = 0 /\ retries = 0
  /\ IF part = "planning" THEN P!Init
     ELSE plan = 0 /\ exec = 0 /\ late = 0 /\ modified = 0
  /\ IF part = "gateway" THEN G!Init
     ELSE minted = 0 /\ calls = 0 /\ held = 0 /\ settled = 0 /\ spent = 0 /\ lapsed = 0
  /\ CASE part = "turns" -> T!Init
       [] part = "restarts" -> U!Init
       [] OTHER -> conv = 0 /\ attempt = 0 /\ turn = 0 /\ reader = 0 /\ booting = 0
  /\ IF part = "steering" THEN H!Init
     ELSE /\ run = 0 /\ task = 0 /\ money = 0 /\ waits = 0 /\ act = 0 /\ point = 0
          /\ job = 0 /\ agent = 0 /\ delivering = 0 /\ resuming = 0 /\ suspendedBy = 0
  /\ IF part = "publication" THEN B!Init
     ELSE /\ attempts = 0 /\ stop = 0 /\ published = 0 /\ head = 0 /\ permit = 0
          /\ at = 0 /\ green = 0 /\ seen = 0 /\ event = 0 /\ tree = 0
          /\ branch = 0 /\ base = 0 /\ guarded = 0 /\ writes = 0

debateVars == <<debate, tick, overdue>>
reviewVars == <<versions, reviews, item, pass>>
kickoffVars == <<phases, bound, project, intent, shown, call, retries>>
planVars == <<plan, exec, late, modified>>
gatewayVars == <<minted, calls, held, settled, spent, lapsed>>
turnVars == <<conv, attempt, turn, reader, booting>>
steeringVars == <<run, task, money, waits, act, point, job, agent, delivering,
                  resuming, suspendedBy>>
publishVars == <<attempts, stop, published, head, permit, at, green, seen, event,
                 tree, branch, base, guarded, writes>>

Debating == /\ part = "debates" /\ D!Next
            /\ UNCHANGED <<part, publishVars, reviewVars, kickoffVars, planVars, gatewayVars,
                           turnVars, steeringVars, faults, crashes>>
Reviewing == /\ \/ part = "review" /\ R!Next
                \/ part = "saves" /\ S!Next
                \/ part = "waivers" /\ V!Next
                \/ part = "waived" /\ W!Next
             /\ UNCHANGED <<part, publishVars, debateVars, kickoffVars, planVars, gatewayVars,
                            turnVars, steeringVars, crashes>>
KickingOff == /\ \/ part = "kickoff" /\ K!Next
                 \/ part = "kickoffs" /\ L!Next
              /\ UNCHANGED <<part, publishVars, debateVars, reviewVars, planVars, gatewayVars,
                             turnVars, steeringVars, crashes>>
Planning == /\ part = "planning" /\ P!Next
            /\ UNCHANGED <<part, publishVars, debateVars, reviewVars, kickoffVars, gatewayVars,
                           turnVars, steeringVars, crashes>>
Proxying == /\ part = "gateway" /\ G!Next
            /\ UNCHANGED <<part, publishVars, debateVars, reviewVars, kickoffVars, planVars,
                           turnVars, steeringVars, faults>>
Talking == /\ \/ part = "turns" /\ T!Next
              \/ part = "restarts" /\ U!Next
           /\ UNCHANGED <<part, publishVars, debateVars, reviewVars, kickoffVars, planVars,
                          gatewayVars, steeringVars, crashes>>
Steered == /\ part = "steering" /\ H!Next
           /\ UNCHANGED <<part, publishVars, debateVars, reviewVars, kickoffVars, planVars,
                          gatewayVars, turnVars>>
Publishing == /\ part = "publication" /\ B!Next
              /\ UNCHANGED <<part, debateVars, reviewVars, kickoffVars, planVars,
                             gatewayVars, turnVars, steeringVars, crashes>>

Next == Debating \/ Reviewing \/ KickingOff \/ Planning \/ Proxying \/ Talking \/ Steered
        \/ Publishing

vars == <<part, debateVars, reviewVars, kickoffVars, planVars, gatewayVars, turnVars,
          steeringVars, publishVars, faults, crashes>>

Spec == Init /\ [][Next]_vars

\* The fairness that each component's module states, of the component that runs.
Fairness ==
  /\ \A w \in Workers : /\ WF_debateVars(part = "debates" /\ D!Proceeds(w))
                         /\ WF_reviewVars(part = "review" /\ R!Pass(w))
                         /\ WF_kickoffVars(part = "kickoff" /\ K!Saga(w))
                         /\ WF_planVars(part = "planning" /\ P!Work(w))
  /\ SF_debateVars(part = "debates" /\ D!LeaseRunsOut)
  /\ WF_reviewVars(part = "review" /\ R!RecoverExpiredReviewOnly)
  /\ WF_reviewVars(part = "review" /\ \E r \in DOMAIN reviews : R!LeaseRunsOut(r))
  /\ WF_reviewVars(part = "waived" /\ W!Pass("w"))
  /\ WF_reviewVars(part = "waived" /\ W!RecoverExpiredReviewOnly)
  /\ WF_reviewVars(part = "waived" /\ \E r \in DOMAIN reviews : W!LeaseRunsOut(r))
  /\ WF_kickoffVars(part = "kickoff" /\ K!reconcileKickoffIntents("p"))
  /\ SF_kickoffVars(part = "kickoff" /\ \E w \in Workers : K!dispatchKickoffIntent(w, "p"))
  /\ WF_planVars(part = "planning" /\ P!RetryTimeComes)
  /\ \A t \in 1 .. Size : WF_turnVars(part = "restarts" /\ U!Handle(t))
  /\ WF_turnVars(part = "restarts" /\ U!reconcileReservations)
  /\ \A a \in Things \union {"resume"} :
       /\ SF_steeringVars(part = "steering" /\ (H!ClaimLive(a) \/ H!ClaimCheckpoint(a)))
       /\ WF_steeringVars(part = "steering" /\ delivering = a /\ H!Deliver(a))
  /\ SF_steeringVars(part = "steering" /\ \E i \in DOMAIN waits : H!Stranded = {} /\ H!ClaimWait(i))
  /\ SF_steeringVars(part = "steering" /\ \E i \in DOMAIN waits : H!ProvisionWait(i))
  /\ \A p \in Things : /\ SF_steeringVars(part = "steering" /\ H!Stranded = {} /\ H!ClaimPause(p))
                        /\ SF_steeringVars(part = "steering" /\ H!ProvisionPause(p))
  /\ WF_steeringVars(part = "steering" /\ resuming # H!Nothing /\ H!Continue)
  /\ WF_steeringVars(part = "steering" /\ H!markDelivered)
  /\ WF_steeringVars(part = "steering" /\ H!Runner)
  /\ WF_steeringVars(part = "steering" /\ H!Sweep)

FairSpec == Spec /\ Fairness

Symmetric == Permutations(Workers) \union Permutations(Bodies) \union Permutations(Things)

-----------------------------------------------------------------------------
(* The properties of the components, explained in their modules.           *)

\* However a debate's calls end, expire, are retried and resumed, what it has paid,
\* retained and reserved never exceeds its cost limit or an actor's budget.
DebateBudgetHeld == part = "debates" => D!DebateBudgetHeld
\* While a debate holds a call whose charge is unknown, no further call is queued or
\* under way: only a human's acknowledgement lets the run go on.
AmbiguityStopsTheRun == part = "debates" => D!AmbiguityStopsTheRun
\* The calls that are paid for, a debate's attempts and those of a PM turn, implement
\* LeasedWork: each is queued once, leaves once and is closed once, whatever late
\* workers, expired leases, stopped streams, retries and restarts do.
CallIds == D!JobIds \cup {1, 2} \cup 1 .. Size
PaidCalls == INSTANCE LeasedWork WITH
          Items <- CallIds, MayRequeue <- FALSE,
          work <- [i \in CallIds |->
                     CASE part = "debates" /\ i \in D!JobIds    -> D!JobState(i)
                       [] part = "turns" /\ i \in {1, 2}        -> T!AttemptState(i)
                       [] part = "restarts" /\ i \in 1 .. Size  -> U!AttemptState(i)
                       [] OTHER                                 -> "absent"]
PaidCallsAreLeasedWork == PaidCalls!Spec

Reviews == {"review", "saves", "waivers"}
\* A plan review and its planning run, written by worker, human and recovery, agree:
\* a lease exists exactly while the run is worked on, and both finish together.
ReviewAndRunAgree == part \in Reviews => R!ReviewAndRunAgree
\* A review pass that lost its lease changes neither review nor plan, however late
\* its provider answers.
StaleWorkerHarmless == [][(part \in {"review", "saves"} => R!StaleWorkerStep)]_reviewVars
\* An approved plan is the result of a review that passed, or a waiver, of exactly
\* this content, and neither is changed afterwards.
ApprovedForGood == [][(part \in Reviews => R!ApprovedStep)]_reviewVars
\* "Accept now" on a parked review "keeps whatever plan is current at the pause
\* point" (planWorkflow.ts:1835): the plan a park records is the one the pass reached.
ParkKeepsPlan == R!ParkKeepsPlan

\* However often and by whomever a plan is kicked off, its tasks are created in one
\* phase, the one bound to it, under one approved strategy.
PlanMaterialisedOnce ==
  /\ part = "kickoff" => K!PlanMaterialisedOnce
  /\ part = "kickoffs" => L!PlanMaterialisedOnce
\* A person's staffing override is in force for every task that is dispatched, also
\* when a retry or a second caller continues a half-done kickoff.
StaffingApplied == part = "kickoff" => K!StaffingApplied
\* Kickoff intents implement LeasedWork: a caller whose lease another one took over
\* settles nothing.
Intents == INSTANCE LeasedWork WITH
             Items <- {"p"}, MayRequeue <- TRUE,
             work <- [r \in {"p"} |-> IF part \in {"kickoff", "kickoffs"}
                                      THEN K!IntentState(r) ELSE "absent"]
IntentsAreLeasedWork == Intents!Spec
\* executionKickoff.ts:43: "if any phase in the project is already `active`, the
\* kickoff refuses". Two kickoffs whose checks overlap break it (README).
OneExecutingPhase == L!OneExecutingPhase
\* Once a phase executes, only the kickoffs that were past the check by then may add
\* one each, however kickoffs overlap, are cut off and tried again: together they
\* are no more than the callers.
ExecutingPhasesBounded ==
  /\ part = "kickoff" => K!ExecutingPhasesBounded
  /\ part = "kickoffs" => L!ExecutingPhasesBounded

\* A planning run in a worker's hands has exactly one call that can write to it, and
\* one out of its hands none: no late round or verdict follows a deadline or restart.
RunHasOneWriter == part = "planning" => P!RunHasOneWriter

\* Money the gateway holds belongs to requests still under way: no way a request
\* ends leaves its hold behind.
HoldsAreOutstanding == part = "gateway" => G!HoldsAreOutstanding
\* Requests sent one after another overrun the run's reservation by at most the
\* excess of one of them.
SequentialOverrunBounded == part = "gateway" => G!SequentialOverrunBounded

\* A conversation has at most one reply being written, whatever stops, archives,
\* retries and restarts meet.
OneSpeaker ==
  /\ part = "turns" => T!OneSpeaker
  /\ part = "restarts" => U!OneSpeaker
\* What the turns of all conversations spend, and may still spend, stays within the
\* usage policy, also when the outcome of a call is unknown.
SpendWithinPolicy ==
  /\ part = "turns" => T!SpendWithinPolicy
  /\ part = "restarts" => U!SpendWithinPolicy

\* A run that waits for a human or a pause keeps the money it will continue with.
SuspendedRunKeepsBudget == part = "steering" => H!SuspendedRunKeepsBudget

\* A run that was fenced or ended while its device was publishing writes to the git
\* remote at most once more.
StoppedRunWritesOnce == part = "publication" => B!StoppedRunWritesOnce
\* The commit of an attempt on the task's branch is never replaced by that of an
\* earlier attempt that publishes late.
NewerWorkStands == [][(part = "publication" => B!NewerWorkStep)]_publishVars
\* The head that dispatch starts attempts from only moves to work built on it, though
\* publications are reported late and out of order.
HeadMovesForward == [][(part = "publication" => B!HeadStep)]_publishVars

\* Work handed to the server's workers (a debate turn, a queued review, a kickoff
\* intent, a planning run) comes to rest, through crashes and expired leases. A
\* review is excused when the database refuses to record its failure, because its
\* plan was waived while it was parked: that one is tried again for ever if its
\* calls keep failing (README).
Pending(i) == CASE part = "debates"  -> i = 1 /\ D!Unsettled
                [] part = "review"   -> R!Unsettled(i)
                [] part = "waived"   -> W!Unsettled(i)
                [] part = "kickoff"  -> i = 1 /\ K!Unsettled
                [] part = "planning" -> i = 1 /\ P!Unsettled
                [] OTHER             -> FALSE
Excused(i) == part = "waived" /\ W!FailureRefused(i)
WorkSettles == \A i \in {1, 2} : Pending(i) ~> (~Pending(i) \/ Excused(i))
\* A PM turn that was begun ends, also when the server restarts under it.
TurnsSettle == \A t \in 1 .. Size : (part = "restarts" /\ U!Open(t)) ~> (part = "restarts" => ~U!Open(t))
\* A human's answer to a waiting run reaches an agent, or the wait is ended.
AnswersReachAgent ==
  (part = "steering" /\ H!AnswerQueued(1)) ~> (part = "steering" => H!AnswerSettled(1))
=============================================================================
