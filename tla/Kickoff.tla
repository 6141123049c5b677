------------------------------ MODULE Kickoff ------------------------------
(***************************************************************************)
(* From an approved plan to an executing phase.  An approval leaves a      *)
(* kickoff intent; the person releases it; whoever claims it drives the    *)
(* kickoff saga: look for an executing phase, create a phase, bind it to   *)
(* the plan, propose a strategy, apply the staffing the person chose,      *)
(* approve it, bind the task packages, start the phase.  Every stage is a  *)
(* transaction of its own.  The same plan can be kicked off again by a     *)
(* retry of any user, and by another claim of an intent whose lease ran    *)
(* out while its holder was slow.                                          *)
(*                                                                         *)
(* A phase's identity is derived from the plan and the acting user, so it  *)
(* is written <<r, u>>.  Strategy versions of a phase form a sequence.     *)
(***************************************************************************)
EXTENDS Naturals, Sequences, FiniteSets

CONSTANTS Plans,       \* approved planning runs of one project
          Users,       \* who may act: a retry can come from any of them
          Decider,     \* who approved the plans, and so acts for the intents
          Staffed,     \* the plans whose approval overrides the staffing
          Callers,     \* concurrent kickoff calls
          Tasks,       \* tasks a plan materialises
          MaxRetries,  \* bound: calls of the retry route
          MaxFaults    \* bound: leases run out and crashes

VARIABLES phases,   \* phases[<<r, u>>]: the phase row, its strategies, its tasks
          bound,    \* bound[r]: the phase that carries planning_run_id r
          project,  \* the project's aggregate_version
          intent,   \* intent[r]: the kickoff intent, with its lease
          item,     \* item[r]: the work item's status
          call,     \* call[w]: one kickoff in progress
          retries,  \* retries made
          faults    \* faults injected

kickoffVars == <<phases, bound, project, intent, item, call, retries, faults>>

None == "none"
Unbound == <<>>      \* no phase carries the plan's planning_run_id yet
PhaseIds == Plans \X Users
Settled == {"succeeded", "refused", "failed"}

NoPhase == [status |-> "absent", ver |-> 0, strategies |-> <<>>, dispatched |-> 0]
Idle == [pc |-> "idle", run |-> None, user |-> None, via |-> None,
         phase |-> <<>>, ver |-> 0, strategy |-> 0, started |-> FALSE]

Init ==
    /\ phases = [p \in PhaseIds |-> NoPhase]
    /\ bound = [r \in Plans |-> Unbound]
    /\ project = 0
    /\ intent = [r \in Plans |-> [status |-> "held", holder |-> None]]
    /\ item = [r \in Plans |-> "ready"]
    /\ call = [w \in Callers |-> Idle]
    /\ retries = 0
    /\ faults = 0

Active(p) == phases[p].status = "active"
Latest(p) == phases[p].strategies[Len(phases[p].strategies)]
Materialised(p) == \E i \in DOMAIN phases[p].strategies :
                      phases[p].strategies[i].status = "approved"

Goto(w, pc) == call' = [call EXCEPT ![w].pc = pc]

\* kickoff() turns every throw into a report: nothing is rolled back
Report(w, started) ==
    call' = [call EXCEPT ![w].pc = "report", ![w].started = started]

Refuse(w) == Report(w, FALSE)

-----------------------------------------------------------------------------
(* Intents and retries                                                     *)

startDevelopment(r) ==
    /\ intent[r].status = "held"
    /\ intent' = [intent EXCEPT ![r].status = "pending"]
    /\ UNCHANGED <<phases, bound, project, item, call, retries, faults>>

Begin(w, r, u, via) ==
    call' = [call EXCEPT ![w] = [Idle EXCEPT !.pc = "check", !.run = r,
                                             !.user = u, !.via = via]]

dispatchKickoffIntent(w, r) ==
    /\ call[w].pc = "idle"
    /\ intent[r].status = "pending"
    /\ intent' = [intent EXCEPT ![r] = [status |-> "leased", holder |-> w]]
    /\ Begin(w, r, Decider, "intent")
    /\ UNCHANGED <<phases, bound, project, item, retries, faults>>

\* the timer gives a lease of five minutes back, whether its holder died or is
\* only slow
reconcileKickoffIntents(r) ==
    /\ intent[r].status = "leased"
    /\ faults < MaxFaults \/ ~\E w \in Callers : w = intent[r].holder /\ call[w].pc # "idle"
    /\ intent' = [intent EXCEPT ![r] = [status |-> "pending", holder |-> None]]
    /\ faults' = IF faults < MaxFaults THEN faults + 1 ELSE faults
    /\ UNCHANGED <<phases, bound, project, item, call, retries>>

\* the retry route, and the decision route of a plan approved outside a
\* conversation
RetryExecution(w, r, u) ==
    /\ call[w].pc = "idle"
    /\ retries < MaxRetries
    /\ retries' = retries + 1
    /\ Begin(w, r, u, "retry")
    /\ UNCHANGED <<phases, bound, project, intent, item, faults>>

Crash(w) ==
    /\ call[w].pc # "idle"
    /\ faults < MaxFaults
    /\ faults' = faults + 1
    /\ call' = [call EXCEPT ![w] = Idle]
    /\ UNCHANGED <<phases, bound, project, intent, item, retries>>

\* Variant: a caller settles the intent whether or not it still holds it.
settleUnfenced(w) ==
    LET c == call[w]
    IN  /\ c.via = "intent"
        /\ intent' = [intent EXCEPT ![c.run] =
                        [status |-> IF c.started THEN "succeeded" ELSE "refused", holder |-> None]]
        /\ item' = IF c.started THEN [item EXCEPT ![c.run] = "executing"] ELSE item

settleKickoffIntent(w) ==
    LET c == call[w]
        r == c.run
        started == c.started /\ bound[r] # Unbound
    IN  /\ c.via = "intent"
        /\ IF intent[r].status = "leased" /\ intent[r].holder = w
           THEN /\ intent' = [intent EXCEPT ![r] =
                       [status |-> IF c.started
                                   THEN IF started THEN "succeeded" ELSE "failed"
                                   ELSE "refused",
                        holder |-> None]]
                /\ item' = IF started THEN [item EXCEPT ![r] = "executing"] ELSE item
           ELSE UNCHANGED <<intent, item>>

reconcileConversationExecutionRetry(w) ==
    LET c == call[w]
        r == c.run
    IN  /\ c.via = "retry"
        /\ item' = IF c.started /\ bound[r] # Unbound /\ Active(bound[r])
                   THEN [item EXCEPT ![r] = "executing"] ELSE item
        /\ UNCHANGED intent

Answer(w) ==
    /\ call[w].pc = "report"
    /\ settleKickoffIntent(w) \/ reconcileConversationExecutionRetry(w)
    /\ call' = [call EXCEPT ![w] = Idle]
    /\ UNCHANGED <<phases, bound, project, retries, faults>>

-----------------------------------------------------------------------------
(* The saga                                                                *)

\* Variant: only an executing phase of the plan itself is looked for.
CheckOwn(w) ==
    LET r == call[w].run
        active == {p \in PhaseIds : Active(p) /\ p[1] = r}
    IN  /\ call[w].pc = "check"
        /\ \/ active = {} /\ Goto(w, "find")
           \/ \E p \in active : Report(w, bound[r] = p)
        /\ UNCHANGED <<phases, bound, project, intent, item, retries, faults>>

\* ORDER BY id LIMIT 1 picks one of the active phases
CheckActive(w) ==
    LET r == call[w].run
        active == {p \in PhaseIds : Active(p)}
    IN  /\ call[w].pc = "check"
        /\ \/ active = {} /\ Goto(w, "find")
           \/ \E p \in active : Report(w, bound[r] = p)
        /\ UNCHANGED <<phases, bound, project, intent, item, retries, faults>>

\* ensurePhase: the phase bound to the plan, or else the project's version
FindPhase(w) ==
    LET r == call[w].run
    IN  /\ call[w].pc = "find"
        /\ IF bound[r] # Unbound
           THEN call' = [call EXCEPT ![w].pc = "ensure", ![w].phase = bound[r]]
           ELSE Goto(w, "version")
        /\ UNCHANGED <<phases, bound, project, intent, item, retries, faults>>

ReadProjectVersion(w) ==
    /\ call[w].pc = "version"
    /\ call' = [call EXCEPT ![w].pc = "create", ![w].ver = project]
    /\ UNCHANGED <<phases, bound, project, intent, item, retries, faults>>

\* the same user's earlier attempt is replayed, another must meet the version
CreatePhase(w) ==
    LET p == <<call[w].run, call[w].user>>
        replay == phases[p].status # "absent"
    IN  /\ call[w].pc = "create"
        /\ IF replay \/ call[w].ver = project
           THEN /\ call' = [call EXCEPT ![w].pc = "bind", ![w].phase = p]
                /\ phases' = IF replay THEN phases
                             ELSE [phases EXCEPT ![p].status = "proposed", ![p].ver = 1]
                /\ project' = IF replay THEN project ELSE project + 1
           ELSE Refuse(w) /\ UNCHANGED <<phases, project>>
        /\ UNCHANGED <<bound, intent, item, retries, faults>>

\* Variant: the loser of the race goes on with its own phase.
BindOwnPhase(w) ==
    LET r == call[w].run
    IN  /\ call[w].pc = "bind"
        /\ bound' = [bound EXCEPT ![r] = IF @ = Unbound THEN call[w].phase ELSE @]
        /\ Goto(w, "ensure")
        /\ UNCHANGED <<phases, project, intent, item, retries, faults>>

\* the unique index on planning_run_id decides a race; the loser takes the
\* winner's phase and leaves its own unbound
BindPhase(w) ==
    LET r == call[w].run
        winner == IF bound[r] = Unbound THEN call[w].phase ELSE bound[r]
    IN  /\ call[w].pc = "bind"
        /\ bound' = [bound EXCEPT ![r] = winner]
        /\ call' = [call EXCEPT ![w].pc = "ensure", ![w].phase = winner]
        /\ UNCHANGED <<phases, project, intent, item, retries, faults>>

EnsureStrategy(w) ==
    /\ call[w].pc = "ensure"
    /\ Goto(w, IF phases[call[w].phase].strategies = <<>> THEN "draft" ELSE "review")
    /\ UNCHANGED <<phases, bound, project, intent, item, retries, faults>>

\* the version that waits gives way to a new one; an approved one stays
superseded(versions) ==
    [i \in DOMAIN versions |->
        IF i = Len(versions) /\ versions[i].status # "approved"
        THEN [versions[i] EXCEPT !.status = "superseded"] ELSE versions[i]]

\* saveAwaitingApproval of version n: refused for a finished phase and when the
\* phase's history moved on; an identical version is replayed, a different one
\* under the same identity is a conflict
saveAwaitingApproval(w, n, edited, next) ==
    LET p == call[w].phase
        ph == phases[p]
        version == [status |-> "awaiting_approval", edited |-> edited, by |-> None]
    IN  IF n \in DOMAIN ph.strategies
        THEN /\ Refuse(w) \/ (ph.strategies[n].edited = edited /\ Goto(w, next))
             /\ UNCHANGED phases
        ELSE IF ph.status = "completed" \/ n # Len(ph.strategies) + 1
             THEN Refuse(w) /\ UNCHANGED phases
             ELSE /\ phases' = [phases EXCEPT ![p] =
                        [ph EXCEPT !.status = "awaiting_approval", !.ver = ph.ver + 1,
                                   !.strategies = Append(superseded(ph.strategies), version)]]
                  /\ Goto(w, next)

DraftStrategy(w) ==
    /\ call[w].pc = "draft"
    /\ saveAwaitingApproval(w, 1, FALSE, "review")
    /\ UNCHANGED <<bound, project, intent, item, retries, faults>>

\* Variant: a strategy that an earlier call proposed is taken as it is.
ReviewAsProposed(w) ==
    LET p == call[w].phase
    IN  /\ call[w].pc = "review"
        /\ Goto(w, IF Latest(p).status # "awaiting_approval" THEN "packages"
                   ELSE IF call[w].run \in Staffed /\ p[2] = Decider /\ call[w].via = "intent"
                        THEN "edit"
                   ELSE "proposed")
        /\ UNCHANGED <<phases, bound, project, intent, item, retries, faults>>

\* the strategy under review decides whether there is anything left to approve
Review(w) ==
    LET latest == Latest(call[w].phase)
    IN  /\ call[w].pc = "review"
        /\ Goto(w, IF latest.status # "awaiting_approval" THEN "packages"
                   ELSE IF call[w].run \in Staffed /\ ~latest.edited THEN "edit"
                   ELSE "proposed")
        /\ UNCHANGED <<phases, bound, project, intent, item, retries, faults>>

EditStaffingReads(w) ==
    /\ call[w].pc = "edit"
    /\ call' = [call EXCEPT ![w].pc = "save",
                            ![w].strategy = Len(phases[call[w].phase].strategies)]
    /\ UNCHANGED <<phases, bound, project, intent, item, retries, faults>>

EditStaffing(w) ==
    /\ call[w].pc = "save"
    /\ saveAwaitingApproval(w, call[w].strategy + 1, TRUE, "proposed")
    /\ UNCHANGED <<bound, project, intent, item, retries, faults>>

ApproveReads(w) ==
    LET p == call[w].phase
    IN  /\ call[w].pc = "proposed"
        /\ IF Latest(p).status = "awaiting_approval"
           THEN call' = [call EXCEPT ![w].pc = "approve", ![w].ver = phases[p].ver,
                                     ![w].strategy = Len(phases[p].strategies)]
           ELSE Refuse(w)
        /\ UNCHANGED <<phases, bound, project, intent, item, retries, faults>>

\* the approval's identity names the user and the plan, so the same approval is
\* replayed; tasks are inserted under identities that belong to the phase, so a
\* second materialisation cannot commit
ApproveStrategy(w) ==
    LET c == call[w]
        ph == phases[c.phase]
        s == ph.strategies[c.strategy]
    IN  /\ c.pc = "approve"
        /\ \/ /\ s.status = "approved" /\ s.by = c.user
              /\ Goto(w, "packages")
              /\ UNCHANGED phases
           \/ /\ s.status = "awaiting_approval" /\ ph.ver = c.ver
              /\ ~Materialised(c.phase)
              /\ phases' = [phases EXCEPT ![c.phase] =
                    [ph EXCEPT !.status = "approved", !.ver = ph.ver + 1,
                               !.strategies[c.strategy] =
                                  [s EXCEPT !.status = "approved", !.by = c.user]]]
              /\ Goto(w, "packages")
           \/ /\ ~(s.status = "approved" /\ s.by = c.user)
              /\ s.status # "awaiting_approval" \/ ph.ver # c.ver \/ Materialised(c.phase)
              /\ Refuse(w)
              /\ UNCHANGED phases
        /\ UNCHANGED <<bound, project, intent, item, retries, faults>>

\* package bindings are unique and immutable, so they can only be replayed;
\* without materialised tasks there is nothing to bind them to
BindPackages(w) ==
    /\ call[w].pc = "packages"
    /\ IF Materialised(call[w].phase) THEN Goto(w, "start") ELSE Refuse(w)
    /\ UNCHANGED <<phases, bound, project, intent, item, retries, faults>>

\* the concurrency the plan allows may differ from the project's; then the phase
\* starts, and becomes active with the first task the coordinator accepts
StartPhase(w) ==
    LET p == call[w].phase
        ph == phases[p]
    IN  /\ call[w].pc = "start"
        /\ \E changed \in 0 .. 1 : project' = project + changed
        /\ \/ /\ ph.status \in {"approved", "active"}
              /\ \E n \in 1 .. (Tasks - ph.dispatched) :
                    phases' = [phases EXCEPT ![p] =
                        [ph EXCEPT !.status = "active", !.ver = ph.ver + n,
                                   !.dispatched = ph.dispatched + n]]
              /\ Report(w, TRUE)
           \/ Refuse(w) /\ UNCHANGED phases
        /\ UNCHANGED <<bound, intent, item, retries, faults>>

\* the phase's last task completes: the phase closes whatever its status was
PhaseCloses(p) ==
    /\ phases[p].dispatched = Tasks
    /\ phases[p].status # "completed"
    /\ phases' = [phases EXCEPT ![p].status = "completed", ![p].ver = @ + 1]
    /\ UNCHANGED <<bound, project, intent, item, call, retries, faults>>

\* the drainer offers the free slots of an active phase to its other tasks
DrainPhase(p) ==
    /\ Active(p)
    /\ phases[p].dispatched < Tasks
    /\ phases' = [phases EXCEPT ![p].dispatched = @ + 1, ![p].ver = @ + 1]
    /\ UNCHANGED <<bound, project, intent, item, call, retries, faults>>

Saga(w) ==
    \/ CheckActive(w) \/ FindPhase(w) \/ ReadProjectVersion(w) \/ CreatePhase(w)
    \/ BindPhase(w) \/ EnsureStrategy(w) \/ DraftStrategy(w) \/ Review(w)
    \/ EditStaffingReads(w) \/ EditStaffing(w) \/ ApproveReads(w) \/ ApproveStrategy(w)
    \/ BindPackages(w) \/ StartPhase(w) \/ Answer(w)

Next ==
    \/ \E r \in Plans : startDevelopment(r) \/ reconcileKickoffIntents(r)
    \/ \E w \in Callers, r \in Plans : dispatchKickoffIntent(w, r)
    \/ \E w \in Callers, r \in Plans, u \in Users : RetryExecution(w, r, u)
    \/ \E w \in Callers : Saga(w) \/ Crash(w)
    \/ \E p \in PhaseIds : PhaseCloses(p) \/ DrainPhase(p)

Spec == Init /\ [][Next]_kickoffVars

\* A process that is up goes on with the call it started, and the timer of the
\* server both returns expired leases and dispatches what is pending.
KickoffFairness ==
    /\ \A w \in Callers : WF_kickoffVars(Saga(w))
    /\ \A r \in Plans : WF_kickoffVars(reconcileKickoffIntents(r))
    /\ \A r \in Plans : SF_kickoffVars(\E w \in Callers : dispatchKickoffIntent(w, r))

-----------------------------------------------------------------------------
(* Properties                                                              *)

\* However often and by whomever a plan is kicked off, its tasks are created in
\* one phase only, the one bound to it, and only bound phases ever execute: the
\* losers of a race leave an empty proposal behind.
PlanMaterialisedOnce ==
    \A p \in PhaseIds :
        /\ Materialised(p) \/ phases[p].dispatched > 0 => bound[p[1]] = p
        /\ \A i, j \in DOMAIN phases[p].strategies :
              /\ phases[p].strategies[i].status = "approved"
              /\ phases[p].strategies[j].status = "approved"
              => i = j

\* A person's staffing override is in force for every task that is dispatched.
StaffingApplied ==
    \A p \in PhaseIds : p[1] \in Staffed /\ phases[p].dispatched > 0 =>
        \E i \in DOMAIN phases[p].strategies :
            phases[p].strategies[i].status = "approved" /\ phases[p].strategies[i].edited

\* A released intent is settled in the end: succeeded, refused or failed.
Unsettled == \E r \in Plans : intent[r].status \in {"pending", "leased"}

\* "if any phase in the project is already `active`, the kickoff refuses before
\* mutating anything rather than forcing a second executing phase"
OneExecutingPhase == Cardinality({p \in PhaseIds : Active(p)}) <= 1

\* What that check (executionKickoff.ts getActivePhase) does achieve, however kickoffs
\* overlap, crash, lose their lease and are tried again: once a phase executes, only
\* the callers that were past the check by then may add to it, each of them one. The
\* phases that execute and the callers that may still start one are together no
\* more than the callers; a project whose kickoffs run one at a time keeps to one.
ExecutingPhasesBounded ==
    LET executing == {p \in PhaseIds : Active(p)}
        pastCheck == {w \in Callers : call[w].pc \notin {"idle", "check", "report"}}
    IN  executing # {} =>
           Cardinality(executing) + Cardinality(pastCheck) <= Cardinality(Callers)

\* An intent is leased work: it is released once, held by one caller at a time,
\* goes back to the queue only when its lease expired, and is settled once
\* (planWorkflow.ts dispatchKickoffIntent, settleKickoffIntent).
IntentState(r) ==
    CASE intent[r].status = "held"      -> "absent"
      [] intent[r].status = "pending"   -> "queued"
      [] intent[r].status = "leased"    -> "held"
      [] intent[r].status = "succeeded" -> "applied"
      [] OTHER                          -> "dropped"
Intents == INSTANCE LeasedWork WITH Items <- Plans, MayRequeue <- TRUE,
                                    work <- [r \in Plans |-> IntentState(r)]
IntentsAreLeasedWork == Intents!Spec
=============================================================================
