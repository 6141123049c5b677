---------------------------- MODULE PlanningRuns ----------------------------
(***************************************************************************)
(* A planning run outside the conversations: the worker claims the queued  *)
(* row, drafts and reviews a plan with the models, reports every round,    *)
(* and leaves a plan for a person to decide, or, for a quick change,       *)
(* approves it at once and leaves a pending kickoff in the same commit.    *)
(* The row is fenced by a lease token; a deadline fails the run while the  *)
(* model call it gave up on may still answer.  Nothing looks at the expiry *)
(* of these leases: what a dead process held is settled when the server    *)
(* starts again.                                                           *)
(***************************************************************************)
EXTENDS Naturals

CONSTANTS Workers,    \* concurrent execute() calls of the server process
          MaxRounds,  \* review rounds of a run
          MaxModify,  \* bound: decisions that send the run back
          MaxFaults   \* bound: restarts, deadlines and failed commits

VARIABLES run,      \* the planning_runs row
          exec,     \* exec[w]: an execute() or kickoff call of the process
          late,     \* the loops the deadline gave up on and nobody awaits
          modified, \* decisions to modify so far
          faults    \* faults injected

planningVars == <<run, exec, late, modified, faults>>

None == "none"
Working == {"drafting", "reviewing", "revising"}
Decidable == {"converged", "cap_reached"}
Looping == {"draft", "review", "reviewed"}

\* token: 0 for none, else the number of the claim that holds the row
NoExec == [pc |-> "idle", token |-> 0, round |-> 0]

Init ==
    /\ run = [mode |-> None, status |-> None, round |-> 0, token |-> 0,
              claims |-> 0, result |-> FALSE, kickoff |-> None, retryAt |-> FALSE]
    /\ exec = [w \in Workers |-> NoExec]
    /\ late = {}
    /\ modified = 0
    /\ faults = 0

create ==
    /\ run.status = None
    /\ \E mode \in {"planned", "quick"} :
          run' = [run EXCEPT !.mode = mode, !.status = "queued"]
    /\ UNCHANGED <<exec, late, modified, faults>>

Owns(w) == run.token = exec[w].token

\* a row in one of these states is out of the worker's hands
Released(r) == [r EXCEPT !.token = 0]

\* every write of the worker is UPDATE ... WHERE lease_token = its own: without
\* the row it silently changes nothing
Write(w, r) == run' = IF Owns(w) THEN r ELSE run

Done(w) == exec' = [exec EXCEPT ![w] = NoExec]

Claim(w) ==
    /\ exec[w].pc = "idle"
    /\ run.status = "queued"
    /\ run' = [run EXCEPT !.status = "drafting", !.claims = @ + 1, !.token = run.claims + 1]
    /\ exec' = [exec EXCEPT ![w] = [pc |-> "draft", token |-> run.claims + 1, round |-> 0]]
    /\ UNCHANGED <<late, modified, faults>>

\* Variant: a failed run keeps its lease.
failLeased(r) == [r EXCEPT !.status = "failed"]

fail(r) == Released([r EXCEPT !.status = "failed"])

\* no model, no adapter, or the loop itself throws
ExecuteFails(w) ==
    /\ exec[w].pc \in Looping
    /\ Write(w, fail(run))
    /\ Done(w)
    /\ UNCHANGED <<late, modified, faults>>

\* runPlanning's loop: what it reports next (onRound), as the status and round
\* persistProgress writes and the place the loop goes on from.  A plan that needs
\* another round is only revised while rounds are left.
Report(e) ==
    CASE e.pc = "draft"  -> [status |-> "reviewing", round |-> 1, pc |-> "review"]
      [] e.pc = "review" -> [status |-> "revising", round |-> e.round, pc |-> "reviewed"]
      [] e.pc = "reviewed" /\ e.round < MaxRounds ->
            [status |-> "reviewing", round |-> e.round + 1, pc |-> "review"]

MayReport(e) == e.pc \in {"draft", "review"} \/ (e.pc = "reviewed" /\ e.round < MaxRounds)

persistProgress(r, e) ==
    IF r.token = e.token
    THEN [r EXCEPT !.status = Report(e).status, !.round = Report(e).round] ELSE r

Reported(e) == [e EXCEPT !.pc = Report(e).pc, !.round = Report(e).round]

RoundReported(w) ==
    /\ run.mode = "planned"
    /\ MayReport(exec[w])
    /\ run' = persistProgress(run, exec[w])
    /\ exec' = [exec EXCEPT ![w] = Reported(@)]
    /\ UNCHANGED <<late, modified, faults>>

persistTerminal(r, status) ==
    Released([r EXCEPT !.status = status, !.result = TRUE])

\* the plan converged, or its rounds ran out
PlanReady(w) ==
    /\ exec[w].pc = "reviewed"
    /\ \E status \in Decidable :
          /\ status = "cap_reached" => exec[w].round = MaxRounds
          /\ Write(w, persistTerminal(run, status))
    /\ Done(w)
    /\ UNCHANGED <<late, modified, faults>>

persistQuickApproval(r) ==
    Released([r EXCEPT !.status = "approved", !.result = TRUE, !.kickoff = "pending"])

QuickApproved(w) ==
    /\ exec[w].pc \in Looping
    /\ run.mode = "quick"
    /\ Write(w, persistQuickApproval(run))
    /\ Done(w)
    /\ UNCHANGED <<late, modified, faults>>

\* withDeadline: the run fails, the loop it raced goes on behind the back
DeadlineHits(w) ==
    /\ exec[w].pc \in Looping
    /\ faults < MaxFaults
    /\ faults' = faults + 1
    /\ Write(w, fail(run))
    /\ late' = IF run.mode = "planned" THEN late \cup {exec[w]} ELSE late
    /\ Done(w)
    /\ UNCHANGED modified

\* a loop nobody waits for goes on to its end, reporting every round
LateRound(e) ==
    /\ \/ /\ MayReport(e)
          /\ run' = persistProgress(run, e)
          /\ late' = (late \ {e}) \cup {Reported(e)}
       \/ /\ late' = late \ {e}
          /\ UNCHANGED run
    /\ UNCHANGED <<exec, modified, faults>>

\* approve, modify (re-queue with the person's direction) or reject
Decide ==
    /\ run.status \in Decidable
    /\ \/ run' = [run EXCEPT !.status = "approved"] /\ UNCHANGED modified
       \/ run' = [run EXCEPT !.status = "rejected"] /\ UNCHANGED modified
       \/ /\ modified < MaxModify
          /\ modified' = modified + 1
          /\ run' = Released([run EXCEPT !.status = "queued", !.round = 0, !.result = FALSE])
    /\ UNCHANGED <<exec, late, faults>>

\* a pending kickoff whose retry time has come
claimQuickKickoff(w) ==
    /\ exec[w].pc = "idle"
    /\ run.kickoff = "pending"
    /\ ~run.retryAt
    /\ run' = [run EXCEPT !.kickoff = "in_progress", !.claims = @ + 1,
                          !.token = run.claims + 1]
    /\ exec' = [exec EXCEPT ![w] = [NoExec EXCEPT !.pc = "kickoff", !.token = run.claims + 1]]
    /\ UNCHANGED <<late, modified, faults>>

\* the kickoff never throws: a refusal is a report, and completes it too
completeQuickKickoff(w) ==
    /\ exec[w].pc = "kickoff"
    /\ Write(w, Released([run EXCEPT !.kickoff = "completed"]))
    /\ Done(w)
    /\ UNCHANGED <<late, modified, faults>>

\* recording the report failed
retryQuickKickoff(w) ==
    /\ exec[w].pc = "kickoff"
    /\ faults < MaxFaults
    /\ faults' = faults + 1
    /\ Write(w, Released([run EXCEPT !.kickoff = "pending", !.retryAt = TRUE]))
    /\ Done(w)
    /\ UNCHANGED <<late, modified>>

RetryTimeComes ==
    /\ run.retryAt
    /\ run' = [run EXCEPT !.retryAt = FALSE]
    /\ UNCHANGED <<exec, late, modified, faults>>

\* Variant: only interrupted planning loops are looked for.
reconcileLoops(r) == IF r.status \in Working THEN fail(r) ELSE r

\* a quick kickoff is given back, an interrupted planning loop fails
reconcileOrphans(r) ==
    IF r.status \in Working THEN fail(r)
    ELSE IF r.kickoff = "in_progress"
         THEN Released([r EXCEPT !.kickoff = "pending"])
         ELSE r

\* the process dies with all its calls and timers; its successor reconciles
\* before its first tick
Restart ==
    /\ faults < MaxFaults
    /\ faults' = faults + 1
    /\ exec' = [w \in Workers |-> NoExec]
    /\ late' = {}
    /\ run' = reconcileOrphans(run)
    /\ UNCHANGED modified

Work(w) ==
    \/ Claim(w) \/ ExecuteFails(w) \/ RoundReported(w) \/ PlanReady(w)
    \/ QuickApproved(w) \/ claimQuickKickoff(w) \/ completeQuickKickoff(w)

Next ==
    \/ \E w \in Workers : Work(w) \/ DeadlineHits(w) \/ retryQuickKickoff(w)
    \/ \E e \in late : LateRound(e)
    \/ create \/ RetryTimeComes \/ Decide \/ Restart

Spec == Init /\ [][Next]_planningVars

\* The worker's timer claims what is due; a loop ends within its deadline.
PlanningFairness ==
    (\A w \in Workers : WF_planningVars(Work(w))) /\ WF_planningVars(RetryTimeComes)

-----------------------------------------------------------------------------
(* Properties                                                              *)

\* A run in a worker's hands has exactly one call that can write to it, and a
\* run out of its hands has none: no late answer can follow a verdict.
RunHasOneWriter ==
    /\ run.status \in Working \/ run.kickoff = "in_progress"
          => \E w \in Workers : exec[w].pc # "idle" /\ Owns(w)
    /\ \A w, x \in Workers :
          exec[w].pc # "idle" /\ exec[x].pc # "idle" /\ Owns(w) /\ Owns(x) => w = x
    /\ run.token # 0 => run.status \in Working \/ run.kickoff = "in_progress"

\* Every queued run comes to a verdict or to a person, and the kickoff of a
\* quick change is delivered, through restarts.
Unsettled == \/ run.status \in Working \cup {"queued"}
             \/ run.kickoff \in {"pending", "in_progress"}
=============================================================================
