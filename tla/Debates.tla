------------------------------ MODULE Debates ------------------------------
(***************************************************************************)
(* A debate run: actors take turns in rounds, every turn is one paid       *)
(* provider call made by whichever server process leases the turn's job    *)
(* (apps/server/src/debates/worker.ts), while a human pauses, resumes,     *)
(* cancels or ends the run (debates/service.ts).                           *)
(*                                                                         *)
(* `debate` is the committed database: the run row, the turns and their    *)
(* attempts. A turn attempt, its job and its reservation are created       *)
(* together and are one row here. Every transaction of the code locks the  *)
(* run row first, so it is one step; the steps of a worker's tick, its     *)
(* provider call and its crash interleave with the other processes and the *)
(* human. Money is counted in integer units; the three run limits (cost,   *)
(* input and output tokens) are compared alike and stand as one.           *)
(***************************************************************************)
EXTENDS Naturals, Sequences, FiniteSets, FiniteSetsExt

CONSTANTS Workers,      \* server processes ticking the debate worker
          RoundSize,    \* actors of a round: the participants, then the judge if any
          MaxRounds,    \* stopping policy: max_rounds
          TurnCharge,   \* maximum_turn_charge_usd of every actor
          MaxCost,      \* stopping policy: max_total_cost_usd
          ActorBudget,  \* budget_limit_usd of every actor, at least TurnCharge
          MaxActorTurns,\* max_turns of every actor
          MaxAttempts,  \* automatic attempts of a turn
          MaxCommands   \* bound: the human's commands on a run

VARIABLES debate,       \* the database rows of the run
          tick,         \* tick[w]: where worker w stands in its tick
          overdue       \* the run's deadline has passed

debateVars == <<debate, tick, overdue>>

Nobody == "nobody"
Synthesizer == 0        \* the actor that writes the final output, outside the rounds

-----------------------------------------------------------------------------
(* The run's state machine.                                                *)

Terminal == {"completed", "cancelled", "failed"}

RunTransitions ==
    [queued     |-> {"running", "paused", "cancelling", "cancelled", "failed"},
     running    |-> {"pausing", "paused", "finalizing", "cancelling", "cancelled", "failed"},
     pausing    |-> {"paused", "running", "finalizing", "cancelling", "cancelled", "failed"},
     paused     |-> {"queued", "cancelling", "cancelled", "failed"},
     finalizing |-> {"paused", "completed", "cancelling", "cancelled", "failed"},
     cancelling |-> {"cancelled", "failed"},
     completed  |-> {}, cancelled |-> {}, failed |-> {}]

\* A transaction is an operator from database to database; one that throws
\* marks its result and is rolled back as a whole.
Throw(d) == [d EXCEPT !.threw = TRUE]

transitionRunState(d, to) ==
    IF d.state = to THEN d
    ELSE IF to \in RunTransitions[d.state] THEN [d EXCEPT !.state = to]
    ELSE Throw(d)

-----------------------------------------------------------------------------
(* Turns, attempts, jobs and reservations.                                 *)

NoRun == [state |-> "none", synth |-> FALSE, stopAfter |-> "none", last |-> "none",
          output |-> "none", commands |-> 0, turns |-> <<>>, atts |-> <<>>, threw |-> FALSE]

Turn(actor, round, a) == [actor |-> actor, round |-> round, st |-> "queued", att |-> a]

Attempt(t, n) == [turn |-> t, number |-> n, job |-> "queued", by |-> Nobody,
                  late |-> FALSE, res |-> "active", paid |-> 0, usage |-> 0, charged |-> 0]

Attempts(d) == 1 .. Len(d.atts)
Queued(d) == {a \in Attempts(d) : d.atts[a].job = "queued"}
Leased(d) == {a \in Attempts(d) : d.atts[a].job = "leased"}
Holds(d, w, a) == d.atts[a].job = "leased" /\ d.atts[a].by = w
OfActor(d, actor) == {a \in Attempts(d) : d.turns[d.atts[a].turn].actor = actor}

Committed(x) == CASE x.res = "settled" -> x.paid
                  [] x.res \in {"active", "retained"} -> TurnCharge
                  [] OTHER -> 0
CommittedOf(d, A) == MapThenSumSet(LAMBDA a : Committed(d.atts[a]), A)
CommittedCost(d) == CommittedOf(d, Attempts(d))
WithinBudget(d, actor) ==
    /\ CommittedCost(d) + TurnCharge <= MaxCost
    /\ CommittedOf(d, OfActor(d, actor)) + TurnCharge <= ActorBudget
UsageCost(d) == MapThenSumSet(LAMBDA a : d.atts[a].usage, Attempts(d))

\* The end of attempt a: its job, its turn, and its reservation if still active.
Close(d, a, job, turn, res, paid) ==
    LET x == d.atts[a]
        closed == [x EXCEPT !.job = job, !.by = Nobody, !.late = FALSE,
                            !.res = IF x.res = "active" THEN res ELSE x.res,
                            !.paid = IF x.res = "active" THEN paid ELSE x.paid]
    IN  [d EXCEPT !.atts[a] = closed, !.turns[x.turn].st = turn]

\* Variant: the turn's last attempt is queued again.
AddAttemptAgain(d, t, n) ==
    [d EXCEPT !.atts[d.turns[t].att] = [@ EXCEPT !.job = "queued", !.res = "active", !.number = n],
              !.turns[t].st = "queued"]

\* A fresh attempt, job and reservation for turn t.
AddAttempt(d, t, n) ==
    [d EXCEPT !.atts = Append(@, Attempt(t, n)),
              !.turns[t] = [@ EXCEPT !.att = Len(d.atts) + 1, !.st = "queued"]]

AssumeFullCharge(d) ==
    [d EXCEPT !.atts = [a \in DOMAIN @ |->
        IF @[a].res = "retained" THEN [@[a] EXCEPT !.res = "settled", !.paid = TurnCharge]
        ELSE @[a]]]

InsertFinalOutput(d) == [d EXCEPT !.output = IF @ = "none" THEN d.last ELSE @]

-----------------------------------------------------------------------------
(* Committing a provider's answer.                                         *)

completeRun(d) ==
    IF \E a \in Attempts(d) : d.atts[a].res \in {"active", "retained"}
    THEN transitionRunState(d, "paused")
    ELSE transitionRunState(d, "completed")

\* Variant: only usage that was reported counts against the budget.
scheduleUnreserved(d, actor, round) ==
    IF UsageCost(d) + TurnCharge > MaxCost
    THEN completeRun(transitionRunState(InsertFinalOutput(d), "finalizing"))
    ELSE [d EXCEPT !.turns = Append(@, Turn(actor, round, Len(d.atts) + 1)),
                   !.atts = Append(@, Attempt(Len(d.turns) + 1, 1))]

scheduleTurn(d, actor, round) ==
    LET turnsOfActor == {t \in DOMAIN d.turns : d.turns[t].actor = actor}
    IN  IF ~ WithinBudget(d, actor) \/ Cardinality(turnsOfActor) >= MaxActorTurns
        THEN completeRun(transitionRunState(InsertFinalOutput(d), "finalizing"))
        ELSE [d EXCEPT !.turns = Append(@, Turn(actor, round, Len(d.atts) + 1)),
                       !.atts = Append(@, Attempt(Len(d.turns) + 1, 1))]

\* The deterministic limits; `semantic` is what the validated outputs of the
\* round signal (consensus, no material change, a repeated disagreement).
evaluateV2DebateStopping(d, round, late, semantic) ==
    d.stopAfter # "none" \/ round >= MaxRounds \/ late \/ UsageCost(d) >= MaxCost \/ semantic

advance(d, t, late, semantic) ==
    LET actor == d.turns[t].actor
        round == d.turns[t].round
        final == transitionRunState(d, "finalizing")
    IN  IF actor = Synthesizer THEN completeRun(d)
        ELSE IF actor < RoundSize /\ d.stopAfter # "turn" THEN scheduleTurn(d, actor + 1, round)
        ELSE IF ~ evaluateV2DebateStopping(d, round, late, semantic)
             THEN scheduleTurn(d, 1, round + 1)
        ELSE IF d.synth THEN scheduleTurn(final, Synthesizer, round)
        ELSE completeRun(InsertFinalOutput(final))

\* The messages, findings and judgment of the turn are its data; what later
\* steps read of them is that there is a latest message, and whose it is.
storeTurn(d, a) ==
    [Close(d, a, "succeeded", "completed", "settled", d.atts[a].charged)
       EXCEPT !.atts[a].usage = d.atts[a].charged, !.last = "agent"]

\* A synthesizer's turn is the final output, of which a run has one.
storeOutput(d, a) ==
    IF d.turns[d.atts[a].turn].actor # Synthesizer THEN storeTurn(d, a)
    ELSE IF d.output = "none" THEN InsertFinalOutput(storeTurn(d, a))
    ELSE Throw(d)

dropQueued(d) ==
    [d EXCEPT !.atts = [b \in DOMAIN @ |->
        IF @[b].job = "queued" THEN [@[b] EXCEPT !.job = "cancelled", !.res = "released"]
        ELSE @[b]]]

complete(d, w, a, late, semantic) ==
    LET stored == storeOutput(d, a)
        next == advance(stored, d.atts[a].turn, late, semantic)
    IN  IF ~ Holds(d, w, a) THEN Throw(d)
        ELSE IF d.state = "cancelling" THEN transitionRunState(dropQueued(stored), "cancelled")
        ELSE IF d.state = "pausing" /\ next.state \notin Terminal
             THEN transitionRunState(next, "paused")
        ELSE next

-----------------------------------------------------------------------------
(* A failed call. Its kind says what the worker knows of the charge: the   *)
(* provider refused it ("rejected", or "retryable" for a rate limit),      *)
(* reported usage although the output is unusable ("invalid"), or nothing  *)
(* is known ("lost": network, server error, abort, or a commit that threw).*)

fail(d, w, a, kind) ==
    LET t == d.atts[a].turn
        used == IF kind = "invalid"
                THEN [d EXCEPT !.atts[a] = [@ EXCEPT !.res = "settled",
                                  !.paid = d.atts[a].charged, !.usage = d.atts[a].charged]]
                ELSE d
        retry == kind = "retryable" /\ d.state # "pausing"
                   /\ d.atts[a].number < MaxAttempts
    IN  IF ~ Holds(d, w, a) THEN d
        ELSE IF d.state = "cancelling"
             THEN transitionRunState(
                     IF kind = "lost"
                     THEN Close(used, a, "cancelled", "cancelled", "settled", TurnCharge)
                     ELSE Close(used, a, "cancelled", "cancelled", "released", 0), "cancelled")
        ELSE IF retry
             THEN AddAttempt(Close(d, a, "failed", "failed", "released", 0), t,
                             d.atts[a].number + 1)
        ELSE transitionRunState(
                IF kind = "lost" THEN Close(used, a, "dead_letter", "failed", "retained", 0)
                ELSE Close(used, a, "dead_letter", "failed", "released", 0), "paused")

failClaimPreparation(d, w, a) ==
    IF ~ Holds(d, w, a) THEN d
    ELSE transitionRunState(Close(d, a, "dead_letter", "failed", "released", 0), "paused")

stopAtDeadline(d, w, a) ==
    LET closed == Close(d, a, "cancelled", "cancelled", "released", 0)
    IN  CASE ~ Holds(d, w, a) -> d
          [] Holds(d, w, a) /\ d.state = "cancelling" -> transitionRunState(closed, "cancelled")
          [] Holds(d, w, a) /\ d.state = "pausing" -> transitionRunState(closed, "paused")
          [] OTHER -> transitionRunState(
                         InsertFinalOutput(transitionRunState(closed, "finalizing")), "completed")

\* Variant: the turn of a lost lease is tried again at once.
abandonAndRetry(d, a) ==
    AddAttempt(Close(d, a, "dead_letter", "expired", "retained", 0), d.atts[a].turn,
               d.atts[a].number + 1)

\* A job whose lease ran out: whether its call was made, and charged, is unknown.
abandon(d, a) ==
    IF d.state = "cancelling"
    THEN transitionRunState(Close(d, a, "dead_letter", "cancelled", "settled", TurnCharge),
                            "cancelled")
    ELSE transitionRunState(Close(d, a, "dead_letter", "expired", "retained", 0), "paused")

-----------------------------------------------------------------------------
(* The worker's tick.                                                      *)

Idle == [pc |-> "idle", att |-> 0, kind |-> "none"]

Commit(d) == debate' = IF d.threw THEN debate ELSE d
Ends(w) == tick' = [tick EXCEPT ![w] = Idle]

\* claim(): the transaction first buries expired jobs; that leaves the run
\* paused or cancelled, so nothing is then left to claim.
Claim(w) ==
    /\ tick[w].pc = "idle"
    /\ UNCHANGED overdue
    /\ LET expired == {a \in Leased(debate) : debate.atts[a].late}
       IN  \/ \E a \in expired : Commit(abandon(debate, a)) /\ UNCHANGED tick
           \/ /\ expired = {}
              /\ debate.state \in {"queued", "running", "finalizing"}
              /\ \E a \in Queued(debate) :
                    /\ debate' = [debate EXCEPT
                          !.atts[a] = [@ EXCEPT !.job = "leased", !.by = w],
                          !.turns[debate.atts[a].turn].st = "running",
                          !.state = IF @ = "queued" THEN "running" ELSE @]
                    /\ tick' = [tick EXCEPT ![w] = [Idle EXCEPT !.pc = "claimed", !.att = a]]

\* loadClaim() throws: a context without a resolver, an unreadable row.
LoadClaimFails(w) ==
    /\ tick[w].pc = "claimed"
    /\ Commit(failClaimPreparation(debate, w, tick[w].att))
    /\ Ends(w)
    /\ UNCHANGED overdue

\* Before the provider is called, a passed deadline ends the run.
StopAtDeadline(w) ==
    /\ tick[w].pc \in {"claimed", "recorded"}
    /\ overdue
    /\ Commit(stopAtDeadline(debate, w, tick[w].att))
    /\ Ends(w)
    /\ UNCHANGED overdue

\* Building the prompt or the adapter throws, or the lease is lost.
PrepareFails(w) ==
    /\ tick[w].pc = "claimed"
    /\ Commit(fail(debate, w, tick[w].att, "rejected"))
    /\ Ends(w)
    /\ UNCHANGED overdue

RecordPromptDispatch(w) ==
    /\ tick[w].pc = "claimed"
    /\ ~ overdue
    /\ Holds(debate, w, tick[w].att)
    /\ tick' = [tick EXCEPT ![w].pc = "recorded"]
    /\ UNCHANGED <<debate, overdue>>

\* The call leaves the process; `charge` is what the provider will bill for it,
\* whatever the worker learns of it.
CallProvider(w) ==
    /\ tick[w].pc = "recorded"
    /\ ~ overdue
    /\ \E charge \in 0 .. TurnCharge :
          debate' = [debate EXCEPT !.atts[tick[w].att].charged = charge]
    /\ tick' = [tick EXCEPT ![w].pc = "calling"]
    /\ UNCHANGED overdue

\* The provider answers, refuses, or the connection (or the deadline's abort)
\* leaves the outcome unknown. A served call is billed, a refusal is not.
ProviderAnswers(w) ==
    /\ tick[w].pc = "calling"
    /\ \E kind \in {"ok", "invalid", "lost", "rejected", "retryable"} :
          /\ kind \in {"rejected", "retryable"} => debate.atts[tick[w].att].charged = 0
          /\ kind \in {"ok", "invalid"} => debate.atts[tick[w].att].charged > 0
          /\ tick' = [tick EXCEPT ![w] = [@ EXCEPT !.pc = "answered", !.kind = kind]]
    /\ UNCHANGED <<debate, overdue>>

\* complete(): a commit that throws is followed by fail() with its error.
Complete(w) ==
    /\ tick[w].pc = "answered" /\ tick[w].kind = "ok"
    /\ \E semantic \in BOOLEAN :
          LET d == complete(debate, w, tick[w].att, overdue, semantic)
          IN  /\ Commit(d)
              /\ tick' = [tick EXCEPT ![w] = IF d.threw THEN [@ EXCEPT !.kind = "lost"] ELSE Idle]
    /\ UNCHANGED overdue

Fail(w) ==
    /\ tick[w].pc = "answered" /\ tick[w].kind # "ok"
    /\ Commit(fail(debate, w, tick[w].att, tick[w].kind))
    /\ Ends(w)
    /\ UNCHANGED overdue

ExtendLease(w) ==
    /\ tick[w].pc = "calling"
    /\ Holds(debate, w, tick[w].att) /\ debate.atts[tick[w].att].late
    /\ debate' = [debate EXCEPT !.atts[tick[w].att].late = FALSE]
    /\ UNCHANGED <<tick, overdue>>

Crash(w) ==
    /\ tick[w].pc # "idle"
    /\ Ends(w)
    /\ UNCHANGED <<debate, overdue>>

\* Time: a lease runs out, or the run's deadline passes.
LeaseRunsOut ==
    /\ \E a \in Leased(debate) :
          ~ debate.atts[a].late /\ debate' = [debate EXCEPT !.atts[a].late = TRUE]
    /\ UNCHANGED <<tick, overdue>>

DeadlinePasses ==
    /\ debate.state # "none" /\ ~ overdue
    /\ overdue' = TRUE
    /\ UNCHANGED <<debate, tick>>

-----------------------------------------------------------------------------
(* The human's commands. Each carries the run version it was decided on; a *)
(* stale one is refused and changes nothing.                               *)

Start ==
    /\ debate.state = "none"
    /\ TurnCharge <= MaxCost
    /\ \E synth \in BOOLEAN :
          debate' = [NoRun EXCEPT !.state = "queued", !.synth = synth,
                                  !.turns = <<Turn(1, 1, 1)>>, !.atts = <<Attempt(1, 1)>>]
    /\ UNCHANGED <<tick, overdue>>

Open ==
    debate.state # "none" /\ debate.state \notin Terminal /\ debate.commands < MaxCommands
Commanded(d) == Commit([d EXCEPT !.commands = @ + 1])

\* A second pause of a draining run makes it paused with its call in flight.
Pause ==
    /\ Open /\ debate.state # "finalizing"
    /\ Commanded(transitionRunState(debate,
                    IF debate.state = "running" THEN "pausing" ELSE "paused"))
    /\ UNCHANGED <<tick, overdue>>

\* Acknowledges ambiguous charges as paid in full, and retries the latest turn
\* that failed or expired unless a job is already queued. A resume the code
\* refuses is rolled back.
Resume ==
    /\ Open /\ debate.state = "paused"
    /\ LET settled == AssumeFullCharge(debate)
           stopped == {t \in DOMAIN debate.turns : debate.turns[t].st \in {"failed", "expired"}}
           t == Max(stopped)
           numbers == {debate.atts[a].number :
                         a \in {b \in Attempts(debate) : debate.atts[b].turn = t}}
           resumed == IF Queued(debate) # {} THEN settled
                      ELSE AddAttempt(settled, t, Max(numbers) + 1)
       IN  /\ Queued(debate) = {} =>
                 stopped # {} /\ WithinBudget(settled, debate.turns[t].actor)
           /\ debate' = [resumed EXCEPT !.state = "queued", !.commands = @ + 1]
    /\ UNCHANGED <<tick, overdue>>

\* Nothing is under way: what is queued is cancelled, what is held released.
closeRun(d) ==
    LET closedRow(x) == [x EXCEPT !.job = IF x.job = "queued" THEN "cancelled" ELSE x.job,
                                  !.res = IF x.res = "active" THEN "released" ELSE x.res]
        closedTurn(x) == [x EXCEPT !.st = IF x.st = "queued" THEN "cancelled" ELSE x.st]
    IN  [d EXCEPT !.atts = [a \in DOMAIN @ |-> closedRow(@[a])],
                  !.turns = [t \in DOMAIN @ |-> closedTurn(@[t])]]

Cancel ==
    /\ Open
    /\ LET paidUp == AssumeFullCharge(debate)
       IN  Commanded(IF Leased(debate) # {} THEN transitionRunState(paidUp, "cancelling")
                     ELSE transitionRunState(closeRun(paidUp), "cancelled"))
    /\ UNCHANGED <<tick, overdue>>

StopAfter ==
    /\ Open
    /\ \E at \in {"turn", "round"} :
          debate.stopAfter # at /\ Commanded([debate EXCEPT !.stopAfter = at])
    /\ UNCHANGED <<tick, overdue>>

\* The human's message joins the transcript.
Intervene ==
    /\ Open /\ debate.last # "human"
    /\ Commanded([debate EXCEPT !.last = "human"])
    /\ UNCHANGED <<tick, overdue>>

-----------------------------------------------------------------------------

Init ==
    /\ debate = NoRun
    /\ tick = [w \in Workers |-> Idle]
    /\ overdue = FALSE

Tick(w) ==
    \/ Claim(w) \/ LoadClaimFails(w) \/ StopAtDeadline(w) \/ PrepareFails(w)
    \/ RecordPromptDispatch(w) \/ CallProvider(w) \/ ProviderAnswers(w)
    \/ Complete(w) \/ Fail(w) \/ ExtendLease(w) \/ Crash(w)

Next ==
    \/ \E w \in Workers : Tick(w)
    \/ LeaseRunsOut \/ DeadlinePasses
    \/ Start \/ Pause \/ Resume \/ Cancel \/ StopAfter \/ Intervene

Spec == Init /\ [][Next]_debateVars

\* What a worker that is up does of itself: its timer ticks, and a provider call
\* ends by its answer or by the abort at the deadline.  Time passes, too, for a
\* lease that nobody extends.
Proceeds(w) ==
    \/ Claim(w) \/ RecordPromptDispatch(w) \/ PrepareFails(w) \/ StopAtDeadline(w)
    \/ CallProvider(w) \/ ProviderAnswers(w) \/ Complete(w) \/ Fail(w)

DebateFairness == (\A w \in Workers : WF_debateVars(Proceeds(w))) /\ SF_debateVars(LeaseRunsOut)

-----------------------------------------------------------------------------
(* Properties.                                                             *)

\* Hard caps: at every moment the money settled, retained as ambiguous and
\* reserved for calls under way stays within the run's and each actor's budget
\* (worker.ts scheduleTurn, service.ts control/resume), however many attempts,
\* expiries, retries and resumes the run went through.
DebateBudgetHeld ==
    /\ CommittedCost(debate) <= MaxCost
    /\ \A actor \in 0 .. RoundSize : CommittedOf(debate, OfActor(debate, actor)) <= ActorBudget

\* An ambiguous call is never repeated without a human's acknowledgement: while a
\* reservation is retained nothing of the run is queued or under way, so neither
\* the retry, nor a late worker, nor a stop can start the next paid call.
AmbiguityStopsTheRun ==
    (\E a \in Attempts(debate) : debate.atts[a].res = "retained") =>
        debate.state = "paused" /\ Queued(debate) \cup Leased(debate) = {}

\* A run that is to be worked on comes to rest: it ends, or waits for a human.
\* (A run left `pausing` with no call in flight is the exception, see README.)
Unsettled == debate.state \in {"queued", "running", "finalizing", "cancelling"}

\* The jobs of a run are leased work: an attempt is queued once, held by one
\* worker, and closed once, with its result or without; a worker whose lease ran
\* out has no effect on it any more (worker.ts claim, complete, fail, abandon).
JobIds == 1 .. (MaxRounds * RoundSize + 1) * MaxAttempts
JobState(i) ==
    IF i \notin Attempts(debate) THEN "absent"
    ELSE CASE debate.atts[i].job = "queued"    -> "queued"
           [] debate.atts[i].job = "leased"    -> "held"
           [] debate.atts[i].job = "succeeded" -> "applied"
           [] OTHER                            -> "dropped"
Jobs == INSTANCE LeasedWork WITH Items <- JobIds, MayRequeue <- FALSE,
                                 work <- [i \in JobIds |-> JobState(i)]
DebateJobsAreLeasedWork == Jobs!Spec
=============================================================================
