------------------------------ MODULE Steering ------------------------------
(***************************************************************************)
(* Suspending and resuming one designated run: an agent's question to a    *)
(* human (human_waits and its continuation), a human's pause and resume of *)
(* the task (conversation actions, their delivery intents and the pause    *)
(* checkpoint), the reservation that must outlive the suspension, and the  *)
(* two timer chains of the server that carry the work (action delivery and *)
(* continuation), either of which a crash may cut between two steps.       *)
(*                                                                         *)
(* The run is bound to a local runner.  `verifying` counts as running, and *)
(* a run that succeeded or failed has ended.  Only task scoped pauses and  *)
(* resumes are here: a pause of the whole item touches no run.             *)
(***************************************************************************)
EXTENDS Naturals, Sequences, FiniteSets

CONSTANTS Pauses,      \* pause_work actions a human may confirm
          Resumes,     \* resume_work actions a human may confirm
          MaxWaits,    \* bound: questions the agent asks
          MaxFaults,   \* bound: device stops, lost authorisations, dead letters
          MaxCrashes   \* bound: crashes of the server

VARIABLES run,         \* agent_runs.state
          task,        \* tasks.state
          money,       \* the run's budget reservation
          waits,       \* human_waits with their continuation
          act,         \* conversation_actions with their delivery intent
          point,       \* conversation_pause_checkpoints
          job,         \* the dispatch job of the run's latest command
          agent,       \* where the runner is with that command
          delivering,  \* the action the delivery chain has in hand
          resuming,    \* the suspension the continuation chain has in hand
          suspendedBy, \* history: what put the run in waiting_for_human
          faults, crashes

steeringVars == <<run, task, money, waits, act, point, job, agent,
                  delivering, resuming, suspendedBy, faults, crashes>>

Acts == Pauses \union Resumes
Nothing == <<"nothing">>
Wait(i) == <<"wait", i>>
Pause(p) == <<"pause", p>>
Reserved == {"active", "used_up", "expired"}   \* status='active': not yet settled

Init ==
  /\ run = "running" /\ task = "in_progress" /\ money = "active"
  /\ waits = <<>>
  /\ act = [a \in Acts |-> [status |-> "none", intent |-> "none", live |-> FALSE, seen |-> FALSE]]
  /\ point = [p \in Pauses |-> [status |-> "none", resume |-> "none", at |-> 0,
                               current |-> TRUE, late |-> FALSE]]
  /\ job = [for |-> Nothing, status |-> "delivered"]
  /\ agent = "working"
  /\ delivering = "none" /\ resuming = Nothing
  /\ suspendedBy = {}
  /\ faults = 0 /\ crashes = 0

Fault == faults < MaxFaults /\ faults' = faults + 1 /\ UNCHANGED crashes

(***************************************************************************)
(* norns_guard_pause_checkpoint: a checkpoint may take a status only while *)
(* the reservation is active, the run still publishes the commit it was    *)
(* paused at and the run is in a state that fits.  A write it refuses is   *)
(* an exception in the worker.                                             *)
(***************************************************************************)
PauseGuard(p, status, runState) ==
  /\ money \in Reserved /\ point[p].current
  /\ status \in {"paused", "resume_queued", "leased"} => runState = "waiting_for_human"
  /\ status \in {"provisioned", "dispatched"} => runState \in {"dispatched", "running"}
  /\ status = "resumed" => runState = "running"

(***************************************************************************)
(* The human side: confirming a pause, a resume, an answer.                *)
(***************************************************************************)
\* A pause of a running run is delivered live; everything else at a checkpoint.
Confirm(a) ==
  /\ act[a].status = "none"
  /\ act' = [act EXCEPT ![a] = [@ EXCEPT !.status = "recorded", !.intent = "queued",
                                          !.live = a \in Pauses /\ run = "running"]]
  /\ UNCHANGED <<run, task, money, waits, point, job, agent, delivering, resuming,
                 suspendedBy, faults, crashes>>

Renewed == IF money = "expired" THEN "active" ELSE money

confirmAnswer(i) ==
  /\ waits[i].status = "awaiting_human" /\ ~waits[i].late
  /\ money \in Reserved
  /\ waits' = [waits EXCEPT ![i] = [@ EXCEPT !.status = "continuation_queued", !.cont = "queued"]]
  /\ money' = Renewed
  /\ UNCHANGED <<run, task, act, point, job, agent, delivering, resuming, suspendedBy, faults, crashes>>

(***************************************************************************)
(* ConversationActionDeliveryWorker: a live pause asks the runner to       *)
(* suspend.  No outcome suspends the run: all of them queue the pause for  *)
(* the run's terminal checkpoint.                                          *)
(***************************************************************************)
ClaimLive(a) ==
  /\ delivering = "none" /\ act[a].live
  /\ act[a].intent \in {"queued", "leased"}   \* leased: an expired lease is taken back first
  /\ act' = [act EXCEPT ![a] = [@ EXCEPT !.intent = "leased", !.seen = run = "running"]]
  /\ delivering' = a
  /\ UNCHANGED <<run, task, money, waits, point, job, agent, resuming, suspendedBy, faults, crashes>>

Fallback(a) ==
  /\ delivering = a /\ act[a].live
  /\ act' = [act EXCEPT ![a].intent = "fallback_queued"]
  /\ delivering' = "none"
  /\ UNCHANGED <<run, task, money, waits, point, job, agent, resuming, suspendedBy, faults, crashes>>

Sent(a) ==
  /\ delivering = a /\ act[a].live /\ act[a].seen
  /\ act' = [act EXCEPT ![a] = [@ EXCEPT !.status = "sent", !.intent = "sent"]]
  /\ delivering' = "none"
  /\ UNCHANGED <<run, task, money, waits, point, job, agent, resuming, suspendedBy, faults, crashes>>

\* The runner's ack: refused leaves the action sent, accepted acknowledges it.
applyCommandAck(a) ==
  /\ act[a].live /\ act[a].intent = "sent"
  /\ \E status \in {"sent", "agent_acknowledged"} :
       act' = [act EXCEPT ![a] = [@ EXCEPT !.status = status, !.intent = "fallback_queued"]]
  /\ UNCHANGED <<run, task, money, waits, point, job, agent, delivering, resuming,
                 suspendedBy, faults, crashes>>

(***************************************************************************)
(* ConversationActionCheckpointWorker.                                     *)
(***************************************************************************)
ClaimCheckpoint(a) ==
  /\ delivering = "none" /\ ~act[a].live
  /\ act[a].intent \in {"queued", "leased"}
  /\ act' = [act EXCEPT ![a].intent = "leased"]
  /\ delivering' = a
  /\ UNCHANGED <<run, task, money, waits, point, job, agent, resuming, suspendedBy, faults, crashes>>

finishCheckpoint(a, status) ==
  act' = [act EXCEPT ![a] = [@ EXCEPT !.status = status, !.intent = status]]

PauseTask(a) ==
  /\ delivering = a /\ ~act[a].live /\ a \in Pauses
  /\ \/ /\ task # "closed"
        /\ task' = "blocked"
        /\ finishCheckpoint(a, "applied")
     \/ task = "closed" /\ finishCheckpoint(a, "failed") /\ task' = task
  /\ delivering' = "none"
  /\ UNCHANGED <<run, money, waits, point, job, agent, resuming, suspendedBy, faults, crashes>>

Paused == {p \in Pauses : point[p].status = "paused"}

\* The latest checkpoint of the task that is still paused is taken, whatever
\* the run is now suspended for.
ResumePaused(a, p) ==
  /\ delivering = a /\ a \in Resumes /\ p \in Paused
  /\ \A q \in Paused : point[q].at <= point[p].at
  /\ \/ /\ PauseGuard(p, "resume_queued", run)
        /\ point' = [point EXCEPT ![p] = [@ EXCEPT !.status = "resume_queued", !.resume = a]]
        /\ money' = Renewed
        /\ act' = [act EXCEPT ![a].intent = "fallback_queued"]
     \/ /\ ~PauseGuard(p, "resume_queued", run)
        /\ finishCheckpoint(a, "failed")
        /\ UNCHANGED <<point, money>>
  /\ delivering' = "none"
  /\ UNCHANGED <<run, task, waits, job, agent, resuming, suspendedBy, faults, crashes>>

ResumeTask(a) ==
  /\ delivering = a /\ a \in Resumes /\ Paused = {}
  /\ \/ run = "waiting_for_human" /\ finishCheckpoint(a, "failed") /\ task' = task
     \/ /\ run # "waiting_for_human"
        /\ task' = CASE task # "blocked"     -> task
                     [] run = "running"      -> "in_progress"
                     [] run = "dispatched"   -> "assigned"
                     [] OTHER                -> "ready"
        /\ finishCheckpoint(a, "applied")
  /\ delivering' = "none"
  /\ UNCHANGED <<run, money, waits, point, job, agent, resuming, suspendedBy, faults, crashes>>

(***************************************************************************)
(* The continuation chain: HumanWaitContinuationWorker, then               *)
(* PauseResumeContinuationWorker.  Both look for leases that ran out, but   *)
(* the update guards of migration 0039 refuse leased -> leased: what a     *)
(* crash leaves leased stays so, and the refused claim ends every tick.    *)
(***************************************************************************)
Resumable == run = "waiting_for_human" /\ task = "blocked" /\ money = "active"

Redispatch(s) ==
  /\ run' = "dispatched" /\ task' = "assigned"
  /\ job' = [for |-> s, status |-> "queued"]
  /\ agent' = "idle"

ClaimWait(i) ==
  /\ resuming = Nothing
  /\ waits[i].cont = "queued"
  /\ waits' = [waits EXCEPT ![i].cont = "leased"]
  /\ resuming' = Wait(i)
  /\ UNCHANGED <<run, task, money, act, point, job, agent, delivering, suspendedBy, faults, crashes>>

ProvisionWait(i) ==
  /\ resuming = Wait(i)
  /\ waits[i].status = "continuation_queued" /\ Resumable
  /\ waits' = [waits EXCEPT ![i].cont = "provisioned"]
  /\ Redispatch(Wait(i))
  /\ resuming' = Nothing
  /\ UNCHANGED <<money, act, point, delivering, suspendedBy, faults, crashes>>

\* Variant: the continuation is dropped from memory and keeps its lease.
ReleaseLeased(i) ==
  /\ resuming = Wait(i)
  /\ resuming' = Nothing
  /\ UNCHANGED <<run, task, money, waits, act, point, job, agent, delivering, suspendedBy,
                 faults, crashes>>

\* No runner, or a conflict: back to the queue, whatever the reason.
ReleaseWait(i) ==
  /\ resuming = Wait(i)
  /\ waits' = [waits EXCEPT ![i].cont = "queued"]
  /\ resuming' = Nothing
  /\ UNCHANGED <<run, task, money, act, point, job, agent, delivering, suspendedBy, faults, crashes>>

ClaimPause(p) ==
  /\ resuming = Nothing
  /\ point[p].status = "resume_queued" /\ PauseGuard(p, "leased", run)
  /\ point' = [point EXCEPT ![p].status = "leased"]
  /\ resuming' = Pause(p)
  /\ UNCHANGED <<run, task, money, waits, act, job, agent, delivering, suspendedBy, faults, crashes>>

ProvisionPause(p) ==
  /\ resuming = Pause(p) /\ Resumable /\ PauseGuard(p, "provisioned", "dispatched")
  /\ point' = [point EXCEPT ![p].status = "provisioned"]
  /\ Redispatch(Pause(p))
  /\ resuming' = Nothing
  /\ UNCHANGED <<money, waits, act, delivering, suspendedBy, faults, crashes>>

ReleasePause(p) ==
  /\ resuming = Pause(p)
  /\ point' = IF PauseGuard(p, "resume_queued", run)
                THEN [point EXCEPT ![p].status = "resume_queued"] ELSE point
  /\ resuming' = Nothing
  /\ UNCHANGED <<run, task, money, waits, act, job, agent, delivering, suspendedBy, faults, crashes>>

Crash ==
  /\ crashes < MaxCrashes /\ crashes' = crashes + 1
  /\ delivering # "none" \/ resuming # Nothing
  /\ delivering' = "none" /\ resuming' = Nothing
  /\ UNCHANGED <<run, task, money, waits, act, point, job, agent, suspendedBy, faults>>

(***************************************************************************)
(* The dispatcher's part in a resume command.                              *)
(***************************************************************************)
\* The continuation, or the checkpoint and its resume action, of the command.
Advance(status, resumed) ==
  /\ waits' = [i \in DOMAIN waits |->
       IF job.for = Wait(i) THEN [waits[i] EXCEPT !.cont = status] ELSE waits[i]]
  /\ point' = [p \in Pauses |->
       IF job.for = Pause(p) THEN [point[p] EXCEPT !.status = status] ELSE point[p]]
  /\ act' = [a \in Acts |->
       IF \E p \in Pauses : job.for = Pause(p) /\ point[p].resume = a
         THEN [act[a] EXCEPT !.status = resumed, !.intent = resumed] ELSE act[a]]

markDelivered ==
  /\ job.status = "queued"
  /\ \A p \in Pauses : job.for = Pause(p) => PauseGuard(p, "dispatched", run)
  /\ job' = [job EXCEPT !.status = "delivered"]
  /\ Advance("dispatched", "sent")
  /\ UNCHANGED <<run, task, money, agent, delivering, resuming, suspendedBy, faults, crashes>>

\* The device lost its authorisation: the command is cancelled and a human
\* wait's continuation fails; the wait, a pause checkpoint and the run stay.
cancelStaleCommand ==
  /\ Fault /\ job.status = "queued"
  /\ job' = [job EXCEPT !.status = "closed"]
  /\ waits' = [i \in DOMAIN waits |->
       IF job.for = Wait(i) THEN [waits[i] EXCEPT !.cont = "failed"] ELSE waits[i]]
  /\ UNCHANGED <<run, task, money, act, point, agent, delivering, resuming, suspendedBy>>

deadLetter ==
  /\ Fault /\ job.status = "queued"
  /\ \A p \in Pauses : job.for = Pause(p) => PauseGuard(p, "failed", run)
  /\ job' = [job EXCEPT !.status = "closed"]
  /\ waits' = [i \in DOMAIN waits |->
       IF job.for = Wait(i) THEN [waits[i] EXCEPT !.cont = "failed", !.status = "failed"]
       ELSE waits[i]]
  /\ point' = [p \in Pauses |->
       IF job.for = Pause(p) THEN [point[p] EXCEPT !.status = "failed"] ELSE point[p]]
  /\ act' = [a \in Acts |->
       IF \E p \in Pauses : job.for = Pause(p) /\ point[p].resume = a
         THEN [act[a] EXCEPT !.status = "failed", !.intent = "failed"] ELSE act[a]]
  /\ run' = IF run = "dispatched" THEN "expired" ELSE run
  /\ task' = IF task = "closed" THEN task ELSE "blocked"
  /\ money' = "settled"
  /\ UNCHANGED <<agent, delivering, resuming, suspendedBy>>

(***************************************************************************)
(* The runner's events, in the order it sends them.                        *)
(***************************************************************************)
Live == job.status = "delivered"

\* run_status started; for a resumed pause this is also the receipt.
Started ==
  /\ Live /\ agent = "idle" /\ run \in {"dispatched", "running"}
  /\ run' = "running"
  /\ task' = IF task = "assigned" THEN "in_progress" ELSE task
  /\ agent' = IF \E i \in DOMAIN waits : job.for = Wait(i) THEN "started" ELSE "working"
  /\ \A p \in Pauses : job.for = Pause(p) => PauseGuard(p, "resumed", "running")
  /\ IF \E p \in Pauses : job.for = Pause(p)
     THEN Advance("resumed", "applied")
     ELSE UNCHANGED <<waits, point, act>>
  /\ UNCHANGED <<money, job, delivering, resuming, suspendedBy, faults, crashes>>

\* Refused while the task is not in progress: the event waits at the head of
\* the runner's buffer.
applyContinuationContext(i) ==
  /\ Live /\ agent = "started" /\ job.for = Wait(i)
  /\ run = "running" /\ task = "in_progress"
  /\ waits[i].cont = "dispatched" /\ waits[i].status = "continuation_queued"
  /\ waits' = [waits EXCEPT ![i] = [@ EXCEPT !.cont = "applied", !.status = "resumed"]]
  /\ agent' = "working"
  /\ UNCHANGED <<run, task, money, act, point, job, delivering, resuming, suspendedBy, faults, crashes>>

\* What the run publishes is either the commit it published before or a newer
\* one, which no earlier checkpoint names.
Publish(newer) == [p \in Pauses |-> [point[p] EXCEPT !.current = @ /\ ~newer]]

\* The checkpoint is pushed, the question recorded, the command acknowledged.
\* The agent may have used up what was reserved.
openHumanWait ==
  /\ Live /\ agent = "working" /\ Len(waits) < MaxWaits
  /\ run = "running" /\ task = "in_progress" /\ money \in Reserved
  /\ waits' = Append(waits, [status |-> "awaiting_human", cont |-> "none", late |-> FALSE])
  /\ run' = "waiting_for_human" /\ task' = "blocked"
  /\ suspendedBy' = {Wait(Len(waits) + 1)}
  /\ money' \in {Renewed, "used_up"}
  /\ \E newer \in BOOLEAN : point' = Publish(newer)
  /\ job' = [job EXCEPT !.status = "closed"]
  /\ agent' = "idle"
  /\ UNCHANGED <<act, delivering, resuming, faults, crashes>>

QueuedPauses == {p \in Pauses : /\ act[p].live /\ act[p].intent = "fallback_queued"
                                /\ act[p].status \in {"recorded", "sent", "agent_acknowledged"}}

\* A task blocked under its run is not moved by the run's completion.
ClosedTask == {"closed"} \union ({task} \ {"in_progress"})

\* run_status completed, failed or cancelled: held back while a pause is queued.
RunStatus ==
  /\ Live /\ agent = "working" /\ run = "running"
  /\ agent' = "finished"
  /\ \/ QueuedPauses # {} /\ UNCHANGED <<run, task>>
     \/ QueuedPauses = {} /\ run' = "ended" /\ task' \in ClosedTask
  /\ UNCHANGED <<money, waits, act, point, job, delivering, resuming, suspendedBy, faults, crashes>>

\* The terminal ack with a published checkpoint applies every queued pause.
applyQueuedPauseAtTerminal ==
  /\ Live /\ agent = "finished" /\ QueuedPauses # {}
  /\ run = "running" /\ task = "in_progress" /\ money \in Reserved
  /\ run' = "waiting_for_human" /\ task' = "blocked"
  /\ suspendedBy' = {Pause(p) : p \in QueuedPauses}
  /\ act' = [a \in Acts |-> IF a \in QueuedPauses
       THEN [act[a] EXCEPT !.status = "applied", !.intent = "applied"] ELSE act[a]]
  /\ \E newer \in BOOLEAN :
       point' = [p \in Pauses |-> IF p \in QueuedPauses
         THEN [point[p] EXCEPT !.status = "paused",
                               !.at = Cardinality({q \in Pauses : point[q].status # "none"})]
         ELSE Publish(newer)[p]]
  /\ money' \in {Renewed, "used_up"}
  /\ job' = [job EXCEPT !.status = "closed"]
  /\ agent' = "idle"
  /\ UNCHANGED <<waits, delivering, resuming, faults, crashes>>

\* Otherwise the run closes and its money is settled; queued pauses fail when
\* nothing was published, and stay queued when the task was not in progress.
TerminalAck ==
  /\ Live /\ agent = "finished"
  /\ \/ QueuedPauses = {} /\ act' = act
     \/ /\ QueuedPauses # {}
        /\ act' = [a \in Acts |-> IF a \in QueuedPauses
             THEN [act[a] EXCEPT !.status = "failed", !.intent = "failed"] ELSE act[a]]
     \/ QueuedPauses # {} /\ task # "in_progress" /\ act' = act
  /\ run' = IF run = "running" THEN "ended" ELSE run
  /\ task' \in IF task = "closed" THEN {"closed"} ELSE {"closed", "blocked"}
  /\ money' = "settled"
  /\ job' = [job EXCEPT !.status = "closed"]
  /\ agent' = "idle"
  /\ UNCHANGED <<waits, point, delivering, resuming, suspendedBy, faults, crashes>>

(***************************************************************************)
(* Time, the sweeps and a device stop.                                     *)
(***************************************************************************)
WaitLapses(i) ==
  /\ waits[i].status = "awaiting_human" /\ ~waits[i].late
  /\ waits' = [waits EXCEPT ![i].late = TRUE]
  /\ UNCHANGED <<run, task, money, act, point, job, agent, delivering, resuming,
                 suspendedBy, faults, crashes>>

expireOne(i) ==
  /\ waits[i].status = "awaiting_human" /\ waits[i].late
  /\ waits' = [waits EXCEPT ![i].status = "expired"]
  /\ run' = IF run = "waiting_for_human" THEN "expired" ELSE run
  /\ money' = "settled"
  /\ UNCHANGED <<task, act, point, job, agent, delivering, resuming, suspendedBy, faults, crashes>>

PointLapses(p) ==
  /\ point[p].status \in {"paused", "resume_queued", "leased"} /\ ~point[p].late
  /\ point' = [point EXCEPT ![p].late = TRUE]
  /\ UNCHANGED <<run, task, money, waits, act, job, agent, delivering, resuming,
                 suspendedBy, faults, crashes>>

\* A wait and a paused checkpoint push expires_at past their own deadline.
ReservationLapses ==
  /\ money = "active" /\ run # "running"
  /\ \A i \in DOMAIN waits : waits[i].status = "awaiting_human" => waits[i].late
  /\ \A p \in Pauses : point[p].status = "paused" => point[p].late
  /\ money' = "expired"
  /\ UNCHANGED <<run, task, waits, act, point, job, agent, delivering, resuming,
                 suspendedBy, faults, crashes>>

\* Variant: questions do not keep a reservation.
findIdleReservations ==
  /\ money = "expired" /\ run # "running"
  /\ \A p \in Pauses :
       point[p].status \notin {"paused", "resume_queued", "leased", "provisioned", "dispatched"}

\* The reservation is past its time and no run, wait or checkpoint needs it.
findOrphanCandidates ==
  /\ money = "expired" /\ run # "running"
  /\ \A i \in DOMAIN waits : waits[i].status \notin {"awaiting_human", "continuation_queued"}
  /\ \A p \in Pauses :
       \/ point[p].late
       \/ point[p].status \notin {"paused", "resume_queued", "leased", "provisioned", "dispatched"}

ReleaseOrphan ==
  /\ findOrphanCandidates
  /\ money' = "settled"
  /\ UNCHANGED <<run, task, waits, act, point, job, agent, delivering, resuming,
                 suspendedBy, faults, crashes>>

\* The command carries the reservation's expiry.
expireStaleDispatches ==
  /\ run = "dispatched" /\ money # "active"
  /\ run' = "expired"
  /\ task' = IF task = "assigned" THEN "blocked" ELSE task
  /\ job' = [job EXCEPT !.status = "closed"]
  /\ UNCHANGED <<money, waits, act, point, agent, delivering, resuming, suspendedBy, faults, crashes>>

\* A stop confirmed by the device (DeviceControl): neither wait, checkpoint nor
\* reservation is touched.
DeviceStops ==
  /\ Fault /\ run \in {"running", "dispatched", "waiting_for_human"}
  /\ run' = "cancelled"
  /\ task' = IF task = "closed" THEN task ELSE "blocked"
  /\ job' = [job EXCEPT !.status = "closed"]
  /\ agent' = "idle"
  /\ UNCHANGED <<money, waits, act, point, delivering, resuming, suspendedBy>>

Deliver(a) ==
  \/ ClaimLive(a) \/ Fallback(a) \/ Sent(a) \/ ClaimCheckpoint(a) \/ PauseTask(a)
  \/ ResumeTask(a) \/ \E p \in Pauses : ResumePaused(a, p)

Continue ==
  \/ \E i \in DOMAIN waits : ClaimWait(i) \/ ProvisionWait(i)
  \/ \E p \in Pauses : ClaimPause(p) \/ ProvisionPause(p)
  \/ \E i \in DOMAIN waits : ReleaseWait(i)
  \/ \E p \in Pauses : ReleasePause(p)

Runner ==
  \/ Started \/ openHumanWait \/ RunStatus \/ applyQueuedPauseAtTerminal \/ TerminalAck
  \/ \E i \in DOMAIN waits : applyContinuationContext(i)
  \/ \E a \in Pauses : applyCommandAck(a)

Sweep ==
  \/ \E i \in DOMAIN waits : expireOne(i)
  \/ ReleaseOrphan \/ expireStaleDispatches

Environment ==
  \/ \E a \in Acts : Confirm(a)
  \/ \E i \in DOMAIN waits : confirmAnswer(i) \/ WaitLapses(i)
  \/ \E p \in Pauses : PointLapses(p)
  \/ ReservationLapses
  \/ Crash \/ cancelStaleCommand \/ deadLetter \/ DeviceStops

Next == (\E a \in Acts : Deliver(a)) \/ Continue \/ markDelivered \/ Runner \/ Sweep \/ Environment

Spec == Init /\ [][Next]_steeringVars

\* Claims whose worker is gone.
Stranded == {i \in DOMAIN waits : waits[i].cont = "leased" /\ resuming # Wait(i)}

\* The timers run for as long as the server does, a claimed item is worked on,
\* a paired runner is found again and again, and a connected runner reports.
SteeringFairness ==
  /\ \A a \in Acts : SF_steeringVars(ClaimLive(a) \/ ClaimCheckpoint(a))
                     /\ WF_steeringVars(Deliver(a) /\ delivering = a)
  /\ \A i \in 1..MaxWaits : /\ SF_steeringVars(i \in DOMAIN waits /\ ClaimWait(i) /\ Stranded = {})
                             /\ SF_steeringVars(i \in DOMAIN waits /\ ProvisionWait(i))
  /\ \A p \in Pauses : /\ SF_steeringVars(ClaimPause(p) /\ Stranded = {})
                          /\ SF_steeringVars(ProvisionPause(p))
  /\ WF_steeringVars(resuming # Nothing /\ Continue)
  /\ WF_steeringVars(markDelivered) /\ WF_steeringVars(Runner) /\ WF_steeringVars(Sweep)

-----------------------------------------------------------------------------
\* The money of a suspended run is still reserved when the human comes back in
\* time: no sweep, ack or settlement releases it while the question or the
\* pause that suspended the run has not run out.
SuspendedRunKeepsBudget ==
  run = "waiting_for_human" =>
    \/ money # "settled"
    \/ \E i \in DOMAIN waits : Wait(i) \in suspendedBy /\ waits[i].late
    \/ \E p \in Pauses : Pause(p) \in suspendedBy /\ point[p].late

\* An answer reaches the agent: a queued continuation is resumed, or fails with
\* its command, or the run is over, or the reservation can no longer pay for it,
\* or a human has paused the task.  (Of a server that does not crash: see
\* ClaimsSurviveCrash.)
AnswerQueued(i) == i \in DOMAIN waits /\ waits[i].status = "continuation_queued"
AnswerSettled(i) ==
  \/ i \in DOMAIN waits /\ waits[i].cont \in {"applied", "failed"}
  \/ run \in {"ended", "cancelled", "expired"}
  \/ money # "active"
  \/ \E p \in Pauses : ~act[p].live /\ act[p].status = "applied"
AnswersReachAgent == \A i \in 1..MaxWaits : AnswerQueued(i) ~> AnswerSettled(i)

\* A continuation that was claimed moves on even when the server stops between
\* the claim and the provision: HumanWaitContinuationWorker.tick takes back
\* leases that ran out.  The update guard of its table refuses that update.
ClaimsSurviveCrash ==
  \A i \in 1..MaxWaits :
    LET claimed == i \in DOMAIN waits /\ waits[i].cont = "leased"
    IN claimed ~> ~claimed
=============================================================================
