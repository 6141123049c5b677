----------------------------- MODULE Execution -----------------------------
(***************************************************************************)
(* The V2 execution core of The Norns: one approved phase, its tasks, and  *)
(* the runs (attempts) made for them.  Four kinds of process share the     *)
(* relational rows and the runner's durable state file:                    *)
(*                                                                         *)
(*   scheduler    PhaseLaunchService.startPhase / Phase4Coordinator        *)
(*                .schedule, human retry, rework and cancel, completion;   *)
(*   dispatchers  one Phase4Dispatcher per server process: claim a job     *)
(*                under a lease, send it, mark it delivered, retry or      *)
(*                dead-letter;                                             *)
(*   monitor      Phase4RecoveryMonitor.scan: expire stale dispatches,     *)
(*                park a stalled phase, sweep orphan reservations;         *)
(*   runner       RunnerDaemon + V2RunnerExecutor: execute a command at    *)
(*                most once, buffer events, acknowledge, reconcile after a *)
(*                reconnect; Phase4RunnerEventProcessor applies its events. *)
(*                                                                         *)
(* One action is one database transaction or one synchronous block of the  *)
(* daemon.  Each buffered event takes effect once: the sequence numbers,   *)
(* acknowledgements and replays behind that are not in this module, nor    *)
(* are human waits, pause and resume, device authorization and GitHub      *)
(* Actions runners.                                                        *)
(***************************************************************************)
EXTENDS Naturals, Sequences, FiniteSets, Lifecycle

CONSTANTS
  Tasks,              \* the tasks of the phase
  Predecessors,       \* task -> tasks that must be completed first
  Conflicts,          \* task -> tasks that declare an overlapping conflict key
  Owners,             \* server processes that run a dispatcher
  None,               \* no owner, no claim
  MaxConcurrentTasks, \* project cap on live runs
  PhaseBudget,        \* approved budget, in reservations of one run
  MaxDeliveries,      \* max_attempts of the dispatcher (5 in the code)
  SendWindow,         \* RUNNER_EVENT_SEND_WINDOW (32 in the code)
  MaxAttempts,        \* bound: attempts per task
  MaxClaims,          \* bound: claims per dispatch job
  MaxFaults,          \* bound: faults in a behaviour
  Environment         \* which faults and human operations may happen

EnvironmentEvents == {"disconnect", "runner_crash", "server_crash", "slow_lease",
                      "commit_lost", "expiry", "emergency_stop",
                      "retry", "rework", "cancel_phase"}

ASSUME ConstantsAssumption ==
  /\ IsFiniteSet(Tasks) /\ Tasks # {}
  /\ Predecessors \in [Tasks -> SUBSET Tasks]
  /\ Conflicts \in [Tasks -> SUBSET Tasks]
  /\ None \notin Owners
  /\ MaxConcurrentTasks \in Nat /\ PhaseBudget \in Nat
  /\ MaxDeliveries \in Nat \ {0} /\ MaxAttempts \in Nat \ {0}
  /\ SendWindow \in Nat \ {0}
  /\ MaxClaims \in Nat /\ MaxFaults \in Nat
  /\ Environment \subseteq EnvironmentEvents

VARIABLES
  phase,        \* phases.status
  task,         \* tasks.state
  designated,   \* attempt of tasks.designated_run_id, 0 when NULL
  run,          \* agent_runs.state, "none" before the row exists
  verification, \* agent_runs.verification_status
  reservation,  \* budget_reservations: "expired" is the outcome of that name
  job,          \* dispatch_jobs.status
  lease,        \* dispatch_jobs.lease_owner
  leaseLapsed,  \* runs whose job has lease_expires_at <= now()
  attempts,     \* dispatch_jobs.attempts
  command,      \* commands.status
  lapsed,       \* runs whose command and reservation passed expires_at
  claimed,      \* what each dispatcher's tick holds in memory
  scan,         \* where the recovery scan is, and the rows it selected
  connected,    \* the runner's socket is open and reconciled
  wire,         \* copies of each run's command in flight to the runner
  paused,       \* RunnerDaemon.executionPaused
  executed,     \* the durable command record of the runner
  stage,        \* how far the live execution of a run is
  outbox,       \* the runner's durable event buffer, oldest first
  faults        \* faults so far

rowVars == <<phase, task, designated, run, verification, reservation>>
jobVars == <<job, lease, leaseLapsed, attempts, command>>
linkVars == <<connected, wire>>
runnerVars == <<paused, executed, stage, outbox>>
vars == <<rowVars, jobVars, lapsed, claimed, scan, linkVars, runnerVars, faults>>

-----------------------------------------------------------------------------
Runs == Tasks \X (1..MaxAttempts)

Designated(t) == <<t, designated[t]>>

(* Run states that occupy a slot of the concurrency cap. *)
Occupying == {"created", "dispatched", "running", "verifying"}

(* Task states that hold a conflict key. *)
HoldsScope == {"assigned", "in_progress", "verifying", "in_review"}

Retryable == {"failed", "expired", "cancelled"}

Dead == {"failed", "rejected", "expired", "cancelled"}

LiveStages == {"preparing", "coding", "green", "red"}

FinalStages == {"succeeded", "failed", "cancelled"}

PhaseStates == {"approved", "active", "blocked", "completed", "cancelled"}
JobStates == {"none", "queued", "leased", "delivered", "completed", "dead_letter"}
CommandStates == {"none", "queued", "dispatched", "executing", "succeeded"} \cup Dead
ReservationStates == {"none", "active", "settled", "expired"}
Executions == {"none", "executing", "succeeded"} \cup Dead
Events == [run: Runs, kind: {"command_ack"}, value: Executions \ {"none"}]
          \cup [run: Runs, kind: {"run_status"},
                value: {"started", "completed", "failed", "cancelled"}]
          \cup [run: Runs, kind: {"verification_result"}, value: {"passed", "failed"}]
Claims == [run: Runs, attempts: Nat, failed: BOOLEAN]

TypeOK ==
  /\ phase \in PhaseStates
  /\ task \in [Tasks -> V2TaskState]
  /\ designated \in [Tasks -> 0..MaxAttempts]
  /\ run \in [Runs -> {"none"} \cup V2AgentRunState]
  /\ verification \in [Runs -> {"pending", "passed", "failed"}]
  /\ reservation \in [Runs -> ReservationStates]
  /\ job \in [Runs -> JobStates]
  /\ lease \in [Runs -> Owners \cup {None}]
  /\ leaseLapsed \subseteq Runs
  /\ attempts \in [Runs -> Nat]
  /\ command \in [Runs -> CommandStates]
  /\ lapsed \subseteq Runs
  /\ claimed \in [Owners -> Claims \cup {None}]
  /\ scan \in [at: {"idle", "expiring", "sweeping"},
               todo: SUBSET Runs]
  /\ connected \in BOOLEAN
  /\ wire \in [Runs -> Nat]
  /\ paused \in BOOLEAN
  /\ executed \in [Runs -> Executions]
  /\ stage \in [Runs -> {"idle"} \cup LiveStages \cup FinalStages]
  /\ outbox \in Seq(Events)
  /\ faults \in 0..MaxFaults

Init ==
  /\ phase = "approved"
  /\ task = [t \in Tasks |-> "pending"]
  /\ designated = [t \in Tasks |-> 0]
  /\ run = [r \in Runs |-> "none"]
  /\ verification = [r \in Runs |-> "pending"]
  /\ reservation = [r \in Runs |-> "none"]
  /\ job = [r \in Runs |-> "none"]
  /\ lease = [r \in Runs |-> None]
  /\ leaseLapsed = {}
  /\ attempts = [r \in Runs |-> 0]
  /\ command = [r \in Runs |-> "none"]
  /\ lapsed = {}
  /\ claimed = [o \in Owners |-> None]
  /\ scan = [at |-> "idle", todo |-> {}]
  /\ connected = TRUE
  /\ wire = [r \in Runs |-> 0]
  /\ paused = FALSE
  /\ executed = [r \in Runs |-> "none"]
  /\ stage = [r \in Runs |-> "idle"]
  /\ outbox = <<>>
  /\ faults = 0

(* Step e of the environment happens and is charged to the fault bound. *)
Fault(e) ==
  /\ e \in Environment
  /\ faults < MaxFaults
  /\ faults' = faults + 1

Drop == [r \in Runs |-> 0]

-----------------------------------------------------------------------------
(* Scheduling: Phase4Coordinator.schedule behind PhaseLaunchService.         *)

(* The gates every dispatch passes: a free slot of the project cap, no task *)
(* with an overlapping conflict key under way, dependencies completed, and   *)
(* room in the approved budget.                                              *)
Admissible(t) ==
  /\ Cardinality({r \in Runs : run[r] \in Occupying}) < MaxConcurrentTasks
  /\ \A u \in Conflicts[t] : task[u] \notin HoldsScope
  /\ \A p \in Predecessors[t] : task[p] = "completed"
  /\ Cardinality({r \in Runs : reservation[r] = "active"}) < PhaseBudget

(* Mutant: the rework edge completed -> in_progress is forgotten. *)
scheduleKeepsCompleted(t) ==
  LET r == <<t, designated[t] + 1>> IN
  /\ designated[t] < MaxAttempts
  /\ designated' = [designated EXCEPT ![t] = @ + 1]
  /\ run' = [run EXCEPT ![r] = "created"]
  /\ task' = [task EXCEPT ![t] = IF @ \in {"pending", "ready"} THEN "assigned" ELSE @]
  /\ reservation' = [reservation EXCEPT ![r] = "active"]
  /\ command' = [command EXCEPT ![r] = "queued"]
  /\ job' = [job EXCEPT ![r] = "queued"]
  /\ phase' = "active"
  /\ UNCHANGED <<verification, lease, leaseLapsed, attempts, lapsed, claimed, scan,
                 linkVars, runnerVars, faults>>

(* The writes of schedule(): a new run row that becomes the designated one   *)
(* (superseding the previous), its reservation, command and queued job.      *)
schedule(t) ==
  LET r == <<t, designated[t] + 1>> IN
  /\ designated[t] < MaxAttempts
  /\ designated' = [designated EXCEPT ![t] = @ + 1]
  /\ run' = [run EXCEPT ![r] = "created"]
  /\ task' = [task EXCEPT ![t] = IF @ \in {"pending", "ready"}
                                 THEN "assigned" ELSE "in_progress"]
  /\ reservation' = [reservation EXCEPT ![r] = "active"]
  /\ command' = [command EXCEPT ![r] = "queued"]
  /\ job' = [job EXCEPT ![r] = "queued"]
  /\ phase' = "active"
  /\ UNCHANGED <<verification, lease, leaseLapsed, attempts, lapsed, claimed, scan,
                 linkVars, runnerVars, faults>>

(* Launch or drain: a pending or ready task.  A terminal designated run is   *)
(* superseded automatically.                                                 *)
startPhase(t) ==
  /\ phase \in {"approved", "active"}
  /\ task[t] \in {"pending", "ready"}
  /\ designated[t] > 0 => run[Designated(t)] \in Retryable
  /\ connected
  /\ Admissible(t)
  /\ schedule(t)

(* The rework endpoint on a completed task: the phase is put back to active  *)
(* and the task is dispatched again.                                         *)
Rework(t) ==
  /\ "rework" \in Environment
  /\ phase \in {"approved", "active", "completed", "blocked"}
  /\ task[t] = "completed"
  /\ run[Designated(t)] = "succeeded"
  /\ connected
  /\ Admissible(t)
  /\ schedule(t)

(* The same endpoint when nothing can be scheduled: the phase was revived in *)
(* a transaction of its own before the task and the gates are looked at.     *)
ReworkRefused(t) ==
  /\ "rework" \in Environment
  /\ phase \in {"approved", "completed", "blocked"}
  /\ \/ task[t] # "completed"
     \/ ~connected
     \/ ~Admissible(t)
  /\ phase' = "active"
  /\ UNCHANGED <<task, designated, run, verification, reservation, jobVars, lapsed,
                 claimed, scan, linkVars, runnerVars, faults>>

(* Phase4RecoveryActions.retry: the transaction that prepares the retry.     *)
retryOnce(t) ==
  /\ "retry" \in Environment
  /\ designated[t] \in 1..(MaxAttempts - 1)
  /\ phase \in {"active", "blocked"}
  /\ run[Designated(t)] \in Retryable
  /\ task[t] \in {"failed", "blocked", "ready"}
  /\ phase' = "active"
  /\ task' = [task EXCEPT ![t] = "ready"]
  /\ UNCHANGED <<designated, run, verification, reservation, jobVars, lapsed, claimed,
                 scan, linkVars, runnerVars, faults>>

(* Phase4RecoveryActions.cancel: cancel the phase and its unfinished tasks.  *)
cancelOnce(t) ==
  /\ "cancel_phase" \in Environment
  /\ phase \in {"active", "blocked"}
  /\ designated[t] > 0 /\ run[Designated(t)] \in {"failed", "expired"}
  /\ \A r \in Runs : run[r] \notin Occupying
  /\ task' = [u \in Tasks |-> IF task[u] \in V2_TERMINAL_TASK_STATES
                              THEN task[u] ELSE "cancelled"]
  /\ phase' = "cancelled"
  /\ UNCHANGED <<designated, run, verification, reservation, jobVars, lapsed, claimed,
                 scan, linkVars, runnerVars, faults>>

(* Phase4CompletionService.complete, by the auto-completer or a human.  The  *)
(* phase closes with its last task.                                          *)
complete(t) ==
  /\ designated[t] > 0
  /\ run[Designated(t)] = "succeeded" /\ verification[Designated(t)] = "passed"
  /\ task[t] = "in_review"
  /\ task' = [task EXCEPT ![t] = "completed"]
  /\ reservation' = [reservation EXCEPT ![Designated(t)] =
                       IF @ = "active" THEN "settled" ELSE @]
  /\ phase' = IF \A u \in Tasks : task'[u] \in V2_TERMINAL_TASK_STATES
              THEN "completed" ELSE phase
  /\ UNCHANGED <<designated, run, verification, jobVars, lapsed, claimed, scan,
                 linkVars, runnerVars, faults>>

-----------------------------------------------------------------------------
(* Dispatch: Phase4Dispatcher.tick over SqlPhase4DispatchRepository.          *)

Holds(o, r) == claimed[o] # None /\ claimed[o].run = r

LeasedBy(o, r) == job[r] = "leased" /\ lease[r] = o

claim(o, r) ==
  /\ claimed[o] = None
  /\ job[r] = "queued" \/ (job[r] = "leased" /\ r \in leaseLapsed)
  /\ attempts[r] < MaxClaims
  /\ job' = [job EXCEPT ![r] = "leased"]
  /\ lease' = [lease EXCEPT ![r] = o]
  /\ leaseLapsed' = leaseLapsed \ {r}
  /\ attempts' = [attempts EXCEPT ![r] = @ + 1]
  /\ claimed' = [claimed EXCEPT ![o] = [run |-> r, attempts |-> attempts[r] + 1,
                                        failed |-> FALSE]]
  /\ UNCHANGED <<rowVars, command, lapsed, scan, linkVars, runnerVars, faults>>

(* lease_expires_at passes: a fault when the lease's owner is still at work. *)
LeaseLapses(r) ==
  /\ job[r] = "leased" /\ r \notin leaseLapsed
  /\ \/ /\ \A o \in Owners : ~(LeasedBy(o, r) /\ Holds(o, r))
        /\ UNCHANGED faults
     \/ /\ \E o \in Owners : LeasedBy(o, r) /\ Holds(o, r)
        /\ Fault("slow_lease")
  /\ leaseLapsed' = leaseLapsed \cup {r}
  /\ UNCHANGED <<rowVars, job, lease, attempts, command, lapsed, claimed, scan,
                 linkVars, runnerVars>>

(* Mutant: the command row takes the name of the job's state. *)
markDeliveredByJobName(r) ==
  /\ job' = [job EXCEPT ![r] = "delivered"]
  /\ lease' = [lease EXCEPT ![r] = None]
  /\ leaseLapsed' = leaseLapsed \ {r}
  /\ command' = [command EXCEPT ![r] = IF @ = "queued" THEN "delivered" ELSE @]
  /\ run' = [run EXCEPT ![r] = IF @ = "created" THEN "dispatched" ELSE @]

(* The writes of markDeliveredInTransaction. *)
markDelivered(r) ==
  /\ job' = [job EXCEPT ![r] = "delivered"]
  /\ lease' = [lease EXCEPT ![r] = None]
  /\ leaseLapsed' = leaseLapsed \ {r}
  /\ command' = [command EXCEPT ![r] = IF @ = "queued" THEN "dispatched" ELSE @]
  /\ run' = [run EXCEPT ![r] = IF @ = "created" THEN "dispatched" ELSE @]

(* deliverClaimed: the send and the delivery mark in one transaction. *)
deliverClaimed(o) ==
  /\ claimed[o] # None /\ ~claimed[o].failed
  /\ connected
  /\ LET r == claimed[o].run IN
     /\ LeasedBy(o, r) \/ job[r] = "delivered"
     /\ wire' = [wire EXCEPT ![r] = @ + 1]
     /\ markDelivered(r)
  /\ claimed' = [claimed EXCEPT ![o] = None]
  /\ UNCHANGED <<phase, task, designated, verification, reservation, attempts, lapsed,
                 scan, connected, runnerVars, faults>>

(* deliverClaimed throws: no socket, the lease is gone (seen only after the  *)
(* send), or the commit is lost after the send.                              *)
deliveryThrows(o) ==
  /\ claimed[o] # None /\ ~claimed[o].failed
  /\ LET r == claimed[o].run
         marked == LeasedBy(o, r) \/ job[r] = "delivered"
     IN \/ ~connected /\ UNCHANGED <<wire, faults>>
        \/ /\ connected /\ ~marked
           /\ wire' = [wire EXCEPT ![r] = @ + 1]
           /\ UNCHANGED faults
        \/ /\ connected /\ marked /\ Fault("commit_lost")
           /\ wire' = [wire EXCEPT ![r] = @ + 1]
  /\ claimed' = [claimed EXCEPT ![o] = [run |-> @.run, attempts |-> @.attempts,
                                        failed |-> TRUE]]
  /\ UNCHANGED <<rowVars, jobVars, lapsed, scan, connected, runnerVars>>

(* Mutant: the update is not conditioned on the lease. *)
retryUnfenced(o) ==
  /\ claimed[o] # None /\ claimed[o].failed
  /\ claimed[o].attempts < MaxDeliveries
  /\ LET r == claimed[o].run IN
     /\ job' = [job EXCEPT ![r] = "queued"]
     /\ lease' = [lease EXCEPT ![r] = None]
     /\ leaseLapsed' = leaseLapsed \ {r}
  /\ claimed' = [claimed EXCEPT ![o] = None]
  /\ UNCHANGED <<rowVars, attempts, command, lapsed, scan, linkVars, runnerVars, faults>>

(* After a throw the tick settles the job in another transaction. *)
retry(o) ==
  /\ claimed[o] # None /\ claimed[o].failed
  /\ claimed[o].attempts < MaxDeliveries
  /\ LET r == claimed[o].run IN
     /\ LeasedBy(o, r)
     /\ job' = [job EXCEPT ![r] = "queued"]
     /\ lease' = [lease EXCEPT ![r] = None]
     /\ leaseLapsed' = leaseLapsed \ {r}
  /\ claimed' = [claimed EXCEPT ![o] = None]
  /\ UNCHANGED <<rowVars, attempts, command, lapsed, scan, linkVars, runnerVars, faults>>

SparedByDeath == {"completed", "failed", "cancelled"}

deadLetterLegal(r) ==
  task[r[1]] \in SparedByDeath \/ v2CanTaskTransition(task[r[1]], "blocked")

(* Mutant: the dead letter forgets the reservation. *)
deadLetterKeepsMoney(o) ==
  /\ claimed[o] # None /\ claimed[o].failed
  /\ claimed[o].attempts >= MaxDeliveries
  /\ LET r == claimed[o].run IN
     /\ LeasedBy(o, r) /\ deadLetterLegal(r)
     /\ job' = [job EXCEPT ![r] = "dead_letter"]
     /\ lease' = [lease EXCEPT ![r] = None]
     /\ leaseLapsed' = leaseLapsed \ {r}
     /\ command' = [command EXCEPT ![r] = "failed"]
     /\ run' = [run EXCEPT ![r] = IF @ \in {"created", "dispatched"} THEN "expired" ELSE @]
     /\ task' = [task EXCEPT ![r[1]] = IF @ \in SparedByDeath THEN @ ELSE "blocked"]
  /\ claimed' = [claimed EXCEPT ![o] = None]
  /\ UNCHANGED <<phase, designated, verification, reservation, attempts, lapsed, scan,
                 linkVars, runnerVars, faults>>

deadLetter(o) ==
  /\ claimed[o] # None /\ claimed[o].failed
  /\ claimed[o].attempts >= MaxDeliveries
  /\ LET r == claimed[o].run IN
     /\ LeasedBy(o, r) /\ deadLetterLegal(r)
     /\ job' = [job EXCEPT ![r] = "dead_letter"]
     /\ lease' = [lease EXCEPT ![r] = None]
     /\ leaseLapsed' = leaseLapsed \ {r}
     /\ command' = [command EXCEPT ![r] = "failed"]
     /\ run' = [run EXCEPT ![r] = IF @ \in {"created", "dispatched"} THEN "expired" ELSE @]
     /\ task' = [task EXCEPT ![r[1]] = IF @ \in SparedByDeath THEN @ ELSE "blocked"]
     /\ reservation' = [reservation EXCEPT ![r] = IF @ = "active" THEN "settled" ELSE @]
  /\ claimed' = [claimed EXCEPT ![o] = None]
  /\ UNCHANGED <<phase, designated, verification, attempts, lapsed, scan, linkVars,
                 runnerVars, faults>>

(* retry or deadLetter throws and rolls back: the lease was lost, or the     *)
(* dead letter asks for an illegal task edge (blocked -> blocked).           *)
settlementThrows(o) ==
  /\ claimed[o] # None /\ claimed[o].failed
  /\ LET r == claimed[o].run IN
     ~LeasedBy(o, r) \/ (claimed[o].attempts >= MaxDeliveries /\ ~deadLetterLegal(r))
  /\ claimed' = [claimed EXCEPT ![o] = None]
  /\ UNCHANGED <<rowVars, jobVars, lapsed, scan, linkVars, runnerVars, faults>>

ServerCrash(o) ==
  /\ Fault("server_crash")
  /\ claimed' = [claimed EXCEPT ![o] = None]
  /\ scan' = [at |-> "idle", todo |-> {}]
  /\ connected' = FALSE
  /\ wire' = Drop
  /\ UNCHANGED <<rowVars, jobVars, lapsed, runnerVars>>

-----------------------------------------------------------------------------
(* Recovery: Phase4RecoveryMonitor.scan, transaction by transaction.          *)

(* expires_at of the command and of the reservation passes; an earlier       *)
(* attempt expires earlier.                                                  *)
Expires(r) ==
  /\ "expiry" \in Environment
  /\ run[r] # "none" /\ r \notin lapsed
  /\ \A q \in Runs : q[1] = r[1] /\ q[2] < r[2] => q \in lapsed
  /\ lapsed' = lapsed \cup {r}
  /\ UNCHANGED <<rowVars, jobVars, claimed, scan, linkVars, runnerVars, faults>>

StaleDispatches ==
  {r \in lapsed : phase = "active" /\ r = Designated(r[1])
                  /\ run[r] \in {"created", "dispatched"}}

scanStart ==
  /\ scan.at = "idle"
  /\ scan' = [at |-> "expiring", todo |-> StaleDispatches]
  /\ UNCHANGED <<rowVars, jobVars, lapsed, claimed, linkVars, runnerVars, faults>>

(* Mutant: the selected row is not read again. *)
expireStaleDispatchUnread(r) ==
  /\ scan.at = "expiring" /\ r \in scan.todo
  /\ run' = [run EXCEPT ![r] = "expired"]
  /\ task' = [task EXCEPT ![r[1]] = IF @ = "assigned" THEN "blocked" ELSE @]
  /\ scan' = [at |-> scan.at, todo |-> scan.todo \ {r}]
  /\ UNCHANGED <<phase, designated, verification, reservation, jobVars, lapsed, claimed,
                 linkVars, runnerVars, faults>>

(* One selected row, re-read under its lock. *)
expireStaleDispatch(r) ==
  /\ scan.at = "expiring" /\ r \in scan.todo
  /\ LET stale == run[r] \in {"created", "dispatched"} IN
     /\ run' = [run EXCEPT ![r] = IF stale THEN "expired" ELSE @]
     /\ task' = [task EXCEPT ![r[1]] = IF stale /\ @ = "assigned" THEN "blocked" ELSE @]
  /\ scan' = [at |-> scan.at, todo |-> scan.todo \ {r}]
  /\ UNCHANGED <<phase, designated, verification, reservation, jobVars, lapsed, claimed,
                 linkVars, runnerVars, faults>>

(* Nothing left in the phase can move without a human. *)
Stalled ==
  /\ phase = "active"
  /\ \E t \in Tasks : /\ designated[t] > 0 /\ run[Designated(t)] \in {"failed", "expired"}
                      /\ task[t] \in {"failed", "blocked"}
  /\ \A t \in Tasks : /\ task[t] \notin HoldsScope
                      /\ task[t] \in {"pending", "ready"} =>
                           \E p \in Predecessors[t] : task[p] # "completed"
  /\ \A r \in Runs : run[r] \notin Occupying

(* Mutant: only the reservations of runs that never started are orphans. *)
findUnstartedCandidates ==
  {r \in lapsed : reservation[r] = "active" /\ run[r] \in {"created", "dispatched"}}

findOrphanCandidates ==
  {r \in lapsed : reservation[r] = "active" /\ run[r] \notin {"running", "verifying"}}

(* Park a stalled phase, then select the orphan reservations.  The two        *)
(* transactions read and write disjoint rows and are one step here.           *)
scanRelease ==
  /\ scan.at = "expiring" /\ scan.todo = {}
  /\ phase' = IF Stalled THEN "blocked" ELSE phase
  /\ scan' = [at |-> IF findOrphanCandidates = {} THEN "idle" ELSE "sweeping",
              todo |-> findOrphanCandidates]
  /\ UNCHANGED <<task, designated, run, verification, reservation, jobVars, lapsed,
                 claimed, linkVars, runnerVars, faults>>

(* One selected reservation: resolved as expired; a reservation resolved     *)
(* meanwhile with another outcome aborts the rest of the sweep.              *)
sweepResolve(r) ==
  /\ scan.at = "sweeping" /\ r \in scan.todo
  /\ reservation' = [reservation EXCEPT ![r] = IF @ = "active" THEN "expired" ELSE @]
  /\ scan' = IF reservation[r] = "settled" \/ scan.todo = {r}
             THEN [at |-> "idle", todo |-> {}]
             ELSE [at |-> scan.at, todo |-> scan.todo \ {r}]
  /\ UNCHANGED <<phase, task, designated, run, verification, jobVars, lapsed, claimed,
                 linkVars, runnerVars, faults>>

-----------------------------------------------------------------------------
(* The runner: RunnerDaemon and V2RunnerExecutor.                             *)

Ack(r, s) == [run |-> r, kind |-> "command_ack", value |-> s]
Status(r, s) == [run |-> r, kind |-> "run_status", value |-> s]
Verification(r, s) == [run |-> r, kind |-> "verification_result", value |-> s]

Arrives(r) ==
  /\ connected /\ wire[r] > 0
  /\ wire' = [wire EXCEPT ![r] = @ - 1]
  /\ UNCHANGED <<rowVars, jobVars, lapsed, claimed, scan, connected, paused, faults>>

(* handleCommand on a recorded command id: acknowledged again, never run     *)
(* again; a terminal record is already buffered or acknowledged.             *)
handleRecorded(r) ==
  /\ Arrives(r)
  /\ executed[r] # "none"
  /\ outbox' = IF executed[r] = "executing" THEN Append(outbox, Ack(r, "executing"))
                                            ELSE outbox
  /\ UNCHANGED <<executed, stage>>

(* handleCommand past expires_at, or under a local emergency stop. *)
handleRefused(r) ==
  /\ Arrives(r)
  /\ executed[r] = "none"
  /\ r \in lapsed \/ paused
  /\ LET s == IF r \in lapsed THEN "expired" ELSE "rejected" IN
     /\ executed' = [executed EXCEPT ![r] = s]
     /\ outbox' = Append(outbox, Ack(r, s))
  /\ UNCHANGED stage

(* Mutant: the durable record is not consulted. *)
handleLaunchUnrecorded(r) ==
  /\ Arrives(r)
  /\ r \notin lapsed /\ ~paused
  /\ executed' = [executed EXCEPT ![r] = "executing"]
  /\ stage' = [stage EXCEPT ![r] = "preparing"]
  /\ outbox' = Append(outbox, Ack(r, "executing"))

handleLaunch(r) ==
  /\ Arrives(r)
  /\ executed[r] = "none" /\ r \notin lapsed /\ ~paused
  /\ executed' = [executed EXCEPT ![r] = "executing"]
  /\ stage' = [stage EXCEPT ![r] = "preparing"]
  /\ outbox' = Append(outbox, Ack(r, "executing"))

Advance(r, from, to, emitted) ==
  /\ stage[r] \in from
  /\ stage' = [stage EXCEPT ![r] = to]
  /\ outbox' = outbox \o emitted
  /\ UNCHANGED <<rowVars, jobVars, lapsed, claimed, scan, linkVars, paused, executed, faults>>

started(r) == ~paused /\ Advance(r, {"preparing"}, "coding", <<Status(r, "started")>>)

verified(r) ==
  /\ ~paused
  /\ \/ Advance(r, {"coding"}, "green", <<Verification(r, "passed")>>)
     \/ Advance(r, {"coding"}, "red", <<Verification(r, "failed")>>)

published(r) == Advance(r, {"green"}, "succeeded", <<Status(r, "completed")>>)

(* A failed bootstrap, runtime, verification or publication; an abort turns  *)
(* the failures of the first two into a cancellation.                        *)
emitFailure(r) ==
  /\ stage[r] \in {"preparing", "coding"} => ~paused
  /\ Advance(r, LiveStages, "failed", <<Status(r, "failed")>>)

(* execute() rejects before it can report a status. *)
bootstrapThrows(r) == ~paused /\ Advance(r, {"preparing"}, "failed", <<>>)

cancelledRun(r) == paused /\ Advance(r, LiveStages, "cancelled", <<Status(r, "cancelled")>>)

(* The promise of executeV2 settles: record the outcome and acknowledge it. *)
settled(r) ==
  /\ stage[r] \in FinalStages
  /\ executed' = [executed EXCEPT ![r] = stage[r]]
  /\ stage' = [stage EXCEPT ![r] = "idle"]
  /\ outbox' = Append(outbox, Ack(r, stage[r]))
  /\ UNCHANGED <<rowVars, jobVars, lapsed, claimed, scan, linkVars, paused, faults>>

emergencyStop ==
  /\ Fault("emergency_stop")
  /\ ~paused /\ paused' = TRUE
  /\ UNCHANGED <<rowVars, jobVars, lapsed, claimed, scan, linkVars, executed, stage,
                 outbox>>

(* Mutant: only finished commands are in the state file a restart reads.     *)
RunnerRestartForgets ==
  /\ \/ Fault("runner_crash")
     \/ paused /\ (\A r \in Runs : stage[r] = "idle") /\ UNCHANGED faults
  /\ paused' = FALSE
  /\ stage' = [r \in Runs |-> "idle"]
  /\ executed' = [r \in Runs |-> IF executed[r] = "executing" THEN "none" ELSE executed[r]]
  /\ connected' = FALSE
  /\ wire' = Drop
  /\ UNCHANGED <<rowVars, jobVars, lapsed, claimed, scan, outbox>>

(* The process dies: live executions and the emergency stop go with it, the  *)
(* state file stays.  A stopped, idle daemon may also be restarted.          *)
RunnerRestart ==
  /\ \/ Fault("runner_crash")
     \/ paused /\ (\A r \in Runs : stage[r] = "idle") /\ UNCHANGED faults
  /\ paused' = FALSE
  /\ stage' = [r \in Runs |-> "idle"]
  /\ connected' = FALSE
  /\ wire' = Drop
  /\ UNCHANGED <<rowVars, jobVars, lapsed, claimed, scan, executed, outbox>>

Disconnect ==
  /\ connected
  /\ Fault("disconnect")
  /\ connected' = FALSE
  /\ wire' = Drop
  /\ UNCHANGED <<rowVars, jobVars, lapsed, claimed, scan, runnerVars>>

Orderings(S) == {s \in [1..Cardinality(S) -> S] : \A i, j \in DOMAIN s : s[i] = s[j] => i = j}

(* Mutant: the executions a dead process left behind are not failed. *)
ReconcileKeepsOrphans ==
  LET pending(r) == /\ job[r] = "delivered" /\ r \notin lapsed
                    /\ command[r] \in {"queued", "dispatched", "executing"}
                    /\ executed[r] = "none"
  IN /\ ~connected /\ connected' = TRUE
     /\ wire' = [r \in Runs |-> IF pending(r) THEN 1 ELSE 0]
     /\ UNCHANGED <<rowVars, jobVars, lapsed, claimed, scan, runnerVars, faults>>

(* Reconnect: the runner fails the executions its process no longer owns,    *)
(* and the server sends again what was delivered, is unfinished, has not     *)
(* expired and the runner did not record.                                    *)
Reconcile ==
  LET orphaned == {r \in Runs : executed[r] = "executing" /\ stage[r] = "idle"}
      pending(r) == /\ job[r] = "delivered" /\ r \notin lapsed
                    /\ command[r] \in {"queued", "dispatched", "executing"}
                    /\ executed[r] = "none"
  IN /\ ~connected /\ connected' = TRUE
     /\ executed' = [r \in Runs |-> IF r \in orphaned THEN "failed" ELSE executed[r]]
     /\ \E order \in Orderings(orphaned) :
          outbox' = outbox \o [i \in DOMAIN order |-> Ack(order[i], "failed")]
     /\ wire' = [r \in Runs |-> IF pending(r) THEN 1 ELSE 0]
     /\ UNCHANGED <<rowVars, jobVars, lapsed, claimed, scan, paused, stage, faults>>

-----------------------------------------------------------------------------
(* Runner events: Phase4RunnerEventProcessor.apply.                           *)

runAfterAck(r, s) ==
  IF run[r] \in V2_TERMINAL_AGENT_RUN_STATES THEN run[r]
  ELSE IF s = "cancelled" THEN "cancelled"
  ELSE IF s = "expired" \/ run[r] = "created" THEN "expired" ELSE "failed"

taskAfterAck(t, s) ==
  IF task[t] \in SparedByDeath THEN task[t]
  ELSE IF s = "cancelled" THEN "cancelled" ELSE "blocked"

runAfterStatus(r, s) == IF run[r] \in V2_TERMINAL_AGENT_RUN_STATES THEN run[r] ELSE s

(* The transaction of an event commits: its lifecycle edges are in the       *)
(* tables, a verification names the designated run of its task, a completion *)
(* has green verification.                                                   *)
Accepts(e) ==
  LET r == e.run
      t == e.run[1]
      runEdge(to) == run[r] = to \/ v2CanAgentRunTransition(run[r], to)
  IN CASE e.kind = "command_ack" ->
            e.value \in Dead =>
              /\ runEdge(runAfterAck(r, e.value))
              /\ \/ task[t] \in SparedByDeath
                 \/ v2CanTaskTransition(task[t], taskAfterAck(t, e.value))
       [] e.kind = "verification_result" -> r = Designated(t)
       [] e.kind = "run_status" ->
            /\ e.value = "completed" => verification[r] = "passed"
            /\ e.value \in {"failed", "cancelled"} => runEdge(runAfterStatus(r, e.value))

(* An event is processed in order; the events already in flight behind a     *)
(* rejected one are processed too.                                           *)
Applicable(i) ==
  /\ connected
  /\ i <= SendWindow
  /\ \A j \in 1..(i - 1) : ~Accepts(outbox[j])

Consume(i) ==
  /\ i \in DOMAIN outbox
  /\ Applicable(i) /\ Accepts(outbox[i])
  /\ outbox' = [j \in 1..(Len(outbox) - 1) |-> IF j < i THEN outbox[j] ELSE outbox[j + 1]]
  /\ UNCHANGED <<phase, designated, lease, leaseLapsed, attempts, lapsed, claimed, scan,
                 linkVars, paused, executed, stage, faults>>

settleTerminalUsage(r, s) ==
  reservation' = [reservation EXCEPT ![r] =
                    IF @ # "active" THEN @ ELSE IF s = "expired" THEN "expired" ELSE "settled"]

applyCommandAck(i) ==
  LET e == outbox[i]  r == e.run  t == e.run[1]  s == e.value IN
  /\ Consume(i) /\ e.kind = "command_ack"
  /\ command' = [command EXCEPT ![r] = s]
  /\ IF s \in TERMINAL_COMMAND_STATES
     THEN /\ job' = [job EXCEPT ![r] = IF @ = "delivered" THEN "completed" ELSE @]
          /\ settleTerminalUsage(r, s)
     ELSE UNCHANGED <<job, reservation>>
  /\ IF s \in Dead
     THEN /\ run' = [run EXCEPT ![r] = runAfterAck(r, s)]
          /\ task' = [task EXCEPT ![t] = taskAfterAck(t, s)]
     ELSE UNCHANGED <<run, task>>
  /\ UNCHANGED verification

(* Mutant: a late start revives the run that was expired meanwhile. *)
applyStartedUnfenced(i) ==
  LET e == outbox[i]  r == e.run  t == e.run[1] IN
  /\ Consume(i) /\ e.kind = "run_status" /\ e.value = "started"
  /\ run' = [run EXCEPT ![r] = "running"]
  /\ task' = [task EXCEPT ![t] = IF @ = "assigned" THEN "in_progress" ELSE @]
  /\ UNCHANGED <<verification, reservation, job, command>>

applyStarted(i) ==
  LET e == outbox[i]  r == e.run  t == e.run[1] IN
  /\ Consume(i) /\ e.kind = "run_status" /\ e.value = "started"
  /\ run' = [run EXCEPT ![r] = IF @ = "dispatched" THEN "running" ELSE @]
  /\ task' = [task EXCEPT ![t] = IF @ = "assigned" THEN "in_progress" ELSE @]
  /\ UNCHANGED <<verification, reservation, job, command>>

applyVerification(i) ==
  LET e == outbox[i]  r == e.run  t == e.run[1] IN
  /\ Consume(i) /\ e.kind = "verification_result"
  /\ run' = [run EXCEPT ![r] = IF @ = "running" THEN "verifying" ELSE @]
  /\ task' = [task EXCEPT ![t] = IF @ = "in_progress" THEN "verifying" ELSE @]
  /\ verification' = [verification EXCEPT ![r] = e.value]
  /\ UNCHANGED <<reservation, job, command>>

applyCompleted(i) ==
  LET e == outbox[i]  r == e.run  t == e.run[1] IN
  /\ Consume(i) /\ e.kind = "run_status" /\ e.value = "completed"
  /\ run' = [run EXCEPT ![r] = IF @ = "verifying" THEN "succeeded" ELSE @]
  /\ task' = [task EXCEPT ![t] = IF @ = "verifying" THEN "in_review" ELSE @]
  /\ settleTerminalUsage(r, "succeeded")
  /\ UNCHANGED <<verification, job, command>>

applyStopped(i) ==
  LET e == outbox[i]  r == e.run  t == e.run[1]  s == e.value IN
  /\ Consume(i) /\ e.kind = "run_status" /\ s \in {"failed", "cancelled"}
  /\ run' = [run EXCEPT ![r] = runAfterStatus(r, s)]
  /\ task' = [task EXCEPT ![t] = IF @ \in V2_TERMINAL_TASK_STATES THEN @ ELSE s]
  /\ settleTerminalUsage(r, s)
  /\ UNCHANGED <<verification, job, command>>

(* The transaction throws: nothing is stored, the socket is closed, and the  *)
(* event stays at the head of the runner's buffer.                           *)
rejectRunnerEvents ==
  /\ connected /\ outbox # <<>>
  /\ ~Accepts(Head(outbox))
  /\ connected' = FALSE
  /\ wire' = Drop
  /\ UNCHANGED <<rowVars, jobVars, lapsed, claimed, scan, runnerVars, faults>>

-----------------------------------------------------------------------------
Scheduling ==
  \E t \in Tasks : \/ startPhase(t) \/ Rework(t) \/ ReworkRefused(t)
                   \/ retryOnce(t) \/ cancelOnce(t) \/ complete(t)

Dispatching ==
  \/ \E o \in Owners : \/ \E r \in Runs : claim(o, r)
                       \/ deliverClaimed(o) \/ deliveryThrows(o)
                       \/ retry(o) \/ deadLetter(o) \/ settlementThrows(o)
                       \/ ServerCrash(o)
  \/ \E r \in Runs : LeaseLapses(r)

Recovering ==
  \/ scanStart \/ scanRelease
  \/ \E r \in Runs : Expires(r) \/ expireStaleDispatch(r) \/ sweepResolve(r)

Running ==
  \/ \E r \in Runs : \/ handleRecorded(r) \/ handleRefused(r) \/ handleLaunch(r)
                     \/ started(r) \/ verified(r) \/ published(r) \/ emitFailure(r)
                     \/ bootstrapThrows(r) \/ cancelledRun(r) \/ settled(r)
  \/ emergencyStop \/ RunnerRestart \/ Disconnect \/ Reconcile

Applying ==
  \/ \E i \in DOMAIN outbox : \/ applyCommandAck(i) \/ applyStarted(i)
                              \/ applyVerification(i) \/ applyCompleted(i)
                              \/ applyStopped(i)
  \/ rejectRunnerEvents

Next == Scheduling \/ Dispatching \/ Recovering \/ Running \/ Applying

Spec == Init /\ [][Next]_vars

(* What the timers and promises of the code keep doing: the drain, dispatch, *)
(* recovery and auto-complete intervals, the reconnect timer, the queue of   *)
(* received events, a running execution (bounded by its own wall clock) and  *)
(* the passing of a deadline, or of a lease nobody works under.  Faults and   *)
(* human operations are never owed.                                          *)
Fairness ==
  /\ \A t \in Tasks : WF_vars(startPhase(t)) /\ WF_vars(complete(t))
  /\ \A o \in Owners :
       /\ WF_vars(\E r \in Runs : claim(o, r))
       /\ WF_vars(deliverClaimed(o) \/ deliveryThrows(o))
       /\ WF_vars(retry(o) \/ deadLetter(o) \/ settlementThrows(o))
  /\ \A r \in Runs :
       /\ WF_vars(LeaseLapses(r) /\ UNCHANGED faults) /\ WF_vars(Expires(r))
       /\ WF_vars(expireStaleDispatch(r)) /\ WF_vars(sweepResolve(r))
       /\ WF_vars(handleRecorded(r) \/ handleRefused(r) \/ handleLaunch(r))
       /\ WF_vars(started(r) \/ verified(r) \/ published(r) \/ emitFailure(r)
                  \/ cancelledRun(r))
       /\ WF_vars(settled(r))
  /\ WF_vars(scanStart) /\ WF_vars(scanRelease)
  /\ WF_vars(Reconcile)
  /\ WF_vars(Applying)

FairSpec == Spec /\ Fairness

-----------------------------------------------------------------------------
(* Safety.                                                                    *)

(* A run that can still change is the designated attempt of its task: every  *)
(* earlier attempt is terminal and every later one does not exist yet, so a  *)
(* task never has two live runs whatever retries, reworks and late events do *)
(* (the supersession of Phase4Coordinator.schedule).                         *)
LiveRunIsDesignated ==
  \A r \in Runs : /\ r[2] < designated[r[1]] => run[r] \in V2_TERMINAL_AGENT_RUN_STATES
                  /\ r[2] > designated[r[1]] <=> run[r] = "none"

(* A completed task stands on its designated run, and that run succeeded     *)
(* with green verification (Phase4CompletionService), even after late events *)
(* of older attempts and after rework.                                       *)
CompletedTaskIsGreen ==
  \A t \in Tasks : task[t] = "completed" =>
    /\ designated[t] > 0
    /\ run[Designated(t)] = "succeeded"
    /\ verification[Designated(t)] = "passed"

(* When a command row is terminal its run holds no money any more, whichever *)
(* of acknowledgement, dead letter and sweep got there first.                *)
TerminalCommandHoldsNoMoney ==
  \A r \in Runs : command[r] \in {"succeeded"} \cup Dead => reservation[r] # "active"

(* A phase the monitor parked or a human cancelled has no run under way,     *)
(* and no later event, delivery or sweep brings one back to life.            *)
ParkedPhaseIsQuiet ==
  phase \in {"blocked", "cancelled"} => \A r \in Runs : run[r] \notin Occupying

(* Something outside the runner's durable record tells that the runner took  *)
(* up the command of r: a live execution, a buffered event, or what the       *)
(* server's rows have taken over from the runner's events.                    *)
TakenUp(r) ==
  \/ stage[r] # "idle"
  \/ \E i \in DOMAIN outbox : outbox[i].run = r
  \/ run[r] \in {"running", "verifying", "succeeded", "failed", "cancelled"}
  \/ verification[r] # "pending"
  \/ command[r] \in {"executing", "succeeded", "rejected", "expired", "cancelled"}
  \/ job[r] = "completed"

(* A command is executed at most once, in whatever order deliveries,         *)
(* redeliveries, crashes, restarts and reconnects come: the record in the     *)
(* runner's state file (state.ts, RunnerDaemon.handleCommand) is there        *)
(* before anything else tells of the command and is never lost afterwards,    *)
(* and a command that has it, or has left any trace, is not launched again.   *)
ExecutedAtMostOnce ==
  [][\A r \in Runs : executed[r] # "none" \/ TakenUp(r) =>
       /\ executed'[r] # "none"
       /\ stage[r] = "idle" => stage'[r] = "idle"]_vars

(* A terminal run keeps its state for ever: late events, sweeps and dead     *)
(* letters that arrive after the outcome leave it alone.                     *)
TerminalRunsFrozen ==
  [][\A r \in Runs : run[r] \in V2_TERMINAL_AGENT_RUN_STATES => run'[r] = run[r]]_vars

(* A job the runner was sent under a commit is not sent to the queue again.  *)
DeliveryIsFinal ==
  [][\A r \in Runs : job[r] \in {"delivered", "completed"}
                       => job'[r] \in {"delivered", "completed"}]_vars

-----------------------------------------------------------------------------
(* Liveness, under FairSpec.                                                  *)

(* A scheduled run reaches an outcome once the faults stop.                  *)
RunSettles == \A r \in Runs : run[r] # "none" ~> run[r] \in V2_TERMINAL_AGENT_RUN_STATES

(* The money of a run with an outcome comes back. *)
MoneyReturns ==
  \A r \in Runs : run[r] \in V2_TERMINAL_AGENT_RUN_STATES ~> reservation[r] # "active"

-----------------------------------------------------------------------------
(* What the documents and comments of the repository say and the code does    *)
(* not do; each is refuted by a run of its own.                               *)

(* Two tasks that declare an overlapping conflict key never execute on the   *)
(* runner at the same time: the comment on the scope gate of                 *)
(* Phase4Coordinator.schedule.                                               *)
ConflictingTasksExclude ==
  \A r, q \in Runs : q[1] \in Conflicts[r[1]] /\ q # r
    => ~(stage[r] \in LiveStages /\ stage[q] \in LiveStages)

(* phaseReviewAutoCompleter: "A development run that verifies green parks    *)
(* its task at `in_review`": the task of a succeeded designated run is in    *)
(* review until the completion takes it from there.                          *)
SucceededRunIsReviewed ==
  \A t \in Tasks : designated[t] > 0 /\ run[Designated(t)] = "succeeded"
                     => task[t] \in {"in_review", "completed"}

(* The dispatch expiry: the task "self-heals into a recoverable state", one  *)
(* that retryOnce accepts, or is already cancelled.                          *)
ExpiredRunIsRecoverable ==
  \A t \in Tasks :
    LET expired == designated[t] > 0 /\ run[Designated(t)] = "expired"
    IN expired ~> task[t] \in {"failed", "blocked", "ready", "cancelled"} \/ ~expired

=============================================================================
