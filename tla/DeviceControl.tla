--------------------------- MODULE DeviceControl ---------------------------
(***************************************************************************)
(* How a run on an enrolled device is stopped.  The owner of the project,   *)
(* the watchdog or the revocation of the device writes a row in             *)
(* device_run_cancellations and fences the run; after the commit a          *)
(* best-effort hook sends a stop frame on the device's socket.  The device  *)
(* journals that it received the stop, aborts the run, and, only once the   *)
(* managed process tree is reaped, journals that it exited; it repeats both *)
(* facts until the server has recorded them.                                *)
(*                                                                         *)
(*   server   DeviceRunCancellationService, DeviceRevocationService,        *)
(*            DeviceOnlineControlBroker, the device half of the runner      *)
(*            socket and the authorization Phase4Dispatcher asks for;       *)
(*   runner   DeviceControlConnection, DeviceCancellationJournal,           *)
(*            LiveRunRegistry and the daemon's event buffer.                *)
(*                                                                         *)
(* One action is one transaction or one synchronous block.  Each run is the *)
(* only attempt of its task; Execution has the attempts, the dispatch       *)
(* leases and the money.  Publication permits are not in this module.       *)
(***************************************************************************)
EXTENDS Naturals, Sequences, FiniteSets

CONSTANTS
  Runs,        \* runs whose command addresses the device
  SendWindow,  \* RUNNER_EVENT_SEND_WINDOW (32 in the code)
  MaxFrames,   \* bound: frames under way when the evidence timer fires
  MaxReplays,  \* bound: repeated stop and revocation requests
  MaxFaults,   \* bound: faults in a behaviour
  Environment  \* which faults and human operations may happen

EnvironmentEvents == {"project_stop", "watchdog_stop", "revoke", "disconnect",
                      "runner_crash", "server_crash", "commit_lost", "unreaped"}

ASSUME DeviceConstants ==
  /\ IsFiniteSet(Runs) /\ Runs # {}
  /\ SendWindow \in Nat \ {0}
  /\ MaxFrames \in Nat /\ MaxReplays \in Nat /\ MaxFaults \in Nat
  /\ Environment \subseteq EnvironmentEvents

VARIABLES
  device,    \* devices.lifecycle
  run,       \* agent_runs.state; "running" stands for verifying and waiting too
  task,      \* tasks.state of the run's task
  job,       \* dispatch_jobs.status; the command is queued until "delivered"
  stop,      \* device_run_cancellations.state, "none" without a row
  cause,     \* device_run_cancellations.cause
  fenced,    \* runs with publication_fenced_at
  claimed,   \* runs whose dispatch a tick of the dispatcher holds in memory
  hooks,     \* what is left of the post-commit hooks
  closing,   \* the revocation hook has yet to close the device's socket
  link,      \* the device's socket, see Links
  todo,      \* work of the server that a new connection started
  toRunner,  \* frames on the socket to the device, oldest first
  wire,      \* evidence frames on the socket to the server
  late,      \* evidence the server had read when its socket went away
  journal,   \* the device's durable record of a stop
  confirmed, \* its *_server_acked flags
  executed,  \* the device's durable record of the run's command
  outbox,    \* the device's durable event buffer
  sending,   \* reconciled: the device sends its buffered events
  live,      \* LiveRunRegistry
  aborted,   \* runs whose AbortSignal fired
  watch,     \* runs whose end a cancellation handler waits for
  offline,   \* RunnerDaemon.fenced
  tree,      \* the run's managed process tree on the device
  faults, replays

rowVars == <<device, run, task, job, stop, cause, fenced>>
memoryVars == <<claimed, hooks, closing>>
linkVars == <<link, todo, toRunner, wire, late, sending>>
diskVars == <<journal, confirmed, executed, outbox>>
processVars == <<live, aborted, watch, offline, tree>>
boundVars == <<faults, replays>>
vars == <<rowVars, memoryVars, linkVars, diskVars, processVars, boundVars>>

-----------------------------------------------------------------------------
Active == {"created", "dispatched", "running"}

Unanswered == {"cancellation_requested", "unconfirmed_offline"}

EvidenceStates == {"runner_acknowledged", "process_exited"}

(* "refused": the server rejected a frame and closed the socket; "removed":  *)
(* the broker dropped the connection of a revoked device and closed it.  In  *)
(* both, frames sent before are still read by the device before it notices.  *)
(* "stale": the socket was lost while connect was still delivering, and the  *)
(* broker keeps listing it.                                                  *)
Links == {"down", "stale", "up", "refused", "removed"}

Evidence == Runs \X EvidenceStates

Frames == [type: {"command", "stop"}, run: Runs]
          \cup [type: {"evidence_ack"}, run: Runs, state: EvidenceStates]
          \cup [type: {"reconcile_response"}]

Hooks == [by: {"request", "revoke"}, run: Runs, step: {"send", "mark"}]

(* "succeeded", "failed" and "cancelled" stand for the statuses a run ends   *)
(* with and the acknowledgement behind them, "lost" for the failed           *)
(* acknowledgement of an execution that did not survive a restart.           *)
Events == [run: Runs, kind: {"started", "succeeded", "failed", "cancelled", "lost"},
           applied: BOOLEAN]

TypeOK ==
  /\ device \in {"active", "revoked"}
  /\ run \in [Runs -> Active \cup {"succeeded", "failed", "cancelled", "expired"}]
  /\ task \in [Runs -> {"assigned", "in_progress", "in_review", "blocked", "failed", "cancelled"}]
  /\ job \in [Runs -> {"queued", "leased", "delivered", "completed", "cancelled"}]
  /\ stop \in [Runs -> {"none"} \cup Unanswered \cup EvidenceStates]
  /\ cause \in [Runs -> {"none", "project_stop", "device_revocation", "emergency_stop"}]
  /\ fenced \subseteq Runs /\ claimed \subseteq Runs
  /\ hooks \subseteq Hooks /\ closing \in BOOLEAN
  /\ link \in Links /\ todo \subseteq {"control", "reconcile"}
  /\ toRunner \in Seq(Frames)
  /\ wire \subseteq Evidence /\ late \subseteq Evidence
  /\ journal \in [Runs -> {"none", "acknowledged", "exited"}]
  /\ confirmed \in [Runs -> SUBSET EvidenceStates]
  /\ executed \in [Runs -> {"none", "executing", "ended"}]
  /\ outbox \in Seq(Events) /\ sending \in BOOLEAN
  /\ live \in [Runs -> {"unknown", "live", "reaped", "unreaped"}]
  /\ aborted \subseteq Runs /\ watch \subseteq Runs /\ offline \in BOOLEAN
  /\ tree \in [Runs -> {"none", "alive", "gone"}]
  /\ faults \in 0..MaxFaults /\ replays \in 0..MaxReplays

Init ==
  /\ device = "active"
  /\ run = [r \in Runs |-> "created"]
  /\ task = [r \in Runs |-> "assigned"]
  /\ job = [r \in Runs |-> "queued"]
  /\ stop = [r \in Runs |-> "none"]
  /\ cause = [r \in Runs |-> "none"]
  /\ fenced = {} /\ claimed = {} /\ hooks = {} /\ closing = FALSE
  /\ link = "down" /\ todo = {} /\ toRunner = <<>>
  /\ wire = {} /\ late = {} /\ sending = FALSE
  /\ journal = [r \in Runs |-> "none"]
  /\ confirmed = [r \in Runs |-> {}]
  /\ executed = [r \in Runs |-> "none"]
  /\ outbox = <<>>
  /\ live = [r \in Runs |-> "unknown"]
  /\ aborted = {} /\ watch = {} /\ offline = FALSE
  /\ tree = [r \in Runs |-> "none"]
  /\ faults = 0 /\ replays = 0

(* Step e of the environment happens and is charged to the fault bound. *)
Fault(e) ==
  /\ e \in Environment
  /\ faults < MaxFaults
  /\ faults' = faults + 1
  /\ UNCHANGED replays

Replay ==
  /\ replays < MaxReplays
  /\ replays' = replays + 1
  /\ UNCHANGED faults

-----------------------------------------------------------------------------
(* The socket.                                                               *)

(* What a send puts on the socket; a closing socket swallows it. *)
Sent(frames) == IF link = "up" THEN toRunner \o frames ELSE toRunner

Command(r) == [type |-> "command", run |-> r]
Stop(r) == [type |-> "stop", run |-> r]
EvidenceAck(r, s) == [type |-> "evidence_ack", run |-> r, state |-> s]

(* The rows of S in the order a query returned them. *)
Ordered(S) ==
  {o \in [1..Cardinality(S) -> S] : \A i, j \in DOMAIN o : o[i] = o[j] => i = j}

(* Both ends lose the socket; the server keeps handling what it has read. *)
LoseSocket ==
  /\ link' = IF "control" \in todo /\ link # "removed" THEN "stale" ELSE "down"
  /\ todo' = {} /\ toRunner' = <<>> /\ sending' = FALSE
  /\ wire' = {}
  /\ \E read \in SUBSET wire : late' = late \cup read

(* The server closes the socket and ignores what arrives on it from now on. *)
Refuse ==
  /\ link' = "refused"
  /\ wire' = {}
  /\ \E read \in SUBSET wire : late' = late \cup read
  /\ UNCHANGED <<todo, toRunner, sending>>

(* Evidence the device has to report, given journal j and flags c: the exit  *)
(* only after the server confirmed the acknowledgement.                      *)
Due(j, c) ==
  {e \in Evidence :
     /\ j[e[1]] # "none"
     /\ IF e[2] = "runner_acknowledged"
        THEN "runner_acknowledged" \notin c[e[1]]
        ELSE /\ j[e[1]] = "exited"
             /\ "runner_acknowledged" \in c[e[1]]
             /\ "process_exited" \notin c[e[1]]}

(* flushEvidence: a refused socket is read by nobody. *)
Flush(j, c) == wire' = IF link \in {"up", "removed"} THEN wire \cup Due(j, c) ELSE wire

-----------------------------------------------------------------------------
(* Dispatch, as far as it is authorized per run.                             *)

(* PostgresDeviceActionAuthorization.assertRun: the device is active and no  *)
(* stop has been asked of the run.                                           *)
Authorized(r) == device = "active" /\ stop[r] = "none"

Reconciled == link \in {"up", "refused"} /\ "reconcile" \notin todo

(* Mutant: a job status its table does not know. *)
cancelStaleAsFailed(r) == job' = [job EXCEPT ![r] = "failed"]

(* A command whose authorization is gone is cancelled, never sent. *)
cancelStaleCommand(r) ==
  job' = [job EXCEPT ![r] = IF @ = "completed" THEN @ ELSE "cancelled"]

claim(r) ==
  /\ job[r] \in {"queued", "leased"} /\ r \notin claimed
  /\ IF Authorized(r)
     THEN job' = [job EXCEPT ![r] = "leased"] /\ claimed' = claimed \cup {r}
     ELSE cancelStaleCommand(r) /\ UNCHANGED claimed
  /\ UNCHANGED <<device, run, task, stop, cause, fenced, hooks, closing, linkVars,
                 diskVars, processVars, boundVars>>

(* Mutant: the authorization of the claim is trusted when the send comes.    *)
deliverUnchecked(r) ==
  /\ r \in claimed
  /\ claimed' = claimed \ {r}
  /\ IF Reconciled
     THEN /\ toRunner' = Sent(<<Command(r)>>)
          /\ job' = [job EXCEPT ![r] = "delivered"]
          /\ run' = [run EXCEPT ![r] = IF @ = "created" THEN "dispatched" ELSE @]
          /\ UNCHANGED boundVars
     ELSE /\ job' = [job EXCEPT ![r] = "queued"]
          /\ UNCHANGED <<run, toRunner, boundVars>>
  /\ UNCHANGED <<device, task, stop, cause, fenced, hooks, closing, link, todo, wire,
                 late, sending, diskVars, processVars>>

(* deliverClaimed: authorize again, send and mark in one transaction.  The   *)
(* commit may be lost after the send; without a socket the job is retried.   *)
deliverClaimed(r) ==
  /\ r \in claimed
  /\ claimed' = claimed \ {r}
  /\ \/ /\ ~Authorized(r)
        /\ cancelStaleCommand(r)
        /\ UNCHANGED <<run, toRunner, boundVars>>
     \/ /\ Authorized(r) /\ Reconciled
        /\ toRunner' = Sent(<<Command(r)>>)
        /\ job' = [job EXCEPT ![r] = "delivered"]
        /\ run' = [run EXCEPT ![r] = IF @ = "created" THEN "dispatched" ELSE @]
        /\ UNCHANGED boundVars
     \/ /\ Authorized(r) /\ Reconciled
        /\ toRunner' = Sent(<<Command(r)>>)
        /\ job' = [job EXCEPT ![r] = "queued"]
        /\ Fault("commit_lost")
        /\ UNCHANGED run
     \/ /\ Authorized(r) /\ ~Reconciled
        /\ job' = [job EXCEPT ![r] = "queued"]
        /\ UNCHANGED <<run, toRunner, boundVars>>
  /\ UNCHANGED <<device, task, stop, cause, fenced, hooks, closing, link, todo, wire,
                 late, sending, diskVars, processVars>>

-----------------------------------------------------------------------------
(* Stop requests and their post-commit hooks.                                *)

SendHook(by, S) == {[by |-> by, run |-> r, step |-> "send"] : r \in S}

(* Cancel what was never handed to the device; a run that was never          *)
(* dispatched ends with the request itself.                                  *)
requestProjectStop(r) ==
  /\ "project_stop" \in Environment
  /\ device = "active" /\ stop[r] = "none" /\ run[r] \in Active
  /\ stop' = [stop EXCEPT ![r] = "cancellation_requested"]
  /\ cause' = [cause EXCEPT ![r] = "project_stop"]
  /\ fenced' = fenced \cup {r}
  /\ IF job[r] \in {"queued", "leased"}
     THEN /\ job' = [job EXCEPT ![r] = "cancelled"]
          /\ run' = [run EXCEPT ![r] = IF @ = "running" THEN @ ELSE "cancelled"]
     ELSE UNCHANGED <<job, run>>
  /\ hooks' = hooks \cup SendHook("request", {r})
  /\ UNCHANGED <<device, task, claimed, closing, linkVars, diskVars, processVars, boundVars>>

(* The same request again, after a lost answer: only the hook runs. *)
replayProjectStop(r) ==
  /\ cause[r] = "project_stop"
  /\ Replay
  /\ hooks' = hooks \cup SendHook("request", {r})
  /\ UNCHANGED <<rowVars, claimed, closing, linkVars, diskVars, processVars>>

(* The recovery monitor saw no activity of a run. *)
requestWatchdogStop(r) ==
  /\ "watchdog_stop" \in Environment
  /\ device = "active" /\ stop[r] = "none" /\ run[r] \in {"dispatched", "running"}
  /\ stop' = [stop EXCEPT ![r] = "cancellation_requested"]
  /\ cause' = [cause EXCEPT ![r] = "emergency_stop"]
  /\ hooks' = hooks \cup SendHook("request", {r})
  /\ UNCHANGED <<device, run, task, job, fenced, claimed, closing, linkVars, diskVars,
                 processVars, boundVars>>

(* Revocation withdraws the credential and fences every active run. *)
revoke ==
  LET affected == {r \in Runs : run[r] \in Active} IN
  /\ "revoke" \in Environment
  /\ device = "active"
  /\ device' = "revoked"
  /\ stop' = [r \in Runs |-> IF r \in affected /\ stop[r] = "none"
                             THEN "cancellation_requested" ELSE stop[r]]
  /\ cause' = [r \in Runs |-> IF r \in affected /\ cause[r] = "none"
                              THEN "device_revocation" ELSE cause[r]]
  /\ fenced' = fenced \cup affected
  /\ job' = [r \in Runs |-> IF job[r] \in {"queued", "leased"} THEN "cancelled" ELSE job[r]]
  /\ hooks' = hooks \cup SendHook("revoke", affected)
  /\ closing' = TRUE
  /\ UNCHANGED <<run, task, claimed, linkVars, diskVars, processVars, boundVars>>

replayRevoke ==
  /\ device = "revoked"
  /\ Replay
  /\ hooks' = hooks \cup SendHook("revoke", fenced)
  /\ closing' = TRUE
  /\ UNCHANGED <<rowVars, claimed, linkVars, diskVars, processVars>>

(* requestCancellation: false without a connection, and then the run is      *)
(* marked in a transaction of its own.                                       *)
requestCancellation(h) ==
  /\ h \in hooks /\ h.step = "send"
  /\ IF link \in {"up", "refused", "stale"}
     THEN toRunner' = Sent(<<Stop(h.run)>>) /\ hooks' = hooks \ {h}
     ELSE hooks' = (hooks \ {h}) \cup {[h EXCEPT !.step = "mark"]} /\ UNCHANGED toRunner
  /\ UNCHANGED <<rowVars, claimed, closing, link, todo, wire, late, sending, diskVars,
                 processVars, boundVars>>

(* Mutant: the mark ignores what the device reported meanwhile. *)
markUnconfirmedAnyway(h) ==
  /\ h \in hooks /\ h.step = "mark"
  /\ hooks' = hooks \ {h}
  /\ stop' = [stop EXCEPT ![h.run] = "unconfirmed_offline"]
  /\ UNCHANGED <<device, run, task, job, cause, fenced, claimed, closing, linkVars,
                 diskVars, processVars, boundVars>>

markUnconfirmedOffline(h) ==
  /\ h \in hooks /\ h.step = "mark"
  /\ hooks' = hooks \ {h}
  /\ stop' = [stop EXCEPT ![h.run] = IF @ = "cancellation_requested"
                                     THEN "unconfirmed_offline" ELSE @]
  /\ UNCHANGED <<device, run, task, job, cause, fenced, claimed, closing, linkVars,
                 diskVars, processVars, boundVars>>

(* The last step of the revocation hook. *)
closeRevokedDevice ==
  /\ closing
  /\ \A h \in hooks : h.by # "revoke"
  /\ closing' = FALSE
  /\ link' = CASE link = "up" -> "removed" [] link = "stale" -> "down" [] OTHER -> link
  /\ UNCHANGED <<rowVars, claimed, hooks, todo, toRunner, wire, late, sending, diskVars,
                 processVars, boundVars>>

-----------------------------------------------------------------------------
(* A new connection.                                                         *)

(* The device authenticates, flushes its journal and asks to be reconciled.  *)
(* A revoked credential fences the installation until the daemon restarts.   *)
Connect ==
  /\ link \in {"down", "stale"} /\ ~offline
  /\ IF device = "active"
     THEN /\ link' = "up" /\ todo' = {"control", "reconcile"}
          /\ wire' = Due(journal, confirmed)
          /\ UNCHANGED <<aborted, offline>>
     ELSE /\ offline' = TRUE
          /\ aborted' = aborted \cup {r \in Runs : live[r] = "live"}
          /\ UNCHANGED <<link, todo, wire>>
  /\ UNCHANGED <<rowVars, memoryVars, toRunner, late, sending, diskVars, live, watch, tree,
                 boundVars>>

(* The broker sends the stops of the rows S, unless the device was revoked   *)
(* while it connected.                                                       *)
SendPending(S) ==
  /\ link \in {"up", "refused"} /\ "control" \in todo
  /\ todo' = todo \ {"control"}
  /\ \/ /\ device = "active"
        /\ \E o \in Ordered(S) : toRunner' = Sent([i \in DOMAIN o |-> Stop(o[i])])
        /\ UNCHANGED link
     \/ /\ device = "revoked"
        /\ link' = IF link = "up" THEN "removed" ELSE link
        /\ UNCHANGED toRunner
  /\ UNCHANGED <<rowVars, memoryVars, wire, late, sending, diskVars, processVars, boundVars>>

(* Mutant: a stop that found the device offline is not pending any more. *)
deliverRequestedOnly ==
  SendPending({r \in Runs : stop[r] = "cancellation_requested" /\ run[r] \in Active})

deliverPending ==
  SendPending({r \in Runs : /\ stop[r] \notin {"none", "process_exited"}
                            /\ run[r] \in Active})

(* reconcile_request: the response, then every delivered command the device  *)
(* does not know, each authorized again.                                     *)
reconcile ==
  /\ link = "up" /\ "reconcile" \in todo
  /\ IF device = "active"
     THEN LET delivered == {r \in Runs : job[r] = "delivered"}
              again == {r \in delivered : Authorized(r) /\ executed[r] = "none"} IN
          /\ todo' = todo \ {"reconcile"}
          /\ \E o \in Ordered(again) :
               toRunner' = Sent(<<[type |-> "reconcile_response"]>>
                                \o [i \in DOMAIN o |-> Command(o[i])])
          /\ job' = [r \in Runs |-> IF r \in delivered /\ ~Authorized(r)
                                    THEN "cancelled" ELSE job[r]]
          /\ UNCHANGED <<link, wire, late, sending>>
     ELSE Refuse /\ UNCHANGED job
  /\ UNCHANGED <<device, run, task, stop, cause, fenced, memoryVars, diskVars, processVars,
                 boundVars>>

-----------------------------------------------------------------------------
(* Evidence.                                                                 *)

(* Mutant: the exit finds the row acknowledged and leaves it so. *)
AdvancesOnce(r, s) == stop[r] \in Unanswered

(* What an evidence row may still become; an acknowledgement never replaces  *)
(* an exit.                                                                  *)
Advances(r, s) ==
  \/ stop[r] \in Unanswered
  \/ stop[r] = "runner_acknowledged" /\ s = "process_exited"

(* Mutant: an acknowledgement never ends a run. *)
finalizableOnExit(s) == IF s = "process_exited" THEN Active ELSE {}

(* The run states that evidence s ends. *)
finalizableStates(s) == IF s = "process_exited" THEN Active ELSE {"created", "dispatched"}

recordDeviceEvidence(r, s) ==
  /\ stop' = [stop EXCEPT ![r] = IF Advances(r, s) THEN s ELSE @]
  /\ IF run[r] \in finalizableStates(s)
     THEN /\ run' = [run EXCEPT ![r] = "cancelled"]
          /\ task' = [task EXCEPT ![r] = IF @ \in {"failed", "cancelled"} THEN @ ELSE "blocked"]
     ELSE UNCHANGED <<run, task>>
  /\ UNCHANGED <<device, job, cause, fenced>>

(* The server handles an evidence frame and answers it. *)
evidence(r, s) ==
  /\ <<r, s>> \in wire
  /\ wire' = wire \ {<<r, s>>}
  /\ recordDeviceEvidence(r, s)
  /\ toRunner' = Sent(<<EvidenceAck(r, s)>>)
  /\ UNCHANGED <<memoryVars, link, todo, late, sending, diskVars, processVars, boundVars>>

(* The same, for a frame whose socket is gone. *)
lateEvidence(r, s) ==
  /\ <<r, s>> \in late
  /\ late' = late \ {<<r, s>>}
  /\ recordDeviceEvidence(r, s)
  /\ UNCHANGED <<memoryVars, link, todo, toRunner, wire, sending, diskVars, processVars,
                 boundVars>>

-----------------------------------------------------------------------------
(* Runner events.                                                            *)

(* pruneAcked: the buffer without what is durable up to the watermark, the   *)
(* highest sequence number below which nothing is missing.                   *)
pruneAcked(o) ==
  LET first == CHOOSE k \in 1..Len(o) + 1 :
                 /\ \A i \in 1..k - 1 : o[i].applied
                 /\ k <= Len(o) => ~o[k].applied
  IN  SubSeq(o, first, Len(o))

(* The transaction of an event commits. *)
Accepts(e) == Authorized(e.run) /\ (e.kind = "failed" => run[e.run] # "created")

applyEvent(e) ==
  LET r == e.run
      ended(outcome) == IF run[r] \in Active THEN outcome ELSE run[r] IN
  /\ run' = [run EXCEPT ![r] =
       CASE e.kind = "started"   -> IF @ = "dispatched" THEN "running" ELSE @
         [] e.kind = "succeeded" -> IF @ = "running" THEN "succeeded" ELSE @
         [] e.kind = "lost"      -> ended(IF @ = "created" THEN "expired" ELSE "failed")
         [] OTHER                -> ended(e.kind)]
  /\ task' = [task EXCEPT ![r] =
       CASE e.kind = "started"   -> IF @ = "assigned" THEN "in_progress" ELSE @
         [] e.kind = "succeeded" -> IF @ = "in_progress" THEN "in_review" ELSE @
         [] e.kind = "lost"      -> IF @ \in {"failed", "cancelled"} THEN @ ELSE "blocked"
         [] OTHER                -> e.kind]
  /\ job' = [job EXCEPT ![r] = IF e.kind # "started" /\ @ = "delivered" THEN "completed" ELSE @]

(* The server takes the events of the window in order.  One it rejects       *)
(* closes the socket; those read behind it are still applied, and none of    *)
(* them is acknowledged.                                                     *)
event(i) ==
  /\ sending /\ i \in DOMAIN outbox /\ i <= SendWindow
  /\ ~outbox[i].applied
  /\ \A j \in 1..i - 1 : outbox[j].applied \/ (~Accepts(outbox[j]) /\ link = "refused")
  /\ \/ /\ link \in {"up", "refused"} /\ Accepts(outbox[i])
        /\ applyEvent(outbox[i])
        /\ LET applied == [outbox EXCEPT ![i].applied = TRUE] IN
           outbox' = IF link = "up" THEN pruneAcked(applied) ELSE applied
        /\ UNCHANGED <<link, wire, late>>
     \/ /\ link = "up" /\ ~Accepts(outbox[i])
        /\ Refuse
        /\ UNCHANGED <<run, task, job, outbox>>
  /\ UNCHANGED <<device, stop, cause, fenced, memoryVars, todo, toRunner, sending, journal,
                 confirmed, executed, processVars, boundVars>>

-----------------------------------------------------------------------------
(* The device.                                                               *)

Emit(r, kind) ==
  outbox' = IF offline THEN outbox
            ELSE Append(outbox, [run |-> r, kind |-> kind, applied |-> FALSE])

Receives(type) ==
  /\ toRunner # <<>> /\ Head(toRunner).type = type
  /\ toRunner' = Tail(toRunner)

(* handleCommand: a command that is on record is not executed again, and a   *)
(* fenced daemon takes no work.                                              *)
receiveCommand ==
  LET r == Head(toRunner).run IN
  /\ Receives("command")
  /\ IF executed[r] = "none" /\ ~offline
     THEN executed' = [executed EXCEPT ![r] = "executing"] /\ live' = [live EXCEPT ![r] = "live"]
     ELSE UNCHANGED <<executed, live>>
  /\ UNCHANGED <<rowVars, memoryVars, link, todo, wire, late, sending, journal, confirmed,
                 outbox, aborted, watch, offline, tree, boundVars>>

(* Mutant: a run the registry does not know counts as stopped. *)
provesExitByAbsence(r) == live[r] \in {"reaped", "unknown"}

(* cancelAndWait: only the remembered end of a run proves its exit. *)
provesExit(r) == live[r] = "reaped"

(* receiveCancellation: journal the stop, then abort a live run and wait for *)
(* its end.  Work the registry does not know stays acknowledged.             *)
receiveCancellation ==
  LET r == Head(toRunner).run
      acknowledged == [journal EXCEPT ![r] = IF @ = "none" THEN "acknowledged" ELSE @]
      settled == IF provesExit(r) THEN [journal EXCEPT ![r] = "exited"] ELSE acknowledged IN
  /\ Receives("stop")
  /\ journal' = settled
  /\ Flush(settled, confirmed)
  /\ IF live[r] = "live" /\ journal[r] # "exited"
     THEN aborted' = aborted \cup {r} /\ watch' = watch \cup {r}
     ELSE UNCHANGED <<aborted, watch>>
  /\ UNCHANGED <<rowVars, memoryVars, link, todo, late, sending, confirmed, executed, outbox,
                 live, offline, tree, boundVars>>

(* The daemon is gone: process trees may outlive it, its memory does not. *)
LoseRunner ==
  /\ LoseSocket
  /\ live' = [r \in Runs |-> "unknown"]
  /\ aborted' = {} /\ watch' = {} /\ offline' = FALSE
  /\ \E dead \in SUBSET {r \in Runs : tree[r] = "alive"} :
       tree' = [r \in Runs |-> IF r \in dead THEN "gone" ELSE tree[r]]

(* Mutant: one acknowledgement of the server is enough to forget a record. *)
ForgottenEarly(flags) == flags # {}

(* markServerAcknowledged drops a record once both facts are confirmed. *)
Forgotten(flags) == flags = EvidenceStates

receiveEvidenceAck ==
  LET r == Head(toRunner).run
      s == Head(toRunner).state
      flags == confirmed[r] \cup {s} IN
  /\ toRunner # <<>> /\ Head(toRunner).type = "evidence_ack"
  /\ \/ /\ journal[r] = "none"
        /\ Flush(journal, confirmed)
        /\ toRunner' = Tail(toRunner)
        /\ UNCHANGED <<link, todo, late, sending, journal, confirmed, processVars>>
     \/ /\ journal[r] = "exited" \/ (journal[r] = "acknowledged" /\ s = "runner_acknowledged")
        /\ journal' = [journal EXCEPT ![r] = IF Forgotten(flags) THEN "none" ELSE @]
        /\ confirmed' = [confirmed EXCEPT ![r] = IF Forgotten(flags) THEN {} ELSE flags]
        /\ Flush(journal', confirmed')
        /\ toRunner' = Tail(toRunner)
        /\ UNCHANGED <<link, todo, late, sending, processVars>>
     \/ /\ journal[r] = "acknowledged" /\ s = "process_exited"  \* throws, unhandled
        /\ LoseRunner
        /\ UNCHANGED <<journal, confirmed>>
  /\ UNCHANGED <<rowVars, memoryVars, executed, outbox, boundVars>>

(* handleReconcileResponse: prune, send, and fail what no longer runs here. *)
receiveReconcileResponse ==
  LET orphaned == {r \in Runs : executed[r] = "executing" /\ live[r] # "live"} IN
  /\ Receives("reconcile_response")
  /\ sending' = TRUE
  /\ executed' = [r \in Runs |-> IF r \in orphaned THEN "ended" ELSE executed[r]]
  /\ \E o \in Ordered(orphaned) :
       outbox' = pruneAcked(outbox)
                 \o [i \in DOMAIN o |-> [run |-> o[i], kind |-> "lost", applied |-> FALSE]]
  /\ UNCHANGED <<rowVars, memoryVars, link, todo, wire, late, journal, confirmed, processVars,
                 boundVars>>

(* The run spawns its process tree and reports that it started. *)
Start(r) ==
  /\ live[r] = "live" /\ r \notin aborted /\ tree[r] = "none"
  /\ tree' = [tree EXCEPT ![r] = "alive"]
  /\ Emit(r, "started")
  /\ UNCHANGED <<rowVars, memoryVars, linkVars, journal, confirmed, executed, live, aborted,
                 watch, offline, boundVars>>

(* The run ends and leaves the registry with what is known of its tree; the  *)
(* handler that waits for it journals a proven exit.                         *)
Finish(r) ==
  /\ live[r] = "live"
  /\ executed' = [executed EXCEPT ![r] = "ended"]
  /\ \E kind \in {"succeeded", "failed", "cancelled"} :
       /\ kind = "cancelled" <=> r \in aborted
       /\ kind = "succeeded" => tree[r] = "alive"
       /\ Emit(r, kind)
  /\ \/ /\ live' = [live EXCEPT ![r] = "reaped"]
        /\ tree' = [tree EXCEPT ![r] = IF @ = "alive" THEN "gone" ELSE @]
        /\ journal' = [journal EXCEPT ![r] = IF r \in watch THEN "exited" ELSE @]
        /\ Flush(journal', confirmed)
        /\ UNCHANGED boundVars
     \/ /\ tree[r] = "alive"
        /\ live' = [live EXCEPT ![r] = "unreaped"]
        /\ \E left \in {"alive", "gone"} : tree' = [tree EXCEPT ![r] = left]
        /\ Fault("unreaped")
        /\ UNCHANGED <<journal, wire>>
  /\ watch' = watch \ {r}
  /\ UNCHANGED <<rowVars, memoryVars, link, todo, toRunner, late, sending, confirmed, aborted,
                 offline>>

(* The evidence timer. *)
retryEvidence ==
  /\ link = "up" /\ Len(toRunner) < MaxFrames
  /\ Flush(journal, confirmed)
  /\ UNCHANGED <<rowVars, memoryVars, link, todo, toRunner, late, sending, diskVars,
                 processVars, boundVars>>

-----------------------------------------------------------------------------
(* Faults.                                                                   *)

CloseReceived ==
  /\ link \in {"refused", "removed"} /\ toRunner = <<>>
  /\ LoseSocket
  /\ UNCHANGED <<rowVars, memoryVars, diskVars, processVars, boundVars>>

Disconnect ==
  /\ link \in {"up", "refused", "removed"}
  /\ Fault("disconnect")
  /\ LoseSocket
  /\ UNCHANGED <<rowVars, memoryVars, diskVars, processVars>>

RunnerCrash ==
  /\ Fault("runner_crash")
  /\ LoseRunner
  /\ UNCHANGED <<rowVars, memoryVars, diskVars>>

ServerCrash ==
  /\ Fault("server_crash")
  /\ claimed' = {} /\ hooks' = {} /\ closing' = FALSE
  /\ link' = "down" /\ todo' = {} /\ toRunner' = <<>> /\ sending' = FALSE
  /\ wire' = {} /\ late' = {}
  /\ UNCHANGED <<rowVars, diskVars, processVars>>

-----------------------------------------------------------------------------
Next ==
  \/ \E r \in Runs : \/ claim(r) \/ deliverClaimed(r)
                     \/ requestProjectStop(r) \/ replayProjectStop(r)
                     \/ requestWatchdogStop(r)
                     \/ Start(r) \/ Finish(r)
  \/ revoke \/ replayRevoke \/ closeRevokedDevice
  \/ \E h \in hooks : requestCancellation(h) \/ markUnconfirmedOffline(h)
  \/ Connect \/ deliverPending \/ reconcile
  \/ \E r \in Runs, s \in EvidenceStates : evidence(r, s) \/ lateEvidence(r, s)
  \/ \E i \in DOMAIN outbox : event(i)
  \/ receiveCommand \/ receiveCancellation \/ receiveEvidenceAck
  \/ receiveReconcileResponse \/ retryEvidence
  \/ CloseReceived \/ Disconnect \/ RunnerCrash \/ ServerCrash

Spec == Init /\ [][Next]_vars

(* The hooks run, both ends read their sockets and the device reconnects.  A *)
(* rejected event may close the socket on every connection, so what a        *)
(* connection starts with needs strong fairness: evidence is the first thing *)
(* the device sends, and the two queries of deliverPending start a round     *)
(* trip before the first event of a connection is sent.  Nothing is assumed  *)
(* of people, runs, timers, dispatch or events.                              *)
Fairness ==
  /\ \A r \in Runs, by \in {"request", "revoke"} :
       WF_vars(requestCancellation([by |-> by, run |-> r, step |-> "send"]))
  /\ WF_vars(Connect) /\ WF_vars(CloseReceived)
  /\ SF_vars(link = "up" /\ deliverPending)
  /\ WF_vars(receiveCommand \/ receiveCancellation \/ receiveEvidenceAck
             \/ receiveReconcileResponse)
  /\ \A r \in Runs, s \in EvidenceStates : SF_vars(evidence(r, s))

FairSpec == Spec /\ Fairness

-----------------------------------------------------------------------------
(* Properties.                                                               *)

(* Exit evidence is proof: whenever the device has journalled, or the server *)
(* recorded, that a run exited, its process tree is not alive, whatever      *)
(* restarts and redelivered stops led there (cancelAndWait,                  *)
(* recordProcessExited, recordDeviceEvidence).                               *)
ExitProofIsTrue ==
  \A r \in Runs : stop[r] = "process_exited" \/ journal[r] = "exited" => tree[r] # "alive"

Rank(s) == CASE s = "none" -> 0 [] s = "cancellation_requested" -> 1
             [] s = "unconfirmed_offline" -> 2 [] s = "runner_acknowledged" -> 3
             [] s = "process_exited" -> 4

(* A stop only gains evidence: the mark of a slow hook and a late or         *)
(* repeated frame never take back what the device has reported               *)
(* (markUnconfirmedOffline, recordDeviceEvidence).                           *)
EvidenceMovesForward == [][\A r \in Runs : Rank(stop[r]) <= Rank(stop'[r])]_vars

(* The device forgets a stop only when the server has its exit on record     *)
(* (markServerAcknowledged).                                                 *)
RecordOutlivesReport ==
  [][\A r \in Runs : journal[r] # "none" /\ journal'[r] = "none"
                     => stop[r] = "process_exited"]_vars

Commands(frames, r) == Cardinality({i \in DOMAIN frames : frames[i] = Command(r)})

(* From the commit of a stop on, no further command of the run is written to *)
(* the socket, by a tick that claimed it before or by a reconnection         *)
(* (deliverClaimed, deliverPendingForRunner).                                *)
NothingSentAfterStop ==
  [][\A r \in Runs : stop[r] # "none" => Commands(toRunner', r) <= Commands(toRunner, r)]_vars

(* Recorded evidence ends the run it is about: an acknowledgement one that   *)
(* never reported a start, an exit any (recordDeviceEvidence).               *)
EvidenceEndsRun ==
  \A r \in Runs : /\ stop[r] = "runner_acknowledged" => run[r] \notin {"created", "dispatched"}
                  /\ stop[r] = "process_exited" => run[r] \notin Active

(* A stop the device has not answered is answered, unless its run ends or    *)
(* the device is revoked: the hook may miss the device, deliverPending does  *)
(* not.                                                                      *)
StopIsAnswered ==
  \A r \in Runs : stop[r] \in Unanswered
                  ~> stop[r] \in EvidenceStates \/ run[r] \notin Active \/ device = "revoked"

(* A proven exit reaches the server, although every frame may be lost and    *)
(* the daemon restarted in between (flushEvidence, recordDeviceEvidence).    *)
ExitIsRecorded ==
  \A r \in Runs : journal[r] = "exited" ~> stop[r] = "process_exited" \/ device = "revoked"

(* Claimed by the comment in recordDeviceEvidence: a task never stays        *)
(* assigned to a run that has ended, since nothing would offer recovery.     *)
EndedRunLeavesNoTaskAssigned ==
  \A r \in Runs : run[r] \notin Active => task[r] # "assigned"

(* Claimed by the comment on the event acknowledgement: the runner's bounded *)
(* window never stalls.  A stall is an event of a working run that waits     *)
(* behind a window in which nothing will ever be applied, the head being an  *)
(* event the server refuses for good: a stop is never withdrawn.             *)
WindowNeverStalls ==
  \A i \in DOMAIN outbox :
    (i > SendWindow /\ Authorized(outbox[i].run) /\ ~outbox[1].applied)
    => \E j \in 1..SendWindow : ~outbox[j].applied /\ Authorized(outbox[j].run)

=============================================================================
