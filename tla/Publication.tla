---------------------------- MODULE Publication ----------------------------
(***************************************************************************)
(* How the commits of a task leave the runner: GitPublisher pushes the     *)
(* commit of an attempt to the task's branch and, for a green run, fast-   *)
(* forwards the base branch; the server records the publication and the    *)
(* head the next attempt starts from.  All attempts of a task share one    *)
(* branch, and a superseded attempt may still be publishing on its runner. *)
(* A device-backed publisher obtains a one-use permit before every push;   *)
(* the plain one does not (`guarded`).                                     *)
(*                                                                         *)
(* The commit of attempt a is a; commit 0 is the base before the task.     *)
(***************************************************************************)
EXTENDS Naturals, FiniteSets

CONSTANTS MaxAttempts,  \* bound on the attempts of the task
          MaxFaults     \* bound on lost answers of the git remote and the server

Attempts == 1 .. MaxAttempts
Commits == 0 .. MaxAttempts
Absent == MaxAttempts + 1        \* no commit: the branch does not exist

VARIABLES
  run,        \* agent_runs: "none", "live", "succeeded" or "stopped"
  stop,       \* device_run_cancellations: "none", "open", "fenced", "reauthorized"
  published,  \* the attempts whose published_commit_sha is recorded
  head,       \* repository_bindings.observed_head
  permit,     \* the attempts that hold an issued, unconsumed permit
  at,         \* where the publisher of an attempt is
  green,      \* attempts that completed and verified
  seen,       \* the branch tip a publisher read
  event,      \* the run_published event in the runner's buffer
  tree,       \* the commits reachable from a commit
  branch,     \* the tip of the task's branch on the remote
  base,       \* the tip of the base branch on the remote
  guarded,    \* DeviceBackedGitPublisher, or the plain GitPublisher
  overdue,    \* remote writes of an attempt since its authority was withdrawn
  faults

serverVars == <<run, stop, published, head, permit>>
runnerVars == <<at, green, seen, event>>
remoteVars == <<tree, branch, base, overdue>>
vars == <<serverVars, runnerVars, remoteVars, guarded, faults>>

Init ==
  /\ run = [a \in Attempts |-> "none"]
  /\ stop = [a \in Attempts |-> "none"]
  /\ published = {} /\ permit = {}
  /\ head = 0
  /\ at = [a \in Attempts |-> "idle"]
  /\ green = {}
  /\ seen = [a \in Attempts |-> Absent]
  /\ event = [a \in Attempts |-> "none"]
  /\ tree = [c \in Commits |-> {c}]
  /\ branch = Absent
  /\ base = 0
  /\ guarded \in BOOLEAN
  /\ overdue = [a \in Attempts |-> 0]
  /\ faults = 0

Fault == faults < MaxFaults /\ faults' = faults + 1
Go(a, place) == at' = [at EXCEPT ![a] = place]

(* A publication throws: the run fails, or, if an unfenced stop has reached  *)
(* the runner, cancelledWithWorktree publishes its commits once more, without *)
(* the base.                                                                 *)
Fails(a) ==
  \/ Go(a, "over") /\ UNCHANGED green
  \/ stop[a] = "open" /\ Go(a, "push permit") /\ green' = green \ {a}

-----------------------------------------------------------------------------
(* The server.                                                             *)

\* Mutant: a retry trusts the commit of the stopped attempt although its
\* publication was never recorded.
expectedRevisionUnrecorded(a) == IF a > 1 /\ run[a - 1] = "stopped" THEN a - 1 ELSE head

(* Phase4Coordinator.schedule: a retry starts from what the stopped attempt  *)
(* is recorded to have published, everything else from the observed head.    *)
expectedRevision(a) ==
  IF a > 1 /\ run[a - 1] = "stopped" /\ (a - 1) \in published THEN a - 1 ELSE head

schedule(a) ==
  /\ run[a] = "none"
  /\ a > 1 => run[a - 1] \in {"succeeded", "stopped"}
  /\ run' = [run EXCEPT ![a] = "live"]
  /\ tree' = [tree EXCEPT ![a] = {a} \union tree[expectedRevision(a)]]
  /\ Go(a, "working")
  /\ UNCHANGED <<stop, published, head, permit, green, seen, event,
                 branch, base, overdue, guarded, faults>>

(* The run of an attempt ends at the server: behind its last event, or at    *)
(* any moment by a deadline or an orphan sweep while the runner works on.    *)
runEnds(a) ==
  /\ run[a] = "live"
  /\ \E s \in {"succeeded", "stopped"} :
       /\ s = "succeeded" => a \in green /\ at[a] = "reported" /\ event[a] = "none"
       /\ run' = [run EXCEPT ![a] = s]
  /\ UNCHANGED <<stop, published, head, permit, runnerVars, remoteVars,
                 guarded, faults>>

(* The row that stops a live run.  A project stop fences its publication, a  *)
(* watchdog stop does not; a revocation fences what was stopped before.      *)
requestStop(a) ==
  /\ run[a] = "live"
  /\ \/ stop[a] = "none" /\ stop' = [stop EXCEPT ![a] = "open"]
     \/ stop[a] \in {"none", "open"} /\ stop' = [stop EXCEPT ![a] = "fenced"]
  /\ UNCHANGED <<run, published, head, permit, runnerVars, remoteVars, guarded, faults>>

reauthorizePublication(a) ==
  /\ stop[a] = "fenced"
  /\ stop' = [stop EXCEPT ![a] = "reauthorized"]
  /\ overdue' = [overdue EXCEPT ![a] = 0]
  /\ UNCHANGED <<run, published, head, permit, runnerVars, tree, branch, base, guarded,
                 faults>>

(* The scope both the issue and the consumption of a permit revalidate.      *)
authorizedPublicationScope(a) == run[a] = "live" /\ stop[a] # "fenced"

(* DevicePublicationPermitService.issue *)
issue(a) ==
  /\ guarded /\ a \notin permit
  /\ at[a] \in {"push permit", "force permit", "base permit"}
  /\ authorizedPublicationScope(a)
  /\ permit' = permit \union {a}
  /\ UNCHANGED <<run, stop, published, head, runnerVars, remoteVars,
                 guarded, faults>>

(* What a publisher does once its guard has let it through.                  *)
Guards == [p \in {"push permit", "force permit", "base permit"} |->
             CASE p = "push permit"  -> "push"
               [] p = "force permit" -> "force"
               [] p = "base permit"  -> "base"]

(* DevicePublicationPermitService.consume, and the push that follows it.     *)
consume(a) ==
  /\ a \in permit
  /\ authorizedPublicationScope(a)
  /\ permit' = permit \ {a}
  /\ Go(a, Guards[at[a]])
  /\ UNCHANGED <<run, stop, published, head, green, seen, event,
                 remoteVars, guarded, faults>>

(* The plain publisher has no guard.                                         *)
unguarded(a) ==
  /\ ~guarded /\ at[a] \in DOMAIN Guards
  /\ Go(a, Guards[at[a]])
  /\ UNCHANGED <<serverVars, green, seen, event, remoteVars, guarded, faults>>

(* No permit: issue or consumption is refused, the permit expires or a call  *)
(* times out.  Whatever was pushed before stays, and the run fails.          *)
permitRefused(a) ==
  /\ guarded /\ at[a] \in DOMAIN Guards
  /\ \/ ~authorizedPublicationScope(a) /\ UNCHANGED faults
     \/ Fault
  /\ permit' = permit \ {a}
  /\ Fails(a)
  /\ UNCHANGED <<run, stop, published, head, seen, event, remoteVars, guarded>>

(* Phase4EventProcessor, run_published.  The events of a run with a          *)
(* cancellation row are refused; those of a superseded run are not.          *)
applyPublished(a) ==
  /\ event[a] # "none"
  /\ stop[a] = "none"
  /\ event' = [event EXCEPT ![a] = "none"]
  /\ published' = published \union {a}
  /\ head' = IF event[a] = "integrated" THEN a ELSE head
  /\ UNCHANGED <<run, stop, permit, at, green, seen, remoteVars,
                 guarded, faults>>

-----------------------------------------------------------------------------
(* The runner and the remote.                                              *)

Publishing(a) == at[a] \notin {"idle", "reported", "over"}

(* The agent has committed.  Red, unfinished and cancelled work is published *)
(* too, but only a completed and verified run moves the base.                *)
committed(a) ==
  /\ at[a] = "working"
  /\ Go(a, "push permit")
  /\ \/ UNCHANGED green
     \/ green' = green \union {a}
  /\ UNCHANGED <<serverVars, seen, event, remoteVars, guarded, faults>>

(* The fence reaches the runner and aborts what it does: every wait of the   *)
(* publisher throws, and a git process is killed, unless it was faster.      *)
fenceArrives(a) ==
  /\ stop[a] \in {"fenced", "reauthorized"}
  /\ Publishing(a)
  /\ Go(a, "over")
  /\ permit' = permit \ {a}
  /\ UNCHANGED <<run, stop, published, head, green, seen, event, remoteVars, guarded,
                 faults>>

(* The daemon dies, its event buffer stays; or a git call has no effect.     *)
runnerDies(a) ==
  /\ Publishing(a) /\ Fault
  /\ IF at[a] \in {"push", "tip", "force"} THEN Fails(a)
     ELSE Go(a, "over") /\ UNCHANGED green
  /\ permit' = permit \ {a}
  /\ UNCHANGED <<run, stop, published, head, seen, event, remoteVars, guarded>>

(* A write of a by one of its git processes.                                 *)
Writes(a) ==
  overdue' = [overdue EXCEPT ![a] = IF guarded /\ ~authorizedPublicationScope(a)
                                     THEN @ + 1 ELSE @]

\* Mutant: the advance of the base uses the permit of the branch push.
OnceOnBranchUnguarded(a) == IF a \in green THEN "base" ELSE "published"

(* GitPublisher.publish, once the branch is pushed.                          *)
OnceOnBranch(a) == IF a \in green THEN "base permit" ELSE "published"

(* GitPublisher.push: an ordinary push, accepted when it is a fast-forward.  *)
(* If its answer is lost, or it is rejected, the publisher asks for the tip. *)
(* A push or a question that fails without effect ends like runnerDies.      *)
push(a) ==
  /\ at[a] = "push"
  /\ \/ /\ branch = Absent \/ branch \in tree[a]
        /\ branch' = a /\ Writes(a)
        /\ \/ Go(a, OnceOnBranch(a)) /\ UNCHANGED faults
           \/ Go(a, "tip") /\ Fault
     \/ /\ branch # Absent /\ branch \notin tree[a]
        /\ Go(a, "tip")
        /\ UNCHANGED <<branch, overdue, faults>>
  /\ UNCHANGED <<serverVars, green, seen, event, tree, base, guarded>>

\* Mutant: the forced retry uses the permit of the first push.
remoteTipUnguarded(a) ==
  /\ at[a] = "tip"
  /\ IF branch = a
     THEN Go(a, OnceOnBranch(a)) /\ UNCHANGED seen
     ELSE Go(a, "force") /\ seen' = [seen EXCEPT ![a] = branch]
  /\ UNCHANGED <<serverVars, green, event, remoteVars, guarded, faults>>

(* remoteTip, and the decision it is read for.                               *)
remoteTip(a) ==
  /\ at[a] = "tip"
  /\ IF branch = a
     THEN Go(a, OnceOnBranch(a)) /\ UNCHANGED seen
     ELSE Go(a, "force permit") /\ seen' = [seen EXCEPT ![a] = branch]
  /\ UNCHANGED <<serverVars, green, event, remoteVars, guarded, faults>>

(* The forced push, with a lease on the tip that was read.                   *)
force(a) ==
  /\ at[a] = "force"
  /\ IF branch = seen[a]
     THEN /\ branch' = a /\ Writes(a)
          /\ \/ Go(a, OnceOnBranch(a)) /\ UNCHANGED <<green, faults>>
             \/ Fails(a) /\ Fault
     ELSE Fails(a) /\ UNCHANGED <<branch, overdue, faults>>
  /\ UNCHANGED <<serverVars, seen, event, tree, base, guarded>>

(* integrateIntoBase: a fast-forward of the base.  If the answer is lost the *)
(* tip decides; if that cannot be read either, it is reported as a conflict. *)
integrateIntoBase(a) ==
  /\ at[a] = "base"
  /\ IF base \in tree[a]
     THEN /\ base' = a /\ Writes(a)
          /\ \/ Go(a, "integrated") /\ UNCHANGED faults
             \/ Go(a, "published") /\ Fault
     ELSE Go(a, "published") /\ UNCHANGED <<base, overdue, faults>>
  /\ UNCHANGED <<serverVars, green, seen, event, tree, branch, guarded>>

(* publishedEvent, behind the pull request.                                  *)
report(a) ==
  /\ at[a] \in {"published", "integrated"}
  /\ Go(a, "reported")
  /\ event' = [event EXCEPT ![a] = at[a]]
  /\ UNCHANGED <<serverVars, green, seen, remoteVars, guarded, faults>>

Next ==
  \E a \in Attempts :
    \/ schedule(a) \/ runEnds(a) \/ requestStop(a) \/ reauthorizePublication(a)
    \/ issue(a) \/ consume(a) \/ unguarded(a) \/ permitRefused(a) \/ applyPublished(a)
    \/ committed(a) \/ fenceArrives(a) \/ push(a) \/ remoteTip(a) \/ force(a)
    \/ integrateIntoBase(a) \/ report(a) \/ runnerDies(a)

Spec == Init /\ [][Next]_vars
-----------------------------------------------------------------------------
(* A run that was fenced, or ended at the server, while its runner was       *)
(* publishing writes to the remote at most once more: by the push whose      *)
(* permit was consumed before (publicationPermits.ts, "immediately before").  *)
StoppedRunWritesOnce == guarded => \A a \in Attempts : overdue[a] <= 1

(* The commit of an attempt on the task's branch is never replaced by that   *)
(* of an earlier attempt, however late its publisher gets there.             *)
NewerWorkStep == guarded /\ branch \in Attempts => branch' >= branch
NewerWorkStands == [][NewerWorkStep]_vars

(* The head that dispatch starts attempts from only moves to work built on   *)
(* it, though publications are reported late and out of order.               *)
HeadStep == head \in tree'[head']
HeadMovesForward == [][HeadStep]_vars
=============================================================================
