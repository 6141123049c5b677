-------------------------- MODULE ExecutionProofs --------------------------
(***************************************************************************)
(* TLAPS proofs about Execution, for every set of tasks, owners and bounds. *)
(***************************************************************************)
EXTENDS Execution, FiniteSetTheorems, SequenceTheorems, TLAPS

(* A run is a task and an attempt number. *)
LEMMA RunsFacts ==
  /\ \A r \in Runs : r[1] \in Tasks /\ r[2] \in 1..MaxAttempts /\ r = <<r[1], r[2]>>
  /\ \A t \in Tasks, n \in 1..MaxAttempts : <<t, n>> \in Runs
BY DEF Runs

(* There are finitely many runs. *)
LEMMA FiniteRuns == IsFiniteSet(Runs)
<1>1. IsFiniteSet(1..MaxAttempts)
  BY ConstantsAssumption, FS_Interval
<1>2. IsFiniteSet(Tasks)
  BY ConstantsAssumption
<1> QED
  BY <1>1, <1>2, FS_Product DEF Runs

(* Any set of runs can be ordered, and its orderings are sequences. *)
LEMMA OrderingsAreSequences ==
  ASSUME NEW S \in SUBSET Runs, NEW order \in Orderings(S)
  PROVE  /\ Cardinality(S) \in Nat
         /\ DOMAIN order = 1..Cardinality(S)
         /\ \A i \in DOMAIN order : order[i] \in S
<1>1. IsFiniteSet(S)
  BY FiniteRuns, FS_Subset
<1>2. Cardinality(S) \in Nat
  BY <1>1, FS_CardinalityType
<1> QED
  BY <1>2 DEF Orderings

(* Removing one element of a buffer leaves a buffer. *)
LEMMA RemovalIsSequence ==
  ASSUME NEW E, NEW s \in Seq(E), NEW i \in DOMAIN s
  PROVE  [j \in 1..(Len(s) - 1) |-> IF j < i THEN s[j] ELSE s[j + 1]] \in Seq(E)
<1>1. Len(s) \in Nat /\ DOMAIN s = 1..Len(s)
  OBVIOUS
<1>2. Len(s) - 1 \in Nat
  BY <1>1
<1>3. \A j \in 1..(Len(s) - 1) : (IF j < i THEN s[j] ELSE s[j + 1]) \in E
  BY <1>1
<1> QED
  BY <1>2, <1>3

(* The events the runner buffers are well formed. *)
LEMMA EventTypes ==
  ASSUME NEW r \in Runs
  PROVE  /\ \A s \in Executions \ {"none"} : Ack(r, s) \in Events
         /\ \A s \in {"started", "completed", "failed", "cancelled"} : Status(r, s) \in Events
         /\ \A s \in {"passed", "failed"} : Verification(r, s) \in Events
BY DEF Ack, Status, Verification, Events

-----------------------------------------------------------------------------
(* Type correctness, one lemma per process.                                   *)

(* A lifecycle table never leaves its set of states, so what the scheduler   *)
(* writes is well typed.                                                     *)
LEMMA SchedulingTypes == TypeOK /\ Scheduling => TypeOK'
<1> SUFFICES ASSUME TypeOK, Scheduling PROVE TypeOK'
  OBVIOUS
<1> USE RunsFacts, ConstantsAssumption DEF rowVars, jobVars, linkVars, runnerVars
<1>1. ASSUME NEW t \in Tasks, schedule(t) PROVE TypeOK'
  <2>1. designated[t] + 1 \in 1..MaxAttempts
    BY <1>1 DEF schedule, TypeOK
  <2>2. <<t, designated[t] + 1>> \in Runs
    BY <2>1
  <2>3. phase' \in PhaseStates /\ task' \in [Tasks -> V2TaskState]
    BY <1>1 DEF schedule, TypeOK, PhaseStates, V2TaskState
  <2>4. designated' \in [Tasks -> 0..MaxAttempts]
    BY <1>1, <2>1 DEF schedule, TypeOK
  <2>5. run' \in [Runs -> {"none"} \cup V2AgentRunState]
    BY <1>1, <2>2 DEF schedule, TypeOK, V2AgentRunState
  <2>6. /\ reservation' \in [Runs -> ReservationStates]
        /\ command' \in [Runs -> CommandStates]
        /\ job' \in [Runs -> JobStates]
    BY <1>1, <2>2 DEF schedule, TypeOK, ReservationStates, CommandStates, JobStates
  <2> QED
    BY <1>1, <2>3, <2>4, <2>5, <2>6 DEF schedule, TypeOK
<1>2. ASSUME NEW t \in Tasks, startPhase(t) \/ Rework(t) PROVE TypeOK'
  BY <1>1, <1>2 DEF startPhase, Rework
<1>3. ASSUME NEW t \in Tasks, ReworkRefused(t) PROVE TypeOK'
  BY <1>3 DEF ReworkRefused, TypeOK, PhaseStates
<1>4. ASSUME NEW t \in Tasks, retryOnce(t) PROVE TypeOK'
  BY <1>4 DEF retryOnce, TypeOK, PhaseStates, V2TaskState
<1>5. ASSUME NEW t \in Tasks, cancelOnce(t) PROVE TypeOK'
  BY <1>5 DEF cancelOnce, TypeOK, PhaseStates, V2TaskState
<1>6. ASSUME NEW t \in Tasks, complete(t) PROVE TypeOK'
  <2>1. Designated(t) \in Runs
    BY <1>6 DEF complete, Designated, TypeOK
  <2> QED
    BY <1>6, <2>1 DEF complete, TypeOK, PhaseStates, V2TaskState, ReservationStates
<1> QED
  BY <1>2, <1>3, <1>4, <1>5, <1>6 DEF Scheduling

(* The dispatcher keeps the types.                                           *)
LEMMA DispatchingTypes == TypeOK /\ Dispatching => TypeOK'
<1> SUFFICES ASSUME TypeOK, Dispatching PROVE TypeOK'
  OBVIOUS
<1> USE RunsFacts, ConstantsAssumption DEF rowVars, jobVars, linkVars, runnerVars
<1>1. ASSUME NEW o \in Owners, claimed[o] # None PROVE claimed[o] \in Claims
  BY <1>1 DEF TypeOK
<1>2. ASSUME NEW o \in Owners, NEW r \in Runs, claim(o, r) PROVE TypeOK'
  <2>1. [run |-> r, attempts |-> attempts[r] + 1, failed |-> FALSE] \in Claims
    BY DEF Claims, TypeOK
  <2>2. claimed' \in [Owners -> Claims \cup {None}]
    BY <1>2, <2>1 DEF claim, TypeOK
  <2>3. /\ job' \in [Runs -> JobStates] /\ lease' \in [Runs -> Owners \cup {None}]
        /\ leaseLapsed' \subseteq Runs
    BY <1>2 DEF claim, TypeOK, JobStates
  <2>4. attempts' \in [Runs -> Nat]
    BY <1>2 DEF claim, TypeOK
  <2> QED
    BY <1>2, <2>2, <2>3, <2>4 DEF claim, TypeOK
<1>3. ASSUME NEW o \in Owners, deliverClaimed(o) PROVE TypeOK'
  <2>1. claimed[o].run \in Runs
    BY <1>1, <1>3 DEF deliverClaimed, Claims
  <2>2. wire' \in [Runs -> Nat]
    <3>1. wire \in [Runs -> Nat]
      BY ONLY TypeOK DEF TypeOK
    <3>2. wire' = [wire EXCEPT ![claimed[o].run] = wire[claimed[o].run] + 1]
      BY ONLY <1>3 DEF deliverClaimed
    <3> QED
      BY ONLY <2>1, <3>1, <3>2
  <2>3. /\ job' \in [Runs -> JobStates] /\ lease' \in [Runs -> Owners \cup {None}]
        /\ leaseLapsed' \subseteq Runs /\ claimed' \in [Owners -> Claims \cup {None}]
    BY <1>3, <2>1 DEF deliverClaimed, markDelivered, TypeOK, JobStates
  <2>4. /\ command' \in [Runs -> CommandStates]
        /\ run' \in [Runs -> {"none"} \cup V2AgentRunState]
    BY <1>3, <2>1 DEF deliverClaimed, markDelivered, TypeOK, CommandStates, V2AgentRunState
  <2> QED
    BY <1>3, <2>2, <2>3, <2>4 DEF deliverClaimed, TypeOK
<1>4. ASSUME NEW o \in Owners, deliveryThrows(o) PROVE TypeOK'
  <2>1. /\ claimed[o].run \in Runs
        /\ [run |-> claimed[o].run, attempts |-> claimed[o].attempts, failed |-> TRUE]
             \in Claims
    BY <1>1, <1>4 DEF deliveryThrows, Claims
  <2>2. wire' \in [Runs -> Nat] /\ faults' \in 0..MaxFaults
    <3>1. \/ wire' = wire
          \/ wire' = [wire EXCEPT ![claimed[o].run] = @ + 1]
      BY <1>4 DEF deliveryThrows
    <3>2. faults' = faults \/ (faults < MaxFaults /\ faults' = faults + 1)
      BY <1>4 DEF deliveryThrows, Fault
    <3>3. wire \in [Runs -> Nat]
      BY DEF TypeOK
    <3>5. wire' \in [Runs -> Nat]
      BY <3>1, <3>3, <2>1
    <3>4. faults' \in 0..MaxFaults
      BY <3>2 DEF TypeOK
    <3> QED
      BY <3>5, <3>4
  <2>3. claimed' \in [Owners -> Claims \cup {None}]
    BY <1>4, <2>1 DEF deliveryThrows, TypeOK
  <2> QED
    BY <1>4, <2>2, <2>3 DEF deliveryThrows, TypeOK
<1>5. ASSUME NEW o \in Owners, retry(o) PROVE TypeOK'
  <2>1. claimed[o].run \in Runs
    BY <1>1, <1>5 DEF retry, Claims
  <2> QED
    BY <1>5, <2>1 DEF retry, TypeOK, JobStates
<1>6. ASSUME NEW o \in Owners, deadLetter(o) PROVE TypeOK'
  <2>1. claimed[o].run \in Runs
    BY <1>1, <1>6 DEF deadLetter, Claims
  <2> QED
    BY <1>6, <2>1 DEF deadLetter, TypeOK, JobStates, CommandStates, Dead, V2AgentRunState,
       V2TaskState, ReservationStates
<1>7. ASSUME NEW o \in Owners, settlementThrows(o) PROVE TypeOK'
  BY <1>7 DEF settlementThrows, TypeOK
<1>8. ASSUME NEW o \in Owners, ServerCrash(o) PROVE TypeOK'
  <2>1. faults' \in 0..MaxFaults
    BY <1>8 DEF ServerCrash, Fault, TypeOK
  <2>2. wire' \in [Runs -> Nat] /\ connected' \in BOOLEAN
    BY <1>8 DEF ServerCrash, Drop
  <2>3. scan' \in [at: {"idle", "expiring", "sweeping"}, todo: SUBSET Runs]
    BY <1>8 DEF ServerCrash
  <2> QED
    BY <1>8, <2>1, <2>2, <2>3 DEF ServerCrash, TypeOK
<1>9. ASSUME NEW r \in Runs, LeaseLapses(r) PROVE TypeOK'
  <2>1. faults' \in 0..MaxFaults
    BY <1>9 DEF LeaseLapses, Fault, TypeOK
  <2> QED
    BY <1>9, <2>1 DEF LeaseLapses, TypeOK
<1> QED
  BY <1>2, <1>3, <1>4, <1>5, <1>6, <1>7, <1>8, <1>9 DEF Dispatching

(* Recovery, by monitor and by hand, keeps the types.                        *)
LEMMA RecoveringTypes == TypeOK /\ Recovering => TypeOK'
<1> SUFFICES ASSUME TypeOK, Recovering PROVE TypeOK'
  OBVIOUS
<1> USE RunsFacts, ConstantsAssumption DEF rowVars, jobVars, linkVars, runnerVars
<1>1. CASE scanStart
  BY <1>1 DEF scanStart, StaleDispatches, TypeOK
<1>2. CASE scanRelease
  BY <1>2 DEF scanRelease, findOrphanCandidates, TypeOK, PhaseStates
<1>3. ASSUME NEW r \in Runs, Expires(r) PROVE TypeOK'
  BY <1>3 DEF Expires, TypeOK
<1>4. ASSUME NEW r \in Runs, expireStaleDispatch(r) PROVE TypeOK'
  BY <1>4 DEF expireStaleDispatch, TypeOK, V2AgentRunState, V2TaskState
<1>5. ASSUME NEW r \in Runs, sweepResolve(r) PROVE TypeOK'
  BY <1>5 DEF sweepResolve, TypeOK, ReservationStates
<1> QED
  BY <1>1, <1>2, <1>3, <1>4, <1>5 DEF Recovering

(* Consuming an event shortens the buffer. *)
LEMMA ConsumeTypes ==
  ASSUME TypeOK, NEW i \in DOMAIN outbox, Consume(i)
  PROVE  /\ outbox' \in Seq(Events)
         /\ outbox[i] \in Events /\ outbox[i].run \in Runs /\ outbox[i].run[1] \in Tasks
         /\ outbox[i].kind = "command_ack" => outbox[i].value \in Executions \ {"none"}
         /\ outbox[i].kind = "verification_result" => outbox[i].value \in {"passed", "failed"}
<1>1. outbox \in Seq(Events)
  BY DEF TypeOK
<1>2. outbox' \in Seq(Events)
  BY <1>1, RemovalIsSequence DEF Consume
<1>3. outbox[i] \in Events
  BY <1>1
<1> QED
  BY <1>2, <1>3, RunsFacts DEF Events

(* The runner keeps the types.                                               *)
LEMMA RunningTypes == TypeOK /\ Running => TypeOK'
<1> SUFFICES ASSUME TypeOK, Running PROVE TypeOK'
  OBVIOUS
<1> USE ConstantsAssumption DEF rowVars, jobVars, linkVars, runnerVars
<1>1. ASSUME NEW r \in Runs, Arrives(r)
      PROVE  wire' \in [Runs -> Nat]
  BY <1>1 DEF Arrives, TypeOK
<1>2. ASSUME NEW r \in Runs, handleRecorded(r) PROVE TypeOK'
  <2>1. Ack(r, "executing") \in Events
    BY EventTypes DEF Executions
  <2>2. outbox' \in Seq(Events)
    BY <1>2, <2>1 DEF handleRecorded, TypeOK
  <2> QED
    BY <1>1, <1>2, <2>2 DEF handleRecorded, Arrives, TypeOK
<1>3. ASSUME NEW r \in Runs, handleRefused(r) PROVE TypeOK'
  <2>1. PICK s \in {"expired", "rejected"} :
          /\ executed' = [executed EXCEPT ![r] = s]
          /\ outbox' = Append(outbox, Ack(r, s))
    BY <1>3 DEF handleRefused
  <2>2. Ack(r, s) \in Events /\ s \in Executions
    BY EventTypes DEF Executions, Dead
  <2>3. outbox' \in Seq(Events) /\ executed' \in [Runs -> Executions]
    BY <2>1, <2>2 DEF TypeOK
  <2> QED
    BY <1>1, <1>3, <2>3 DEF handleRefused, Arrives, TypeOK
<1>4. ASSUME NEW r \in Runs, handleLaunch(r) PROVE TypeOK'
  <2>1. Ack(r, "executing") \in Events
    BY EventTypes DEF Executions
  <2>2. outbox' \in Seq(Events)
    BY <1>4, <2>1 DEF handleLaunch, TypeOK
  <2>3. /\ executed' \in [Runs -> Executions]
        /\ stage' \in [Runs -> {"idle"} \cup LiveStages \cup FinalStages]
    BY <1>4 DEF handleLaunch, TypeOK, Executions, LiveStages
  <2> QED
    BY <1>1, <1>4, <2>2, <2>3 DEF handleLaunch, Arrives, TypeOK
<1>5. ASSUME NEW r \in Runs, NEW from, NEW to \in LiveStages \cup FinalStages,
             NEW emitted \in Seq(Events), Advance(r, from, to, emitted)
      PROVE  TypeOK'
  <2>1. outbox' \in Seq(Events)
    BY <1>5 DEF Advance, TypeOK
  <2>2. stage' \in [Runs -> {"idle"} \cup LiveStages \cup FinalStages]
    BY <1>5 DEF Advance, TypeOK
  <2> QED
    BY <1>5, <2>1, <2>2 DEF Advance, TypeOK
<1>6. ASSUME NEW r \in Runs,
             \/ started(r) \/ verified(r) \/ published(r) \/ emitFailure(r)
             \/ bootstrapThrows(r) \/ cancelledRun(r)
      PROVE  TypeOK'
  <2> DEFINE Emits(e) == \E from, to : to \in LiveStages \cup FinalStages /\ Advance(r, from, to, e)
  <2>1. \/ Emits(<<Status(r, "started")>>) \/ Emits(<<Verification(r, "passed")>>)
        \/ Emits(<<Verification(r, "failed")>>) \/ Emits(<<Status(r, "completed")>>)
        \/ Emits(<<Status(r, "failed")>>) \/ Emits(<<>>) \/ Emits(<<Status(r, "cancelled")>>)
    BY <1>6 DEF started, verified, published, emitFailure, bootstrapThrows, cancelledRun,
       LiveStages, FinalStages
  <2>2. /\ <<Status(r, "started")>> \in Seq(Events) /\ <<Status(r, "completed")>> \in Seq(Events)
        /\ <<Status(r, "failed")>> \in Seq(Events) /\ <<Status(r, "cancelled")>> \in Seq(Events)
        /\ <<Verification(r, "passed")>> \in Seq(Events)
        /\ <<Verification(r, "failed")>> \in Seq(Events) /\ <<>> \in Seq(Events)
    BY EventTypes
  <2>3. ASSUME NEW e \in Seq(Events), Emits(e) PROVE TypeOK'
    BY <1>5, <2>3
  <2> HIDE DEF Emits
  <2> QED
    BY <2>1, <2>2, <2>3
<1>7. ASSUME NEW r \in Runs, settled(r) PROVE TypeOK'
  <2>1. stage[r] \in Executions \ {"none"}
    BY <1>7 DEF settled, FinalStages, Executions, Dead
  <2>2. Ack(r, stage[r]) \in Events
    BY <2>1, EventTypes
  <2>3. outbox' \in Seq(Events)
    BY <1>7, <2>2 DEF settled, TypeOK
  <2>4. /\ executed' \in [Runs -> Executions]
        /\ stage' \in [Runs -> {"idle"} \cup LiveStages \cup FinalStages]
    BY <1>7, <2>1 DEF settled, TypeOK
  <2> QED
    BY <1>7, <2>3, <2>4 DEF settled, TypeOK
<1>8. CASE emergencyStop
  BY <1>8 DEF emergencyStop, Fault, TypeOK
<1>9. CASE RunnerRestart
  <2>1. faults' \in 0..MaxFaults
    BY <1>9 DEF RunnerRestart, Fault, TypeOK
  <2>2. wire' \in [Runs -> Nat] /\ connected' \in BOOLEAN /\ paused' \in BOOLEAN
    BY <1>9 DEF RunnerRestart, Drop
  <2>3. stage' \in [Runs -> {"idle"} \cup LiveStages \cup FinalStages]
    BY <1>9 DEF RunnerRestart
  <2> QED
    BY <1>9, <2>1, <2>2, <2>3 DEF RunnerRestart, TypeOK
<1>10. CASE Disconnect
  <2>1. faults' \in 0..MaxFaults
    BY <1>10 DEF Disconnect, Fault, TypeOK
  <2>2. wire' \in [Runs -> Nat] /\ connected' \in BOOLEAN
    BY <1>10 DEF Disconnect, Drop
  <2> QED
    BY <1>10, <2>1, <2>2 DEF Disconnect, TypeOK
<1>11. CASE Reconcile
  <2> DEFINE orphaned == {r \in Runs : executed[r] = "executing" /\ stage[r] = "idle"}
  <2>1. PICK order \in Orderings(orphaned) :
          outbox' = outbox \o [i \in DOMAIN order |-> Ack(order[i], "failed")]
    BY <1>11 DEF Reconcile
  <2>2. \A i \in DOMAIN order : order[i] \in Runs
    BY OrderingsAreSequences
  <2>3. \A i \in DOMAIN order : Ack(order[i], "failed") \in Events
    BY <2>2, EventTypes DEF Executions, Dead
  <2>4. Cardinality(orphaned) \in Nat /\ DOMAIN order = 1..Cardinality(orphaned)
    BY OrderingsAreSequences
  <2>5. [i \in DOMAIN order |-> Ack(order[i], "failed")] \in Seq(Events)
    <3> HIDE DEF orphaned
    <3>1. PICK n \in Nat : DOMAIN order = 1..n
      BY <2>4
    <3>2. [i \in 1..n |-> Ack(order[i], "failed")] \in Seq(Events)
      BY <2>3, <3>1
    <3> QED
      BY <3>1, <3>2
  <2>6. outbox' \in Seq(Events)
    <3>1. outbox \in Seq(Events)
      BY DEF TypeOK
    <3> HIDE DEF orphaned
    <3> QED
      BY <2>1, <2>5, <3>1, ConcatProperties
  <2>7. executed' \in [Runs -> Executions]
    BY <1>11 DEF Reconcile, TypeOK, Executions, Dead
  <2>8. wire' \in [Runs -> Nat] /\ connected' \in BOOLEAN
    BY <1>11 DEF Reconcile
  <2> QED
    BY <1>11, <2>6, <2>7, <2>8 DEF Reconcile, TypeOK
<1> QED
  BY <1>2, <1>3, <1>4, <1>6, <1>7, <1>8, <1>9, <1>10, <1>11 DEF Running

(* The event processor keeps the types.                                      *)
LEMMA ApplyingTypes == TypeOK /\ Applying => TypeOK'
<1> SUFFICES ASSUME TypeOK, Applying PROVE TypeOK'
  OBVIOUS
<1> USE DEF rowVars, jobVars, linkVars, runnerVars
<1>1. ASSUME NEW i \in DOMAIN outbox, applyCommandAck(i) PROVE TypeOK'
  <2> DEFINE e == outbox[i]  r == e.run  s == e.value
  <2>1. Consume(i) /\ e.kind = "command_ack"
    BY <1>1 DEF applyCommandAck
  <2>2. outbox' \in Seq(Events) /\ r \in Runs /\ r[1] \in Tasks /\ s \in Executions \ {"none"}
    BY <2>1, ConsumeTypes
  <2> HIDE DEF e
  <2>3. command' \in [Runs -> CommandStates]
    <3>1. command' = [command EXCEPT ![r] = s]
      BY <1>1 DEF applyCommandAck, e
    <3>2. s \in CommandStates
      BY <2>2 DEF CommandStates, Executions
    <3> QED
      BY <2>2, <3>1, <3>2 DEF TypeOK
  <2>4. job' \in [Runs -> JobStates] /\ reservation' \in [Runs -> ReservationStates]
    <3>1. job' = job \/ job' = [job EXCEPT ![r] = IF @ = "delivered" THEN "completed" ELSE @]
      BY <1>1 DEF applyCommandAck, e
    <3>2. \/ reservation' = reservation
          \/ \E x \in ReservationStates : reservation' = [reservation EXCEPT ![r] = x]
      BY <1>1, <2>2 DEF applyCommandAck, settleTerminalUsage, TypeOK, ReservationStates, e
    <3>5. job \in [Runs -> JobStates]
      BY DEF TypeOK
    <3>3. job' \in [Runs -> JobStates]
      BY <2>2, <3>1, <3>5 DEF JobStates
    <3>4. reservation' \in [Runs -> ReservationStates]
      BY <2>2, <3>2 DEF TypeOK
    <3> QED
      BY <3>3, <3>4
  <2>5. run' \in [Runs -> {"none"} \cup V2AgentRunState]
    <3>1. runAfterAck(r, s) \in {"none"} \cup V2AgentRunState
      BY <2>2 DEF runAfterAck, TypeOK, V2AgentRunState
    <3>2. run' = run \/ run' = [run EXCEPT ![r] = runAfterAck(r, s)]
      BY <1>1 DEF applyCommandAck, e
    <3> QED
      BY <2>2, <3>1, <3>2 DEF TypeOK
  <2>6. task' \in [Tasks -> V2TaskState]
    <3>1. taskAfterAck(r[1], s) \in V2TaskState
      BY <2>2 DEF taskAfterAck, TypeOK, V2TaskState
    <3>2. task' = task \/ task' = [task EXCEPT ![r[1]] = taskAfterAck(r[1], s)]
      BY <1>1 DEF applyCommandAck, e
    <3> QED
      BY <2>2, <3>1, <3>2 DEF TypeOK
  <2> QED
    BY <1>1, <2>1, <2>2, <2>3, <2>4, <2>5, <2>6 DEF applyCommandAck, Consume, TypeOK
<1>2. ASSUME NEW i \in DOMAIN outbox, applyStarted(i) PROVE TypeOK'
  <2>1. Consume(i)
    BY <1>2 DEF applyStarted
  <2>2. outbox' \in Seq(Events) /\ outbox[i].run \in Runs /\ outbox[i].run[1] \in Tasks
    BY <2>1, ConsumeTypes
  <2>3. /\ run' \in [Runs -> {"none"} \cup V2AgentRunState]
        /\ task' \in [Tasks -> V2TaskState]
    BY <1>2, <2>2 DEF applyStarted, TypeOK, V2AgentRunState, V2TaskState
  <2> QED
    BY <1>2, <2>1, <2>2, <2>3 DEF applyStarted, Consume, TypeOK
<1>3. ASSUME NEW i \in DOMAIN outbox, applyVerification(i) PROVE TypeOK'
  <2>1. Consume(i) /\ outbox[i].kind = "verification_result"
    BY <1>3 DEF applyVerification
  <2>2. /\ outbox' \in Seq(Events) /\ outbox[i].run \in Runs /\ outbox[i].run[1] \in Tasks
        /\ outbox[i].value \in {"passed", "failed"}
    BY <2>1, ConsumeTypes
  <2>3. /\ run' \in [Runs -> {"none"} \cup V2AgentRunState]
        /\ task' \in [Tasks -> V2TaskState]
        /\ verification' \in [Runs -> {"pending", "passed", "failed"}]
    BY <1>3, <2>2 DEF applyVerification, TypeOK, V2AgentRunState, V2TaskState
  <2> QED
    BY <1>3, <2>1, <2>2, <2>3 DEF applyVerification, Consume, TypeOK
<1>4. ASSUME NEW i \in DOMAIN outbox, applyCompleted(i) PROVE TypeOK'
  <2>1. Consume(i)
    BY <1>4 DEF applyCompleted
  <2>2. outbox' \in Seq(Events) /\ outbox[i].run \in Runs /\ outbox[i].run[1] \in Tasks
    BY <2>1, ConsumeTypes
  <2>3. /\ run' \in [Runs -> {"none"} \cup V2AgentRunState]
        /\ task' \in [Tasks -> V2TaskState]
    BY <1>4, <2>2 DEF applyCompleted, TypeOK, V2AgentRunState, V2TaskState
  <2>4. reservation' \in [Runs -> ReservationStates]
    BY <1>4, <2>2 DEF applyCompleted, settleTerminalUsage, TypeOK, ReservationStates
  <2> QED
    BY <1>4, <2>1, <2>2, <2>3, <2>4 DEF applyCompleted, Consume, TypeOK
<1>5. ASSUME NEW i \in DOMAIN outbox, applyStopped(i) PROVE TypeOK'
  <2>1. Consume(i)
    BY <1>5 DEF applyStopped
  <2>2. outbox' \in Seq(Events) /\ outbox[i].run \in Runs /\ outbox[i].run[1] \in Tasks
    BY <2>1, ConsumeTypes
  <2>3. run' \in [Runs -> {"none"} \cup V2AgentRunState]
    BY <1>5, <2>2 DEF applyStopped, runAfterStatus, TypeOK, V2AgentRunState
  <2>4. task' \in [Tasks -> V2TaskState]
    BY <1>5, <2>2 DEF applyStopped, TypeOK, V2TaskState
  <2>5. reservation' \in [Runs -> ReservationStates]
    BY <1>5, <2>2 DEF applyStopped, settleTerminalUsage, TypeOK, ReservationStates
  <2> QED
    BY <1>5, <2>1, <2>2, <2>3, <2>4, <2>5 DEF applyStopped, Consume, TypeOK
<1>6. CASE rejectRunnerEvents
  <2>1. wire' \in [Runs -> Nat] /\ connected' \in BOOLEAN
    BY <1>6 DEF rejectRunnerEvents, Drop
  <2> QED
    BY <1>6, <2>1 DEF rejectRunnerEvents, TypeOK
<1> QED
  BY <1>1, <1>2, <1>3, <1>4, <1>5, <1>6 DEF Applying

(* The initial values have the types.                                        *)
LEMMA InitTypes == Init => TypeOK
<1> SUFFICES ASSUME Init PROVE TypeOK
  OBVIOUS
<1> USE DEF Init
<1>1. /\ phase \in PhaseStates /\ task \in [Tasks -> V2TaskState]
      /\ run \in [Runs -> {"none"} \cup V2AgentRunState]
      /\ verification \in [Runs -> {"pending", "passed", "failed"}]
      /\ reservation \in [Runs -> ReservationStates]
  BY DEF PhaseStates, V2TaskState, ReservationStates
<1>2. /\ job \in [Runs -> JobStates] /\ lease \in [Runs -> Owners \cup {None}]
      /\ leaseLapsed \subseteq Runs /\ command \in [Runs -> CommandStates]
      /\ lapsed \subseteq Runs /\ claimed \in [Owners -> Claims \cup {None}]
      /\ scan \in [at: {"idle", "expiring", "sweeping"}, todo: SUBSET Runs]
  BY DEF JobStates, CommandStates
<1>3. /\ connected \in BOOLEAN /\ paused \in BOOLEAN
      /\ executed \in [Runs -> Executions]
      /\ stage \in [Runs -> {"idle"} \cup LiveStages \cup FinalStages]
  BY DEF Executions
<1>4. /\ designated \in [Tasks -> 0..MaxAttempts] /\ attempts \in [Runs -> Nat]
      /\ wire \in [Runs -> Nat] /\ faults \in 0..MaxFaults /\ outbox \in Seq(Events)
  BY ConstantsAssumption
<1> QED
  BY <1>1, <1>2, <1>3, <1>4 DEF TypeOK

(* A step that changes nothing keeps the types.                              *)
LEMMA StutterTypes == TypeOK /\ UNCHANGED vars => TypeOK'
BY DEF vars, rowVars, jobVars, linkVars, runnerVars, TypeOK

(* Every step keeps the types.                                               *)
LEMMA NextTypes == TypeOK /\ [Next]_vars => TypeOK'
BY SchedulingTypes, DispatchingTypes, RecoveringTypes, RunningTypes, ApplyingTypes,
   StutterTypes DEF Next

(* Every state of Execution is well typed, for all values of the constants.  *)
THEOREM TypeCorrect == Spec => []TypeOK
<1>1. Init => TypeOK
  BY InitTypes
<1>2. TypeOK /\ [Next]_vars => TypeOK'
  BY NextTypes
<1> QED
  BY <1>1, <1>2, PTL DEF Spec

-----------------------------------------------------------------------------
(* The inductive invariant.                                                   *)

(* A run without a row has left no trace: no job, no frame on the wire, no   *)
(* record or execution on the runner, no dispatcher working on it and no     *)
(* event about it.                                                           *)
Traced ==
  /\ \A r \in Runs : run[r] = "none" =>
       job[r] = "none" /\ wire[r] = 0 /\ executed[r] = "none" /\ stage[r] = "idle"
  /\ \A o \in Owners : claimed[o] # None => run[claimed[o].run] # "none"
  /\ \A i \in DOMAIN outbox : run[outbox[i].run] # "none"

(* What every step but a schedule does to the run rows: it creates none,     *)
(* changes no terminal one, and occupies no slot that was free.              *)
RunsKeep ==
  /\ designated' = designated
  /\ \A r \in Runs :
       /\ run'[r] = "none" <=> run[r] = "none"
       /\ run[r] \in V2_TERMINAL_AGENT_RUN_STATES => run'[r] = run[r]
       /\ run'[r] \in Occupying => run[r] \in Occupying

(* A dispatch never revives, creates or occupies a run.                      *)
LEMMA DispatchingKeepsRuns == TypeOK /\ Dispatching => RunsKeep
<1> SUFFICES ASSUME TypeOK, Dispatching PROVE RunsKeep
  OBVIOUS
<1> USE DEF RunsKeep, rowVars
<1>1. ASSUME NEW o \in Owners, claimed[o] # None
      PROVE  claimed[o].run \in Runs
  BY <1>1 DEF TypeOK, Claims
<1>2. ASSUME UNCHANGED <<designated, run>> PROVE RunsKeep
  BY <1>2
<1>3. ASSUME NEW o \in Owners, deliverClaimed(o) PROVE RunsKeep
  BY <1>1, <1>3 DEF deliverClaimed, markDelivered, TypeOK, Occupying,
     V2_TERMINAL_AGENT_RUN_STATES
<1>4. ASSUME NEW o \in Owners, deadLetter(o) PROVE RunsKeep
  BY <1>1, <1>4 DEF deadLetter, TypeOK, Occupying, V2_TERMINAL_AGENT_RUN_STATES
<1> QED
  BY <1>2, <1>3, <1>4 DEF Dispatching, claim, deliveryThrows, retry, settlementThrows,
     ServerCrash, LeaseLapses

(* Recovery never revives, creates or occupies a run.                        *)
LEMMA RecoveringKeepsRuns == TypeOK /\ Recovering => RunsKeep
<1> SUFFICES ASSUME TypeOK, Recovering PROVE RunsKeep
  OBVIOUS
<1> USE DEF RunsKeep, rowVars
<1>1. ASSUME UNCHANGED <<designated, run>> PROVE RunsKeep
  BY <1>1
<1>2. ASSUME NEW r \in Runs, expireStaleDispatch(r) PROVE RunsKeep
  BY <1>2 DEF expireStaleDispatch, TypeOK, Occupying, V2_TERMINAL_AGENT_RUN_STATES
<1> QED
  BY <1>1, <1>2 DEF Recovering, scanStart, scanRelease, Expires, sweepResolve

(* The runner writes no rows.                                                *)
LEMMA RunningKeepsRuns == Running => RunsKeep
<1>1. Running => UNCHANGED rowVars
  BY DEF Running, handleRecorded, handleRefused, handleLaunch, Arrives, started, verified,
     published, emitFailure, bootstrapThrows, cancelledRun, Advance, settled, emergencyStop,
     RunnerRestart, Disconnect, Reconcile
<1> QED
  BY <1>1 DEF RunsKeep, rowVars

(* An event never revives, creates or occupies a run.                        *)
LEMMA ApplyingKeepsRuns == TypeOK /\ Traced /\ Applying => RunsKeep
<1> SUFFICES ASSUME TypeOK, Traced, Applying PROVE RunsKeep
  OBVIOUS
<1> USE DEF RunsKeep
<1>1. ASSUME NEW i \in DOMAIN outbox, Consume(i)
      PROVE  outbox[i].run \in Runs /\ run[outbox[i].run] # "none" /\ designated' = designated
  BY <1>1, ConsumeTypes DEF Traced, Consume
<1>2. ASSUME NEW i \in DOMAIN outbox, applyCommandAck(i) PROVE RunsKeep
  <2> DEFINE r == outbox[i].run
  <2>1. Consume(i)
    BY <1>2 DEF applyCommandAck
  <2>2. r \in Runs /\ run[r] # "none" /\ designated' = designated
    BY <1>1, <2>1
  <2>3. run' = run \/ run' = [run EXCEPT ![r] = runAfterAck(r, outbox[i].value)]
    BY <1>2 DEF applyCommandAck
  <2>4. \/ runAfterAck(r, outbox[i].value) = run[r]
        \/ /\ run[r] \notin V2_TERMINAL_AGENT_RUN_STATES
           /\ runAfterAck(r, outbox[i].value) \in {"cancelled", "expired", "failed"}
    BY DEF runAfterAck
  <2> HIDE DEF r
  <2> QED
    BY <2>2, <2>3, <2>4 DEF TypeOK, Occupying
<1>3. ASSUME NEW i \in DOMAIN outbox, applyStarted(i) PROVE RunsKeep
  <2>1. Consume(i)
    BY <1>3 DEF applyStarted
  <2> QED
    BY <1>1, <1>3, <2>1 DEF applyStarted, TypeOK, Occupying, V2_TERMINAL_AGENT_RUN_STATES
<1>4. ASSUME NEW i \in DOMAIN outbox, applyVerification(i) PROVE RunsKeep
  <2>1. Consume(i)
    BY <1>4 DEF applyVerification
  <2> QED
    BY <1>1, <1>4, <2>1 DEF applyVerification, TypeOK, Occupying, V2_TERMINAL_AGENT_RUN_STATES
<1>5. ASSUME NEW i \in DOMAIN outbox, applyCompleted(i) PROVE RunsKeep
  <2>1. Consume(i)
    BY <1>5 DEF applyCompleted
  <2> QED
    BY <1>1, <1>5, <2>1 DEF applyCompleted, TypeOK, Occupying, V2_TERMINAL_AGENT_RUN_STATES
<1>6. ASSUME NEW i \in DOMAIN outbox, applyStopped(i) PROVE RunsKeep
  <2>1. Consume(i)
    BY <1>6 DEF applyStopped
  <2> QED
    BY <1>1, <1>6, <2>1 DEF applyStopped, runAfterStatus, TypeOK, Occupying,
       V2_TERMINAL_AGENT_RUN_STATES
<1>7. CASE rejectRunnerEvents
  BY <1>7 DEF rejectRunnerEvents, rowVars
<1> QED
  BY <1>2, <1>3, <1>4, <1>5, <1>6, <1>7 DEF Applying

(* A schedule creates exactly the next attempt of its task, which had no row. *)
ScheduledRun(t) ==
  /\ designated[t] + 1 \in 1..MaxAttempts
  /\ designated' = [designated EXCEPT ![t] = @ + 1]
  /\ run' = [run EXCEPT ![<<t, designated[t] + 1>>] = "created"]
  /\ designated[t] > 0 => run[Designated(t)] \in V2_TERMINAL_AGENT_RUN_STATES
  /\ phase' = "active"

(* A launch and a rework schedule a run, and the attempt they supersede is    *)
(* over.                                                                      *)
LEMMA LaunchSchedules ==
  ASSUME TypeOK, NEW t \in Tasks, startPhase(t) \/ Rework(t)
  PROVE  schedule(t) /\ ScheduledRun(t)
<1>1. schedule(t)
  BY DEF startPhase, Rework
<1>2. designated[t] > 0 => run[Designated(t)] \in V2_TERMINAL_AGENT_RUN_STATES
  BY DEF startPhase, Rework, Retryable, V2_TERMINAL_AGENT_RUN_STATES
<1>3. designated[t] + 1 \in 1..MaxAttempts
  <2>1. designated[t] \in 0..MaxAttempts
    BY DEF TypeOK
  <2>2. designated[t] < MaxAttempts
    BY <1>1 DEF schedule
  <2> QED
    BY <2>1, <2>2, ConstantsAssumption
<1> QED
  BY <1>1, <1>2, <1>3 DEF schedule, ScheduledRun

(* Every other scheduling step leaves the run rows and designations alone.    *)
LEMMA SchedulingRuns ==
  TypeOK /\ Scheduling => RunsKeep \/ \E t \in Tasks : schedule(t) /\ ScheduledRun(t)
<1> SUFFICES ASSUME TypeOK, Scheduling
    PROVE RunsKeep \/ \E t \in Tasks : schedule(t) /\ ScheduledRun(t)
  OBVIOUS
<1>1. ASSUME UNCHANGED <<designated, run>> PROVE RunsKeep
  BY <1>1 DEF RunsKeep
<1> QED
  BY <1>1, LaunchSchedules DEF Scheduling, ReworkRefused, retryOnce, cancelOnce, complete

(* So every step either keeps the run rows or schedules one run. *)
LEMMA StepRuns ==
  TypeOK /\ Traced /\ [Next]_vars
    => RunsKeep \/ \E t \in Tasks : schedule(t) /\ ScheduledRun(t)
<1>1. UNCHANGED vars => RunsKeep
  BY DEF vars, rowVars, RunsKeep
<1> QED
  BY <1>1, SchedulingRuns, DispatchingKeepsRuns, RecoveringKeepsRuns, RunningKeepsRuns,
     ApplyingKeepsRuns DEF Next

(* No row disappears. *)
LEMMA RowsStay ==
  ASSUME TypeOK, Traced, [Next]_vars
  PROVE  \A r \in Runs : run[r] # "none" => run'[r] # "none"
<1>1. CASE RunsKeep
  BY <1>1 DEF RunsKeep
<1>2. ASSUME NEW t \in Tasks, ScheduledRun(t)
      PROVE  \A r \in Runs : run[r] # "none" => run'[r] # "none"
  BY <1>2 DEF ScheduledRun, TypeOK
<1> QED
  BY <1>1, <1>2, StepRuns

(* A run that was never scheduled leaves no trace anywhere.                  *)
LEMMA TracedStep == TypeOK /\ Traced /\ [Next]_vars => Traced'
<1> SUFFICES ASSUME TypeOK, Traced, [Next]_vars PROVE Traced'
  OBVIOUS
<1> USE DEF rowVars, jobVars, linkVars, runnerVars
<1> DEFINE Quiet(r) == /\ job'[r] = "none" /\ wire'[r] = 0
                       /\ executed'[r] = "none" /\ stage'[r] = "idle"
           NoTrace == \A r \in Runs : run'[r] = "none" => Quiet(r)
           ClaimsExist == \A o \in Owners : claimed'[o] # None => run'[claimed'[o].run] # "none"
           EventsExist == \A i \in DOMAIN outbox' : run'[outbox'[i].run] # "none"
<1>stay. \A r \in Runs : run[r] # "none" => run'[r] # "none"
  BY RowsStay
<1>claim. \A o \in Owners : claimed[o] # None => claimed[o].run \in Runs
  BY DEF TypeOK, Claims
<1>event. \A i \in DOMAIN outbox : outbox[i].run \in Runs
  BY DEF TypeOK, Events
<1>a. UNCHANGED <<job, wire, executed, stage>> => NoTrace
  BY <1>stay DEF Traced
<1>b. UNCHANGED claimed => ClaimsExist
  BY <1>stay, <1>claim DEF Traced
<1>c. UNCHANGED outbox => EventsExist
  BY <1>stay, <1>event DEF Traced
<1>d. ASSUME NEW o \in Owners, claimed' = [claimed EXCEPT ![o] = None] PROVE ClaimsExist
  BY <1>d, <1>stay, <1>claim DEF Traced, TypeOK
<1>e. ASSUME NEW e \in Events, run[e.run] # "none", outbox' = outbox \o <<e>> \/ outbox' = Append(outbox, e)
      PROVE  EventsExist
  <2>1. e.run \in Runs
    BY <1>e DEF Events
  <2>2. outbox \in Seq(Events)
    BY DEF TypeOK
  <2>3. /\ DOMAIN outbox' = 1..(Len(outbox) + 1)
        /\ \A i \in 1..Len(outbox) : outbox'[i] = outbox[i]
        /\ outbox'[Len(outbox) + 1] = e
    BY <1>e, <2>2
  <2>4. DOMAIN outbox = 1..Len(outbox) /\ Len(outbox) \in Nat
    BY <2>2
  <2> QED
    BY <1>e, <1>stay, <1>event, <2>1, <2>3, <2>4 DEF Traced
<1>f. NoTrace /\ ClaimsExist /\ EventsExist => Traced'
  BY DEF Traced
<1>1. ASSUME Scheduling PROVE NoTrace /\ ClaimsExist /\ EventsExist
  <2>1. UNCHANGED <<wire, executed, stage, claimed, outbox>>
    BY <1>1 DEF Scheduling, startPhase, Rework, schedule, ReworkRefused, retryOnce, cancelOnce, complete
  <2>2. CASE job' = job
    BY <2>1, <2>2, <1>a, <1>b, <1>c
  <2>3. ASSUME NEW t \in Tasks, schedule(t) PROVE NoTrace
    <3>1. <<t, designated[t] + 1>> \in Runs
      BY <2>3, ConstantsAssumption DEF schedule, TypeOK, Runs
    <3> QED
      BY <2>1, <2>3, <3>1 DEF schedule, Traced, TypeOK
  <2>4. job' = job \/ \E t \in Tasks : schedule(t)
    BY <1>1 DEF Scheduling, startPhase, Rework, ReworkRefused, retryOnce, cancelOnce, complete
  <2> QED
    BY <2>1, <2>2, <2>3, <2>4, <1>b, <1>c
<1>2. ASSUME Dispatching PROVE NoTrace /\ ClaimsExist /\ EventsExist
  <2>1. UNCHANGED <<executed, stage, outbox>>
    BY <1>2 DEF Dispatching, claim, deliverClaimed, deliveryThrows, retry, deadLetter,
       settlementThrows, ServerCrash, LeaseLapses
  <2>2. ASSUME NEW o \in Owners, NEW r \in Runs, claim(o, r) PROVE NoTrace /\ ClaimsExist
    <3>1. run[r] # "none"
      BY <2>2 DEF claim, Traced
    <3>2. ClaimsExist
      BY <2>2, <3>1, <1>stay, <1>claim DEF claim, Traced, TypeOK
    <3> QED
      BY <2>1, <2>2, <3>1, <3>2, <1>stay DEF claim, Traced, TypeOK
  <2>3. ASSUME NEW o \in Owners, deliverClaimed(o) PROVE NoTrace /\ ClaimsExist
    <3>1. claimed[o].run \in Runs /\ run[claimed[o].run] # "none"
      BY <2>3, <1>claim DEF deliverClaimed, Traced
    <3> QED
      BY <2>1, <2>3, <3>1, <1>stay, <1>d DEF deliverClaimed, markDelivered, Traced, TypeOK
  <2>4. ASSUME NEW o \in Owners, deliveryThrows(o) PROVE NoTrace /\ ClaimsExist
    <3>1. claimed[o].run \in Runs /\ run[claimed[o].run] # "none"
      BY <2>4, <1>claim DEF deliveryThrows, Traced
    <3>2. wire' = wire \/ wire' = [wire EXCEPT ![claimed[o].run] = @ + 1]
      BY <2>4 DEF deliveryThrows
    <3>3. job' = job
      BY <2>4 DEF deliveryThrows
    <3>4. NoTrace
      BY <2>1, <3>1, <3>2, <3>3, <1>stay DEF Traced, TypeOK
    <3>5. ClaimsExist
      BY <2>4, <3>1, <1>stay, <1>claim DEF deliveryThrows, Traced, TypeOK
    <3> QED
      BY <3>4, <3>5
  <2>5. ASSUME NEW o \in Owners, retry(o) \/ deadLetter(o) PROVE NoTrace /\ ClaimsExist
    <3>1. claimed[o].run \in Runs /\ run[claimed[o].run] # "none"
      BY <2>5, <1>claim DEF retry, deadLetter, Traced
    <3>2. \E x \in JobStates : job' = [job EXCEPT ![claimed[o].run] = x]
      BY <2>5 DEF retry, deadLetter, JobStates
    <3>3. claimed' = [claimed EXCEPT ![o] = None] /\ UNCHANGED wire
      BY <2>5 DEF retry, deadLetter
    <3>4. NoTrace
      BY <2>1, <3>1, <3>2, <3>3, <1>stay DEF Traced, TypeOK
    <3> QED
      BY <3>3, <3>4, <1>d
  <2>6. ASSUME NEW o \in Owners, settlementThrows(o) PROVE NoTrace /\ ClaimsExist
    BY <2>1, <2>6, <1>a, <1>d DEF settlementThrows
  <2>7. ASSUME NEW o \in Owners, ServerCrash(o) PROVE NoTrace /\ ClaimsExist
    BY <2>1, <2>7, <1>d, <1>stay DEF ServerCrash, Drop, Traced
  <2>8. ASSUME NEW r \in Runs, LeaseLapses(r) PROVE NoTrace /\ ClaimsExist
    BY <2>1, <2>8, <1>a, <1>b DEF LeaseLapses
  <2> QED
    BY <1>2, <1>c, <2>1, <2>2, <2>3, <2>4, <2>5, <2>6, <2>7, <2>8 DEF Dispatching
<1>3. ASSUME Recovering PROVE NoTrace /\ ClaimsExist /\ EventsExist
  <2>1. UNCHANGED <<job, wire, executed, stage, claimed, outbox>>
    BY <1>3 DEF Recovering, scanStart, scanRelease, Expires, expireStaleDispatch, sweepResolve
  <2> QED
    BY <2>1, <1>a, <1>b, <1>c
<1>4. ASSUME Running PROVE NoTrace /\ ClaimsExist /\ EventsExist
  <2>1. UNCHANGED <<job, claimed, run>>
    BY <1>4 DEF Running, handleRecorded, handleRefused, handleLaunch, Arrives, started, verified,
       published, emitFailure, bootstrapThrows, cancelledRun, Advance, settled, emergencyStop,
       RunnerRestart, Disconnect, Reconcile
  <2>2. ASSUME NEW r \in Runs, handleRecorded(r) \/ handleRefused(r) \/ handleLaunch(r)
        PROVE  NoTrace /\ EventsExist
    <3>1. run[r] # "none"
      BY <2>2 DEF handleRecorded, handleRefused, handleLaunch, Arrives, Traced
    <3>2. \/ outbox' = outbox
          \/ \E v \in Executions \ {"none"} : outbox' = Append(outbox, Ack(r, v))
      BY <2>2 DEF handleRecorded, handleRefused, handleLaunch, Executions, Dead
    <3>3. EventsExist
      BY <3>1, <3>2, <1>c, <1>e, EventTypes DEF Ack
    <3>4. \A q \in Runs : q # r =>
            wire'[q] = wire[q] /\ executed'[q] = executed[q] /\ stage'[q] = stage[q]
      BY <2>2 DEF handleRecorded, handleRefused, handleLaunch, Arrives, TypeOK
    <3>5. NoTrace
      BY <2>1, <3>1, <3>4 DEF Traced
    <3> QED
      BY <3>3, <3>5
  <2>3. ASSUME NEW r \in Runs, NEW from, NEW to, Advance(r, from, to, <<>>), "idle" \notin from
        PROVE  NoTrace /\ EventsExist
    <3>1. run[r] # "none"
      BY <2>3 DEF Advance, Traced
    <3>2. outbox' = outbox
      BY <2>3 DEF Advance, TypeOK
    <3> QED
      BY <2>1, <2>3, <3>1, <3>2, <1>c DEF Advance, Traced, TypeOK
  <2>4. ASSUME NEW r \in Runs, NEW from, NEW to, NEW e \in Events, e.run = r,
               Advance(r, from, to, <<e>>), "idle" \notin from
        PROVE  NoTrace /\ EventsExist
    <3>1. run[r] # "none"
      BY <2>4 DEF Advance, Traced
    <3>2. EventsExist
      BY <2>4, <3>1, <1>e DEF Advance
    <3> QED
      BY <2>1, <2>4, <3>1, <3>2 DEF Advance, Traced, TypeOK
  <2>5. ASSUME NEW r \in Runs,
               \/ started(r) \/ verified(r) \/ published(r) \/ emitFailure(r)
               \/ bootstrapThrows(r) \/ cancelledRun(r)
        PROVE  NoTrace /\ EventsExist
    <3>1. /\ Status(r, "started") \in Events /\ Status(r, "completed") \in Events
          /\ Status(r, "failed") \in Events /\ Status(r, "cancelled") \in Events
          /\ Verification(r, "passed") \in Events /\ Verification(r, "failed") \in Events
      BY EventTypes
    <3>2. /\ Status(r, "started").run = r /\ Status(r, "completed").run = r
          /\ Status(r, "failed").run = r /\ Status(r, "cancelled").run = r
          /\ Verification(r, "passed").run = r /\ Verification(r, "failed").run = r
      BY DEF Status, Verification
    <3>3. /\ "idle" \notin {"preparing"} /\ "idle" \notin {"coding"} /\ "idle" \notin {"green"}
          /\ "idle" \notin LiveStages
      BY DEF LiveStages
    <3>4. CASE started(r)
      BY <2>4, <3>1, <3>2, <3>3, <3>4 DEF started
    <3>5. CASE verified(r)
      BY <2>4, <3>1, <3>2, <3>3, <3>5 DEF verified
    <3>6. CASE published(r)
      BY <2>4, <3>1, <3>2, <3>3, <3>6 DEF published
    <3>7. CASE emitFailure(r)
      BY <2>4, <3>1, <3>2, <3>3, <3>7 DEF emitFailure
    <3>8. CASE bootstrapThrows(r)
      BY <2>3, <3>3, <3>8 DEF bootstrapThrows
    <3>9. CASE cancelledRun(r)
      BY <2>4, <3>1, <3>2, <3>3, <3>9 DEF cancelledRun
    <3> QED
      BY <2>5, <3>4, <3>5, <3>6, <3>7, <3>8, <3>9
  <2>6. ASSUME NEW r \in Runs, settled(r) PROVE NoTrace /\ EventsExist
    <3>1. run[r] # "none" /\ stage[r] \in Executions \ {"none"}
      BY <2>6 DEF settled, Traced, FinalStages, Executions, Dead
    <3>2. EventsExist
      BY <2>6, <3>1, <1>e, EventTypes DEF settled, Ack
    <3> QED
      BY <2>1, <2>6, <3>1, <3>2 DEF settled, Traced, TypeOK
  <2>7. ASSUME emergencyStop \/ RunnerRestart \/ Disconnect PROVE NoTrace /\ EventsExist
    <3>1. UNCHANGED <<executed, outbox>>
      BY <2>7 DEF emergencyStop, RunnerRestart, Disconnect
    <3>2. \A r \in Runs : (wire'[r] = wire[r] \/ wire'[r] = 0)
                          /\ (stage'[r] = stage[r] \/ stage'[r] = "idle")
      BY <2>7 DEF emergencyStop, RunnerRestart, Disconnect, Drop
    <3> QED
      BY <2>1, <3>1, <3>2, <1>c DEF Traced
  <2>8. ASSUME Reconcile PROVE NoTrace /\ EventsExist
    <3> DEFINE orphaned == {r \in Runs : executed[r] = "executing" /\ stage[r] = "idle"}
    <3>1. PICK order \in Orderings(orphaned) :
            outbox' = outbox \o [i \in DOMAIN order |-> Ack(order[i], "failed")]
      BY <2>8 DEF Reconcile
    <3>2. PICK n \in Nat : DOMAIN order = 1..n /\ \A i \in 1..n : order[i] \in orphaned
      BY OrderingsAreSequences
    <3>3. \A i \in 1..n : run[order[i]] # "none"
      BY <3>2 DEF Traced
    <3> DEFINE acks == [i \in 1..n |-> Ack(order[i], "failed")]
    <3>4. acks \in Seq(Events)
      BY <3>2, EventTypes DEF Executions, Dead
    <3>5. \A i \in 1..n : acks[i].run = order[i]
      BY DEF Ack
    <3>6. outbox \in Seq(Events) /\ outbox' = outbox \o acks /\ Len(acks) = n
      BY <3>1, <3>2 DEF TypeOK
    <3> HIDE DEF acks, orphaned
    <3>7. \A i \in DOMAIN outbox' : \/ i \in DOMAIN outbox /\ outbox'[i] = outbox[i]
                                    \/ \E j \in 1..n : outbox'[i] = acks[j]
      BY <3>4, <3>6
    <3>8. EventsExist
      BY <2>1, <3>3, <3>5, <3>7 DEF Traced
    <3>9. NoTrace
      BY <2>1, <2>8 DEF Reconcile, Traced, TypeOK
    <3> QED
      BY <3>8, <3>9
  <2> QED
    BY <1>4, <1>b, <2>1, <2>2, <2>5, <2>6, <2>7, <2>8 DEF Running
<1>5. ASSUME Applying PROVE NoTrace /\ ClaimsExist /\ EventsExist
  <2>1. ASSUME NEW i \in DOMAIN outbox, Consume(i) PROVE EventsExist
    <3>1. outbox' = [j \in 1..(Len(outbox) - 1) |-> IF j < i THEN outbox[j] ELSE outbox[j + 1]]
      BY <2>1 DEF Consume
    <3>2. outbox \in Seq(Events)
      BY DEF TypeOK
    <3>3. \A j \in DOMAIN outbox' : \E k \in DOMAIN outbox : outbox'[j] = outbox[k]
      BY <2>1, <3>1, <3>2
    <3> QED
      BY <3>3, <1>stay, <1>event DEF Traced
  <2>2. ASSUME NEW i \in DOMAIN outbox, applyCommandAck(i) PROVE NoTrace
    <3>1. \A r \in Runs : job[r] = "none" => job'[r] = "none"
      BY <2>2 DEF applyCommandAck, TypeOK
    <3> QED
      BY <2>2, <3>1, <1>stay DEF applyCommandAck, Consume, Traced
  <2>3. ASSUME NEW i \in DOMAIN outbox,
               \/ applyStarted(i) \/ applyVerification(i) \/ applyCompleted(i) \/ applyStopped(i)
        PROVE  NoTrace
    <3>1. UNCHANGED <<job, wire, executed, stage>>
      BY <2>3 DEF applyStarted, applyVerification, applyCompleted, applyStopped, Consume
    <3> QED
      BY <3>1, <1>a
  <2>4. ASSUME rejectRunnerEvents PROVE NoTrace /\ EventsExist
    BY <2>4, <1>c, <1>stay DEF rejectRunnerEvents, Drop, Traced
  <2>5. claimed' = claimed
    BY <1>5 DEF Applying, applyCommandAck, applyStarted, applyVerification, applyCompleted,
       applyStopped, Consume, rejectRunnerEvents
  <2> QED
    BY <1>5, <1>b, <2>1, <2>2, <2>3, <2>4, <2>5 DEF Applying, applyCommandAck, applyStarted,
       applyVerification, applyCompleted, applyStopped
<1>6. ASSUME UNCHANGED vars PROVE NoTrace /\ ClaimsExist /\ EventsExist
  BY <1>6, <1>a, <1>b, <1>c DEF vars
<1> HIDE DEF NoTrace, ClaimsExist, EventsExist
<1> QED
  BY <1>1, <1>2, <1>3, <1>4, <1>5, <1>6, <1>f DEF Next

-----------------------------------------------------------------------------
(* The theorems.                                                              *)

(* Nothing is scheduled at first.                                            *)
LEMMA InitTraced == Init => Traced
BY ConstantsAssumption DEF Init, Traced

(* Only the designated attempt of a task may be live.                        *)
LEMMA DesignatedStep ==
  TypeOK /\ Traced /\ LiveRunIsDesignated /\ [Next]_vars => LiveRunIsDesignated'
<1> SUFFICES ASSUME TypeOK, Traced, LiveRunIsDesignated, [Next]_vars PROVE LiveRunIsDesignated'
  OBVIOUS
<1>1. CASE RunsKeep
  BY <1>1 DEF RunsKeep, LiveRunIsDesignated
<1>2. ASSUME NEW t \in Tasks, ScheduledRun(t) PROVE LiveRunIsDesignated'
  <2> DEFINE n == designated[t] + 1
  <2>1. n \in 1..MaxAttempts /\ <<t, n>> \in Runs /\ designated[t] \in Nat
    BY <1>2, RunsFacts, ConstantsAssumption DEF ScheduledRun, TypeOK
  <2>2. designated' = [designated EXCEPT ![t] = n] /\ run' = [run EXCEPT ![<<t, n>>] = "created"]
    BY <1>2 DEF ScheduledRun
  <2>3. SUFFICES ASSUME NEW r \in Runs
                 PROVE  /\ r[2] < designated'[r[1]] => run'[r] \in V2_TERMINAL_AGENT_RUN_STATES
                        /\ r[2] > designated'[r[1]] <=> run'[r] = "none"
    BY DEF LiveRunIsDesignated
  <2>4. /\ r[2] < designated[r[1]] => run[r] \in V2_TERMINAL_AGENT_RUN_STATES
        /\ r[2] > designated[r[1]] <=> run[r] = "none"
        /\ r[1] \in Tasks /\ r[2] \in 1..MaxAttempts /\ r = <<r[1], r[2]>>
    BY RunsFacts DEF LiveRunIsDesignated
  <2>5. CASE r[1] # t
    BY <2>1, <2>2, <2>4, <2>5 DEF TypeOK
  <2>6. CASE r[1] = t
    <3>1. designated'[r[1]] = n
      BY <2>2, <2>6 DEF TypeOK
    <3>2. CASE r[2] = n
      BY <2>1, <2>2, <2>4, <2>6, <3>1, <3>2 DEF TypeOK
    <3>3. CASE r[2] # n
      <4>1. run'[r] = run[r]
        BY <2>1, <2>2, <2>4, <3>3 DEF TypeOK
      <4>2. r[2] = designated[t] => run[r] \in V2_TERMINAL_AGENT_RUN_STATES
        BY <1>2, <2>4, <2>6, ConstantsAssumption DEF ScheduledRun, Designated
      <4> QED
        BY <2>1, <2>4, <2>6, <3>1, <3>3, <4>1, <4>2, ConstantsAssumption
    <3> QED
      BY <3>2, <3>3
  <2> QED
    BY <2>5, <2>6
<1> QED
  BY <1>1, <1>2, StepRuns

(* A parked phase has no run that occupies it.                               *)
LEMMA ParkedStep ==
  TypeOK /\ Traced /\ ParkedPhaseIsQuiet /\ [Next]_vars => ParkedPhaseIsQuiet'
<1> SUFFICES ASSUME TypeOK, Traced, ParkedPhaseIsQuiet, [Next]_vars PROVE ParkedPhaseIsQuiet'
  OBVIOUS
<1>1. ASSUME NEW t \in Tasks, ScheduledRun(t) PROVE ParkedPhaseIsQuiet'
  BY <1>1 DEF ScheduledRun, ParkedPhaseIsQuiet
<1>2. CASE RunsKeep
  <2>1. CASE \A r \in Runs : run[r] \notin Occupying
    BY <1>2, <2>1 DEF RunsKeep, ParkedPhaseIsQuiet
  <2>2. CASE ~\A r \in Runs : run[r] \notin Occupying
    <3>1. phase \notin {"blocked", "cancelled"}
      BY <2>2 DEF ParkedPhaseIsQuiet
    <3>2. phase' \notin {"blocked", "cancelled"}
      <4> USE DEF rowVars
      <4>1. CASE Scheduling
        BY <4>1, <2>2, <3>1 DEF Scheduling, startPhase, Rework, schedule, ReworkRefused,
           retryOnce, cancelOnce, complete
      <4>2. CASE Dispatching
        BY <4>2, <3>1 DEF Dispatching, claim, deliverClaimed, deliveryThrows, retry, deadLetter,
           settlementThrows, ServerCrash, LeaseLapses
      <4>3. CASE Recovering
        BY <4>3, <2>2, <3>1 DEF Recovering, scanStart, scanRelease, Stalled, Expires,
           expireStaleDispatch, sweepResolve
      <4>4. CASE Running
        BY <4>4, <3>1 DEF Running, handleRecorded, handleRefused, handleLaunch, Arrives,
           started, verified, published, emitFailure, bootstrapThrows, cancelledRun, Advance,
           settled, emergencyStop, RunnerRestart, Disconnect, Reconcile
      <4>5. CASE Applying
        BY <4>5, <3>1 DEF Applying, applyCommandAck, applyStarted, applyVerification,
           applyCompleted, applyStopped, Consume, rejectRunnerEvents
      <4>6. CASE UNCHANGED vars
        BY <4>6, <3>1 DEF vars
      <4> QED
        BY <4>1, <4>2, <4>3, <4>4, <4>5, <4>6 DEF Next
    <3> QED
      BY <3>2 DEF ParkedPhaseIsQuiet
  <2> QED
    BY <2>1, <2>2
<1> QED
  BY <1>1, <1>2, StepRuns

(* The part of the inductive invariant about run rows. *)
RowInv == TypeOK /\ Traced /\ LiveRunIsDesignated /\ ParkedPhaseIsQuiet

(* The facts about run rows hold always.                                     *)
LEMMA RowInvariant == Spec => []RowInv
<1>1. Init => RowInv
  <2>1. Init => LiveRunIsDesignated
    <3> SUFFICES ASSUME Init, NEW r \in Runs
                 PROVE  /\ r[2] < designated[r[1]] => run[r] \in V2_TERMINAL_AGENT_RUN_STATES
                        /\ r[2] > designated[r[1]] <=> run[r] = "none"
      BY DEF LiveRunIsDesignated
    <3>1. designated[r[1]] = 0 /\ run[r] = "none" /\ r[2] \in 1..MaxAttempts
      BY RunsFacts DEF Init
    <3> QED
      BY <3>1, ConstantsAssumption
  <2>2. Init => ParkedPhaseIsQuiet
    BY DEF Init, ParkedPhaseIsQuiet
  <2> QED
    BY <2>1, <2>2, InitTypes, InitTraced DEF RowInv
<1>2. RowInv /\ [Next]_vars => RowInv'
  BY NextTypes, TracedStep, DesignatedStep, ParkedStep DEF RowInv
<1> QED
  BY <1>1, <1>2, PTL DEF Spec

(* At every moment the live run of a task is the attempt the task row         *)
(* designates: the supersession of Phase4Coordinator.schedule, for any number *)
(* of tasks, attempts, dispatchers and faults.                                *)
THEOREM OneLiveRun == Spec => []LiveRunIsDesignated
<1>1. RowInv => LiveRunIsDesignated
  BY DEF RowInv
<1> QED
  BY <1>1, RowInvariant, PTL

(* A phase that Phase4RecoveryMonitor parked or Phase4RecoveryActionService   *)
(* cancelled has no run under way, whatever arrives afterwards.               *)
THEOREM ParkedIsQuiet == Spec => []ParkedPhaseIsQuiet
<1>1. RowInv => ParkedPhaseIsQuiet
  BY DEF RowInv
<1> QED
  BY <1>1, RowInvariant, PTL

(* No step changes a terminal agent run: not a late event of the runner, not  *)
(* a dead letter, not the expiry scan, not a new schedule.                    *)
THEOREM OutcomesAreFinal == Spec => TerminalRunsFrozen
<1>1. RowInv /\ [Next]_vars =>
        [\A r \in Runs : run[r] \in V2_TERMINAL_AGENT_RUN_STATES => run'[r] = run[r]]_vars
  <2> SUFFICES ASSUME RowInv, [Next]_vars, NEW r \in Runs,
                      run[r] \in V2_TERMINAL_AGENT_RUN_STATES
               PROVE  run'[r] = run[r]
    OBVIOUS
  <2>1. CASE RunsKeep
    BY <2>1 DEF RunsKeep
  <2>2. ASSUME NEW t \in Tasks, ScheduledRun(t) PROVE run'[r] = run[r]
    <3>1. <<t, designated[t] + 1>> # r
      <4>1. SUFFICES ASSUME r = <<t, designated[t] + 1>> PROVE FALSE
        OBVIOUS
      <4>2. r[2] > designated[r[1]]
        BY <2>2, <4>1 DEF RowInv, TypeOK
      <4>3. run[r] = "none"
        BY <4>2 DEF RowInv, LiveRunIsDesignated
      <4> QED
        BY <4>3 DEF V2_TERMINAL_AGENT_RUN_STATES
    <3> QED
      BY <2>2, <3>1 DEF ScheduledRun, RowInv, TypeOK
  <2> QED
    BY <2>1, <2>2, StepRuns DEF RowInv
<1> QED
  BY <1>1, RowInvariant, PTL DEF Spec, TerminalRunsFrozen

(* What the server's rows tell of a run before any event of it is applied.    *)
RowsSilent(r) ==
  /\ run[r] \notin {"running", "verifying", "succeeded", "failed", "cancelled"}
  /\ verification[r] = "pending"
  /\ command[r] \notin {"executing", "succeeded", "rejected", "expired", "cancelled"}
  /\ job[r] # "completed"

(* Without a durable record of its command nothing tells of a run: the record *)
(* is written before the execution, its events and the rows follow it.        *)
RecordInv ==
  \A r \in Runs : executed[r] = "none" =>
    /\ stage[r] = "idle"
    /\ \A i \in DOMAIN outbox : outbox[i].run # r
    /\ RowsSilent(r)

(* ... which is the same as: whatever was taken up is recorded.               *)
LEMMA RecordedIfTaken == ASSUME RecordInv PROVE \A r \in Runs : TakenUp(r) => executed[r] # "none"
BY DEF RecordInv, RowsSilent, TakenUp

(* The runner never drops a record from its state file.                      *)
LEMMA RecordStays ==
  ASSUME TypeOK, [Next]_vars, NEW q \in Runs, executed[q] # "none"
  PROVE  executed'[q] # "none"
<1> USE DEF runnerVars
<1>1. CASE Running
  <2>1. ASSUME NEW r \in Runs, handleRecorded(r) \/ handleRefused(r) \/ handleLaunch(r)
        PROVE  executed'[q] # "none"
    BY <2>1 DEF handleRecorded, handleRefused, handleLaunch, TypeOK
  <2>2. ASSUME NEW r \in Runs,
               \/ started(r) \/ verified(r) \/ published(r) \/ emitFailure(r)
               \/ bootstrapThrows(r) \/ cancelledRun(r)
        PROVE  executed' = executed
    BY <2>2 DEF started, verified, published, emitFailure, bootstrapThrows, cancelledRun, Advance
  <2>3. ASSUME NEW r \in Runs, settled(r) PROVE executed'[q] # "none"
    BY <2>3 DEF settled, FinalStages, TypeOK
  <2>4. ASSUME emergencyStop \/ RunnerRestart \/ Disconnect PROVE executed' = executed
    BY <2>4 DEF emergencyStop, RunnerRestart, Disconnect
  <2>5. ASSUME Reconcile PROVE executed'[q] # "none"
    BY <2>5 DEF Reconcile
  <2> QED
    BY <1>1, <2>1, <2>2, <2>3, <2>4, <2>5 DEF Running
<1>2. CASE Scheduling
  BY <1>2 DEF Scheduling, startPhase, Rework, schedule, ReworkRefused, retryOnce, cancelOnce,
     complete
<1>3. CASE Dispatching
  BY <1>3 DEF Dispatching, claim, deliverClaimed, deliveryThrows, retry, deadLetter,
     settlementThrows, ServerCrash, LeaseLapses
<1>4. CASE Recovering
  BY <1>4 DEF Recovering, scanStart, scanRelease, Expires, expireStaleDispatch, sweepResolve
<1>5. CASE Applying
  BY <1>5 DEF Applying, applyCommandAck, applyStarted, applyVerification, applyCompleted,
     applyStopped, Consume, rejectRunnerEvents
<1>6. CASE UNCHANGED vars
  BY <1>6 DEF vars
<1> QED
  BY <1>1, <1>2, <1>3, <1>4, <1>5, <1>6 DEF Next

(* Events of other runs behind the buffer leave it without one of run q.      *)
LEMMA AppendedRuns ==
  ASSUME outbox \in Seq(Events), NEW f \in Seq(Events), NEW q,
         \A i \in DOMAIN outbox : outbox[i].run # q, \A i \in DOMAIN f : f[i].run # q
  PROVE  \A i \in DOMAIN (outbox \o f) : (outbox \o f)[i].run # q
<1>1. /\ Len(outbox) \in Nat /\ DOMAIN outbox = 1..Len(outbox)
      /\ Len(f) \in Nat /\ DOMAIN f = 1..Len(f)
      /\ DOMAIN (outbox \o f) = 1..Len(outbox) + Len(f)
      /\ \A i \in 1..Len(outbox) + Len(f) :
           (outbox \o f)[i] = IF i <= Len(outbox) THEN outbox[i] ELSE f[i - Len(outbox)]
  BY LenProperties, ConcatProperties
<1> QED
  BY <1>1

(* The executor works, and reports, only on commands it has recorded.         *)
LEMMA RunningRecords ==
  ASSUME TypeOK, RecordInv, Running, NEW q \in Runs, executed'[q] = "none"
  PROVE  /\ stage'[q] = "idle" /\ \A i \in DOMAIN outbox' : outbox'[i].run # q
         /\ UNCHANGED <<run, verification, command, job>>
<1> USE DEF rowVars, jobVars, runnerVars
<1> DEFINE Silent == stage'[q] = "idle" /\ \A i \in DOMAIN outbox' : outbox'[i].run # q
<1>1. /\ outbox \in Seq(Events)
      /\ executed \in [Runs -> Executions]
      /\ stage \in [Runs -> {"idle"} \cup LiveStages \cup FinalStages]
  BY DEF TypeOK
<1>2. UNCHANGED <<run, verification, command, job>>
  BY DEF Running, handleRecorded, handleRefused, handleLaunch, Arrives, started, verified,
     published, emitFailure, bootstrapThrows, cancelledRun, Advance, settled, emergencyStop,
     RunnerRestart, Disconnect, Reconcile
<1>3. executed[q] = "none"
  <2>1. [Next]_vars
    BY DEF Next
  <2> QED
    BY <2>1, RecordStays
<1>4. stage[q] = "idle" /\ \A i \in DOMAIN outbox : outbox[i].run # q
  BY <1>3 DEF RecordInv
<1>5. ASSUME NEW e \in Events, e.run # q, outbox' = outbox \o <<e>> \/ outbox' = Append(outbox, e)
      PROVE  \A i \in DOMAIN outbox' : outbox'[i].run # q
  <2>1. <<e>> \in Seq(Events) /\ \A i \in DOMAIN <<e>> : <<e>>[i].run # q
    BY <1>5
  <2>2. outbox' = outbox \o <<e>>
    BY <1>1, <1>5
  <2> QED
    BY <1>1, <1>4, <2>1, <2>2, AppendedRuns
<1>6. ASSUME NEW r \in Runs, handleRecorded(r) \/ handleRefused(r) \/ handleLaunch(r)
      PROVE  Silent
  <2>1. r # q
    BY <1>1, <1>3, <1>6 DEF handleRecorded, handleRefused, handleLaunch
  <2>2. \/ outbox' = outbox
        \/ \E v \in Executions \ {"none"} : outbox' = Append(outbox, Ack(r, v))
    BY <1>6 DEF handleRecorded, handleRefused, handleLaunch, Executions, Dead
  <2>3. \A v \in Executions \ {"none"} : Ack(r, v) \in Events /\ Ack(r, v).run # q
    BY <2>1, EventTypes DEF Ack
  <2>4. \A i \in DOMAIN outbox' : outbox'[i].run # q
    BY <1>4, <1>5, <2>2, <2>3
  <2>5. stage'[q] = "idle"
    BY <1>1, <1>4, <1>6, <2>1 DEF handleRecorded, handleRefused, handleLaunch
  <2> QED
    BY <2>4, <2>5
<1>7. ASSUME NEW r \in Runs, NEW from, NEW to, NEW emitted, Advance(r, from, to, emitted),
             from \subseteq LiveStages,
             emitted = <<>> \/ \E e \in Events : e.run = r /\ emitted = <<e>>
      PROVE  Silent
  <2>1. r # q
    BY <1>4, <1>7 DEF Advance, LiveStages
  <2>2. outbox' = outbox \o emitted /\ stage' = [stage EXCEPT ![r] = to]
    BY <1>7 DEF Advance
  <2>3. \A i \in DOMAIN outbox' : outbox'[i].run # q
    <3>1. CASE emitted = <<>>
      BY <1>1, <1>4, <2>2, <3>1
    <3>2. ASSUME NEW e \in Events, e.run = r, emitted = <<e>>
          PROVE  \A i \in DOMAIN outbox' : outbox'[i].run # q
      BY <1>5, <2>1, <2>2, <3>2
    <3> QED
      BY <1>7, <3>1, <3>2
  <2> QED
    BY <1>1, <1>4, <2>1, <2>2, <2>3
<1>8. ASSUME NEW r \in Runs,
             \/ started(r) \/ verified(r) \/ published(r) \/ emitFailure(r)
             \/ bootstrapThrows(r) \/ cancelledRun(r)
      PROVE  Silent
  <2>1. /\ \A v \in {"started", "completed", "failed", "cancelled"} :
             Status(r, v) \in Events /\ Status(r, v).run = r
        /\ \A v \in {"passed", "failed"} : Verification(r, v) \in Events /\ Verification(r, v).run = r
    BY EventTypes DEF Status, Verification
  <2>2. /\ {"preparing"} \subseteq LiveStages /\ {"coding"} \subseteq LiveStages
        /\ {"green"} \subseteq LiveStages
    BY DEF LiveStages
  <2>3. CASE started(r)
    BY <1>7, <2>1, <2>2, <2>3 DEF started
  <2>4. CASE verified(r)
    BY <1>7, <2>1, <2>2, <2>4 DEF verified
  <2>5. CASE published(r)
    BY <1>7, <2>1, <2>2, <2>5 DEF published
  <2>6. CASE emitFailure(r)
    BY <1>7, <2>1, <2>6 DEF emitFailure
  <2>7. CASE bootstrapThrows(r)
    BY <1>7, <2>2, <2>7 DEF bootstrapThrows
  <2>8. CASE cancelledRun(r)
    BY <1>7, <2>1, <2>8 DEF cancelledRun
  <2> QED
    BY <1>8, <2>3, <2>4, <2>5, <2>6, <2>7, <2>8
<1>9. ASSUME NEW r \in Runs, settled(r) PROVE Silent
  <2>1. stage[r] \in FinalStages /\ stage[r] \in Executions \ {"none"} /\ r # q
    BY <1>4, <1>9 DEF settled, FinalStages, Executions, Dead
  <2>2. Ack(r, stage[r]) \in Events /\ Ack(r, stage[r]).run # q
    BY <2>1, EventTypes DEF Ack
  <2>3. outbox' = Append(outbox, Ack(r, stage[r])) /\ stage' = [stage EXCEPT ![r] = "idle"]
    BY <1>9 DEF settled
  <2> QED
    BY <1>1, <1>4, <1>5, <2>1, <2>2, <2>3
<1>10. CASE emergencyStop \/ RunnerRestart \/ Disconnect
  <2>1. outbox' = outbox /\ stage'[q] \in {stage[q], "idle"}
    BY <1>10 DEF emergencyStop, RunnerRestart, Disconnect
  <2>2. \A i \in DOMAIN outbox' : outbox'[i].run # q
    BY <1>4, <2>1
  <2>3. stage'[q] = "idle"
    BY <1>4, <2>1
  <2> QED
    BY <1>2, <2>2, <2>3
<1>11. CASE Reconcile
  <2> DEFINE orphaned == {r \in Runs : executed[r] = "executing" /\ stage[r] = "idle"}
  <2>1. PICK order \in Orderings(orphaned) :
          outbox' = outbox \o [i \in DOMAIN order |-> Ack(order[i], "failed")]
    BY <1>11 DEF Reconcile
  <2>2. PICK n \in Nat : DOMAIN order = 1..n /\ \A i \in 1..n : order[i] \in orphaned
    BY OrderingsAreSequences
  <2> DEFINE acks == [i \in 1..n |-> Ack(order[i], "failed")]
  <2>3. acks \in Seq(Events)
    BY <2>2, EventTypes DEF Executions, Dead
  <2>4. DOMAIN acks = 1..n /\ \A i \in 1..n : acks[i].run # q
    BY <1>3, <2>2 DEF Ack
  <2>5. outbox' = outbox \o acks /\ stage' = stage
    BY <1>11, <2>1, <2>2 DEF Reconcile
  <2> HIDE DEF acks
  <2>6. \A i \in DOMAIN (outbox \o acks) : (outbox \o acks)[i].run # q
    <3>1. \A i \in DOMAIN acks : acks[i].run # q
      BY <2>4
    <3> QED
      BY <1>1, <1>4, <2>3, <3>1, AppendedRuns
  <2>7. \A i \in DOMAIN outbox' : outbox'[i].run # q
    BY <2>5, <2>6
  <2>8. stage'[q] = "idle"
    BY <1>4, <2>5
  <2> QED
    BY <1>2, <2>7, <2>8
<1> QED
  BY <1>2, <1>6, <1>8, <1>9, <1>10, <1>11 DEF Running

(* The server applies an event of a run to the rows of that run only, and the *)
(* run it is of is recorded.                                                  *)
LEMMA ApplyingRecords ==
  ASSUME TypeOK, RecordInv, Applying, NEW q \in Runs, executed'[q] = "none"
  PROVE  /\ stage'[q] = "idle" /\ \A i \in DOMAIN outbox' : outbox'[i].run # q
         /\ run'[q] = run[q] /\ verification'[q] = verification[q]
         /\ command'[q] = command[q] /\ job'[q] = job[q]
<1> USE DEF rowVars, jobVars, runnerVars
<1>1. executed' = executed /\ stage' = stage
  BY DEF Applying, applyCommandAck, applyStarted, applyVerification, applyCompleted,
     applyStopped, Consume, rejectRunnerEvents
<1>2. stage[q] = "idle" /\ \A i \in DOMAIN outbox : outbox[i].run # q
  BY <1>1 DEF RecordInv
<1>3. ASSUME NEW i \in DOMAIN outbox, Consume(i)
      PROVE  outbox[i].run # q /\ \A j \in DOMAIN outbox' : outbox'[j].run # q
  <2>1. outbox' = [j \in 1..(Len(outbox) - 1) |-> IF j < i THEN outbox[j] ELSE outbox[j + 1]]
    BY <1>3 DEF Consume
  <2>2. outbox \in Seq(Events)
    BY DEF TypeOK
  <2>3. \A j \in DOMAIN outbox' : \E k \in DOMAIN outbox : outbox'[j] = outbox[k]
    BY <1>3, <2>1, <2>2
  <2> QED
    BY <1>2, <1>3, <2>3
<1>4. ASSUME NEW i \in DOMAIN outbox, applyCommandAck(i)
      PROVE  /\ \A j \in DOMAIN outbox' : outbox'[j].run # q
             /\ run'[q] = run[q] /\ verification'[q] = verification[q]
             /\ command'[q] = command[q] /\ job'[q] = job[q]
  <2>1. Consume(i)
    BY <1>4 DEF applyCommandAck
  <2> QED
    BY <1>3, <1>4, <2>1 DEF applyCommandAck, TypeOK
<1>5. ASSUME NEW i \in DOMAIN outbox,
             \/ applyStarted(i) \/ applyVerification(i) \/ applyCompleted(i) \/ applyStopped(i)
      PROVE  /\ \A j \in DOMAIN outbox' : outbox'[j].run # q
             /\ run'[q] = run[q] /\ verification'[q] = verification[q]
             /\ command' = command /\ job' = job
  <2>1. Consume(i)
    BY <1>5 DEF applyStarted, applyVerification, applyCompleted, applyStopped
  <2> QED
    BY <1>3, <1>5, <2>1 DEF applyStarted, applyVerification, applyCompleted, applyStopped, TypeOK
<1>6. CASE rejectRunnerEvents
  BY <1>2, <1>6 DEF rejectRunnerEvents
<1> QED
  BY <1>1, <1>2, <1>4, <1>5, <1>6 DEF Applying

(* No dispatcher, sweep or scheduler writes what only an event tells.         *)
LEMMA ServerSilent ==
  ASSUME TypeOK, Scheduling \/ Dispatching \/ Recovering, NEW q \in Runs, RowsSilent(q)
  PROVE  RowsSilent(q)'
<1> USE DEF rowVars, jobVars
<1>1. ASSUME verification' = verification,
             run'[q] \in {run[q], "created", "dispatched", "expired"},
             command'[q] \in {command[q], "queued", "dispatched", "failed"},
             job'[q] \in {job[q], "queued", "leased", "delivered", "dead_letter"}
      PROVE  RowsSilent(q)'
  BY <1>1 DEF RowsSilent
<1>2. CASE Scheduling
  <2>1. ASSUME NEW t \in Tasks, schedule(t) PROVE RowsSilent(q)'
    BY <1>1, <2>1 DEF schedule, TypeOK
  <2>2. CASE UNCHANGED <<run, verification, jobVars>>
    BY <1>1, <2>2
  <2>3. UNCHANGED <<run, verification, jobVars>> \/ \E t \in Tasks : schedule(t)
    BY <1>2 DEF Scheduling, startPhase, Rework, ReworkRefused, retryOnce, cancelOnce, complete
  <2> QED
    BY <2>1, <2>2, <2>3
<1>3. CASE Dispatching
  <2>1. ASSUME NEW o \in Owners, NEW r \in Runs, claim(o, r) PROVE RowsSilent(q)'
    BY <1>1, <2>1 DEF claim, TypeOK
  <2>2. ASSUME NEW o \in Owners, deliverClaimed(o) PROVE RowsSilent(q)'
    BY <1>1, <2>2 DEF deliverClaimed, markDelivered, TypeOK
  <2>3. ASSUME NEW o \in Owners, retry(o) \/ deadLetter(o) PROVE RowsSilent(q)'
    BY <1>1, <2>3 DEF retry, deadLetter, TypeOK
  <2>4. ASSUME \/ \E o \in Owners : deliveryThrows(o) \/ settlementThrows(o) \/ ServerCrash(o)
               \/ \E r \in Runs : LeaseLapses(r)
        PROVE  RowsSilent(q)'
    BY <1>1, <2>4 DEF deliveryThrows, settlementThrows, ServerCrash, LeaseLapses
  <2> QED
    BY <1>3, <2>1, <2>2, <2>3, <2>4 DEF Dispatching
<1>4. CASE Recovering
  BY <1>1, <1>4 DEF Recovering, scanStart, scanRelease, Expires, expireStaleDispatch,
     sweepResolve, TypeOK
<1> QED
  BY <1>2, <1>3, <1>4

(* Every step keeps the record ahead of what tells of it.                    *)
LEMMA RecordStep == TypeOK /\ RecordInv /\ [Next]_vars => RecordInv'
<1> SUFFICES ASSUME TypeOK, RecordInv, [Next]_vars, NEW q \in Runs, executed'[q] = "none"
    PROVE  /\ stage'[q] = "idle" /\ \A i \in DOMAIN outbox' : outbox'[i].run # q
           /\ RowsSilent(q)'
  BY DEF RecordInv
<1> USE DEF rowVars, jobVars, runnerVars
<1>1. /\ stage[q] = "idle" /\ \A i \in DOMAIN outbox : outbox[i].run # q
      /\ RowsSilent(q)
  BY RecordStays DEF RecordInv
<1>2. CASE Running
  BY <1>1, <1>2, RunningRecords DEF RowsSilent
<1>3. CASE Applying
  BY <1>1, <1>3, ApplyingRecords DEF RowsSilent
<1>4. CASE Scheduling \/ Dispatching \/ Recovering
  <2>1. UNCHANGED <<stage, outbox>>
    BY <1>4 DEF Scheduling, startPhase, Rework, schedule, ReworkRefused, retryOnce, cancelOnce,
       complete, Dispatching, claim, deliverClaimed, deliveryThrows, retry, deadLetter,
       settlementThrows, ServerCrash, LeaseLapses, Recovering, scanStart, scanRelease, Expires,
       expireStaleDispatch, sweepResolve
  <2> QED
    BY <1>1, <1>4, <2>1, ServerSilent
<1>5. CASE UNCHANGED vars
  BY <1>1, <1>5 DEF vars, RowsSilent
<1> QED
  BY <1>2, <1>3, <1>4, <1>5 DEF Next

(* The record is ahead of everything else at every moment.                   *)
LEMMA RecordAhead == Spec => [](TypeOK /\ RecordInv)
<1>1. Init => RecordInv
  BY DEF Init, RecordInv, RowsSilent
<1> QED
  BY <1>1, RecordStep, TypeCorrect, PTL DEF Spec

(* A recorded command is not launched: redelivery, a reconnect or a restart of *)
(* RunnerDaemon find the record.                                              *)
LEMMA RecordedNotLaunched ==
  ASSUME TypeOK, [Next]_vars, NEW q \in Runs, executed[q] # "none", stage[q] = "idle"
  PROVE  stage'[q] = "idle"
<1> USE DEF runnerVars
<1>1. CASE Running
  <2>1. ASSUME NEW r \in Runs, handleRecorded(r) \/ handleRefused(r) \/ handleLaunch(r)
        PROVE  stage'[q] = "idle"
    BY <2>1 DEF handleRecorded, handleRefused, handleLaunch, TypeOK
  <2>2. ASSUME NEW r \in Runs, NEW from, NEW to, NEW e, Advance(r, from, to, e), "idle" \notin from
        PROVE  stage'[q] = "idle"
    BY <2>2 DEF Advance, TypeOK
  <2>3. ASSUME NEW r \in Runs,
               \/ started(r) \/ verified(r) \/ published(r) \/ emitFailure(r)
               \/ bootstrapThrows(r) \/ cancelledRun(r)
        PROVE  stage'[q] = "idle"
    BY <2>2, <2>3 DEF started, verified, published, emitFailure, bootstrapThrows,
       cancelledRun, LiveStages
  <2>4. ASSUME NEW r \in Runs, settled(r) PROVE stage'[q] = "idle"
    BY <2>4 DEF settled, TypeOK
  <2>5. ASSUME emergencyStop \/ RunnerRestart \/ Disconnect \/ Reconcile
        PROVE  stage'[q] = "idle"
    BY <2>5 DEF emergencyStop, RunnerRestart, Disconnect, Reconcile
  <2> QED
    BY <1>1, <2>1, <2>3, <2>4, <2>5 DEF Running
<1>2. CASE Scheduling
  BY <1>2 DEF Scheduling, startPhase, Rework, schedule, ReworkRefused, retryOnce, cancelOnce,
     complete
<1>3. CASE Dispatching
  BY <1>3 DEF Dispatching, claim, deliverClaimed, deliveryThrows, retry, deadLetter,
     settlementThrows, ServerCrash, LeaseLapses
<1>4. CASE Recovering
  BY <1>4 DEF Recovering, scanStart, scanRelease, Expires, expireStaleDispatch, sweepResolve
<1>5. CASE Applying
  BY <1>5 DEF Applying, applyCommandAck, applyStarted, applyVerification, applyCompleted,
     applyStopped, Consume, rejectRunnerEvents
<1>6. CASE UNCHANGED vars
  BY <1>6 DEF vars
<1> QED
  BY <1>1, <1>2, <1>3, <1>4, <1>5, <1>6 DEF Next

(* A command is executed at most once: the durable record of RunnerDaemon is   *)
(* ahead of everything that tells of an execution, is never lost, and keeps    *)
(* the command from being launched again.                                      *)
THEOREM AtMostOnce == Spec => ExecutedAtMostOnce
<1>1. ASSUME TypeOK, RecordInv, [Next]_vars
      PROVE  \A r \in Runs : executed[r] # "none" \/ TakenUp(r) =>
                /\ executed'[r] # "none"
                /\ stage[r] = "idle" => stage'[r] = "idle"
  BY <1>1, RecordedIfTaken, RecordStays, RecordedNotLaunched
<1> QED
  BY <1>1, RecordAhead, PTL DEF Spec, ExecutedAtMostOnce

(* A delivery that was committed stays committed: no dispatcher with a lapsed *)
(* lease puts the job of Phase4DispatchRepository back in the queue.          *)
THEOREM DeliveriesStand == Spec => DeliveryIsFinal
<1> DEFINE Done == {"delivered", "completed"}
           Stands == \A r \in Runs : job[r] \in Done => job'[r] \in Done
<1>1. RowInv /\ [Next]_vars => [Stands]_vars
  <2> SUFFICES ASSUME RowInv, [Next]_vars, NEW q \in Runs, job[q] \in Done
               PROVE  job'[q] \in Done
    OBVIOUS
  <2> USE DEF jobVars
  <2>1. CASE Scheduling
    <3>1. ASSUME NEW t \in Tasks, ScheduledRun(t), schedule(t) PROVE job'[q] \in Done
      <4>1. <<t, designated[t] + 1>> # q
        <5>1. SUFFICES ASSUME q = <<t, designated[t] + 1>> PROVE FALSE
          OBVIOUS
        <5>2. q[2] > designated[q[1]]
          BY <3>1, <5>1 DEF RowInv, TypeOK
        <5>3. run[q] = "none"
          BY <5>2 DEF RowInv, LiveRunIsDesignated
        <5> QED
          BY <5>3 DEF RowInv, Traced
      <4> QED
        BY <3>1, <4>1 DEF schedule, RowInv, TypeOK
    <3>2. ASSUME UNCHANGED job PROVE job'[q] \in Done
      BY <3>2
    <3>3. ASSUME NEW t \in Tasks, startPhase(t) \/ Rework(t)
          PROVE  schedule(t) /\ ScheduledRun(t)
      BY <3>3, LaunchSchedules DEF RowInv
    <3> QED
      BY <2>1, <3>1, <3>2, <3>3 DEF Scheduling, ReworkRefused, retryOnce, cancelOnce,
         complete
  <2>2. CASE Dispatching
    <3>1. ASSUME NEW o \in Owners, NEW r \in Runs, claim(o, r) PROVE job'[q] \in Done
      BY <3>1 DEF claim, RowInv, TypeOK
    <3>2. ASSUME NEW o \in Owners, deliverClaimed(o) PROVE job'[q] \in Done
      BY <3>2 DEF deliverClaimed, markDelivered, RowInv, TypeOK
    <3>3. ASSUME NEW o \in Owners, retry(o) PROVE job'[q] \in Done
      BY <3>3 DEF retry, LeasedBy, RowInv, TypeOK
    <3>4. ASSUME NEW o \in Owners, deadLetter(o) PROVE job'[q] \in Done
      BY <3>4 DEF deadLetter, LeasedBy, RowInv, TypeOK
    <3>5. ASSUME UNCHANGED job PROVE job'[q] \in Done
      BY <3>5
    <3> QED
      BY <2>2, <3>1, <3>2, <3>3, <3>4, <3>5 DEF Dispatching, deliveryThrows,
         settlementThrows, ServerCrash, LeaseLapses
  <2>3. CASE Recovering
    BY <2>3 DEF Recovering, scanStart, scanRelease, Expires, expireStaleDispatch, sweepResolve
  <2>4. CASE Running
    BY <2>4 DEF Running, handleRecorded, handleRefused, handleLaunch, Arrives, started,
       verified, published, emitFailure, bootstrapThrows, cancelledRun, Advance, settled,
       emergencyStop, RunnerRestart, Disconnect, Reconcile
  <2>5. CASE Applying
    <3>1. ASSUME NEW i \in DOMAIN outbox, applyCommandAck(i) PROVE job'[q] \in Done
      BY <3>1 DEF applyCommandAck, RowInv, TypeOK
    <3>2. ASSUME UNCHANGED job PROVE job'[q] \in Done
      BY <3>2
    <3> QED
      BY <2>5, <3>1, <3>2 DEF Applying, applyStarted, applyVerification, applyCompleted,
         applyStopped, rejectRunnerEvents
  <2>6. CASE UNCHANGED vars
    BY <2>6 DEF vars
  <2> QED
    BY <2>1, <2>2, <2>3, <2>4, <2>5, <2>6 DEF Next
<1> QED
  BY <1>1, RowInvariant, PTL DEF Spec, DeliveryIsFinal

(* Whichever of acknowledgement, dead letter, completion and sweep comes      *)
(* first, a terminal command row implies that the reservation was resolved.   *)
THEOREM TerminalCommandsPaid == Spec => []TerminalCommandHoldsNoMoney
<1> DEFINE Over == {"succeeded"} \cup Dead
<1>1. Init => TerminalCommandHoldsNoMoney
  BY DEF Init, TerminalCommandHoldsNoMoney
<1>2. RowInv /\ RowInv' /\ TerminalCommandHoldsNoMoney /\ [Next]_vars
        => TerminalCommandHoldsNoMoney'
  <2> SUFFICES ASSUME RowInv, TerminalCommandHoldsNoMoney, [Next]_vars, NEW q \in Runs,
                      command'[q] \in Over
               PROVE  reservation'[q] # "active"
    BY DEF TerminalCommandHoldsNoMoney
  <2> USE DEF rowVars, jobVars
  <2>0. command[q] \in Over => reservation[q] # "active"
    BY DEF TerminalCommandHoldsNoMoney
  <2>k. ASSUME command'[q] = command[q],
               reservation'[q] = reservation[q] \/ reservation'[q] # "active"
        PROVE  reservation'[q] # "active"
    BY <2>0, <2>k
  <2>1. CASE Scheduling
    <3>1. ASSUME NEW t \in Tasks, schedule(t) PROVE reservation'[q] # "active"
      <4>1. <<t, designated[t] + 1>> \in Runs
        BY <3>1, ConstantsAssumption DEF schedule, RowInv, TypeOK, Runs
      <4> QED
        BY <2>0, <3>1, <4>1 DEF schedule, RowInv, TypeOK, Dead
    <3>2. ASSUME NEW t \in Tasks, complete(t) PROVE reservation'[q] # "active"
      BY <2>0, <3>2 DEF complete, RowInv, TypeOK
    <3> QED
      BY <2>1, <2>k, <3>1, <3>2 DEF Scheduling, startPhase, Rework, ReworkRefused, retryOnce,
         cancelOnce
  <2>2. CASE Dispatching
    <3>1. ASSUME NEW o \in Owners, deliverClaimed(o) PROVE reservation'[q] # "active"
      BY <2>0, <3>1 DEF deliverClaimed, markDelivered, RowInv, TypeOK, Dead
    <3>2. ASSUME NEW o \in Owners, deadLetter(o) PROVE reservation'[q] # "active"
      BY <2>0, <3>2 DEF deadLetter, RowInv, TypeOK
    <3> QED
      BY <2>2, <2>k, <3>1, <3>2 DEF Dispatching, claim, deliveryThrows, retry,
         settlementThrows, ServerCrash, LeaseLapses
  <2>3. CASE Recovering
    <3>1. ASSUME NEW r \in Runs, sweepResolve(r) PROVE reservation'[q] # "active"
      BY <2>0, <3>1 DEF sweepResolve, RowInv, TypeOK
    <3> QED
      BY <2>3, <2>k, <3>1 DEF Recovering, scanStart, scanRelease, Expires, expireStaleDispatch
  <2>4. CASE Running
    <3>1. UNCHANGED <<command, reservation>>
      BY <2>4 DEF Running, handleRecorded, handleRefused, handleLaunch, Arrives, started,
         verified, published, emitFailure, bootstrapThrows, cancelledRun, Advance, settled,
         emergencyStop, RunnerRestart, Disconnect, Reconcile
    <3> QED
      BY <3>1, <2>k
  <2>5. CASE Applying
    <3>1. ASSUME NEW i \in DOMAIN outbox, applyCommandAck(i) PROVE reservation'[q] # "active"
      <4>1. command' = [command EXCEPT ![outbox[i].run] = outbox[i].value]
        BY <3>1 DEF applyCommandAck
      <4>2. outbox[i].value \in Over => settleTerminalUsage(outbox[i].run, outbox[i].value)
        BY <3>1 DEF applyCommandAck, TERMINAL_COMMAND_STATES, Dead
      <4>3. \/ settleTerminalUsage(outbox[i].run, outbox[i].value)
            \/ reservation' = reservation
        BY <3>1 DEF applyCommandAck
      <4>4. CASE q = outbox[i].run
        <5>1. outbox[i].value \in Over
          BY <4>1, <4>4 DEF RowInv, TypeOK
        <5> QED
          BY <4>2, <4>4, <5>1 DEF settleTerminalUsage, RowInv, TypeOK
      <4>5. CASE q # outbox[i].run
        <5>1. command'[q] = command[q]
          BY <4>1, <4>5 DEF RowInv, TypeOK
        <5>2. reservation'[q] = reservation[q]
          BY <4>3, <4>5 DEF settleTerminalUsage, RowInv, TypeOK
        <5> QED
          BY <5>1, <5>2, <2>k
      <4> QED
        BY <4>4, <4>5
    <3>2. ASSUME NEW i \in DOMAIN outbox, applyCompleted(i) \/ applyStopped(i)
          PROVE  reservation'[q] # "active"
      BY <2>0, <3>2 DEF applyCompleted, applyStopped, settleTerminalUsage, RowInv, TypeOK
    <3> QED
      BY <2>5, <2>k, <3>1, <3>2 DEF Applying, applyStarted, applyVerification,
         rejectRunnerEvents
  <2>6. CASE UNCHANGED vars
    BY <2>6, <2>k DEF vars
  <2> QED
    BY <2>1, <2>2, <2>3, <2>4, <2>5, <2>6 DEF Next
<1> QED
  BY <1>1, <1>2, RowInvariant, PTL DEF Spec

-----------------------------------------------------------------------------
(* A completed task is green.                                                *)

(* Where the verification results of run r are in a buffer of events.        *)
Verdicts(box, r) ==
  {i \in DOMAIN box : box[i].run = r /\ box[i].kind = "verification_result"}

(* A run reports one verification: nothing before it is under way, nothing   *)
(* while it prepares or codes, and from then on either one result in the     *)
(* buffer or what the server made of it.                                     *)
VerdictInv ==
  \A r \in Runs :
    /\ executed[r] = "none" => stage[r] = "idle"
    /\ executed[r] = "none" \/ stage[r] \in {"preparing", "coding"}
       => verification[r] = "pending" /\ Verdicts(outbox, r) = {}
    /\ \A i \in Verdicts(outbox, r) : /\ verification[r] = "pending"
                                      /\ \A j \in Verdicts(outbox, r) : i = j

(* Other events behind the buffer leave the results where they are.          *)
LEMMA AppendedVerdicts ==
  ASSUME outbox \in Seq(Events), NEW f \in Seq(Events), NEW r, Verdicts(f, r) = {}
  PROVE  Verdicts(outbox \o f, r) = Verdicts(outbox, r)
<1>1. /\ Len(outbox) \in Nat /\ DOMAIN outbox = 1..Len(outbox)
      /\ Len(f) \in Nat /\ DOMAIN f = 1..Len(f)
      /\ DOMAIN (outbox \o f) = 1..Len(outbox) + Len(f)
      /\ \A i \in 1..Len(outbox) + Len(f) :
           (outbox \o f)[i] = IF i <= Len(outbox) THEN outbox[i] ELSE f[i - Len(outbox)]
  BY LenProperties, ConcatProperties
<1>2. \A i \in 1..Len(outbox) + Len(f) : i > Len(outbox) => i \notin Verdicts(outbox \o f, r)
  BY <1>1 DEF Verdicts
<1> QED
  BY <1>1, <1>2 DEF Verdicts

(* One event behind the buffer.                                              *)
LEMMA AppendedVerdict ==
  ASSUME outbox \in Seq(Events), NEW e \in Events, NEW r,
         e.kind # "verification_result" \/ e.run # r
  PROVE  /\ Verdicts(outbox \o <<e>>, r) = Verdicts(outbox, r)
         /\ Verdicts(Append(outbox, e), r) = Verdicts(outbox, r)
<1>1. /\ Len(outbox) \in Nat /\ DOMAIN outbox = 1..Len(outbox)
      /\ outbox \o <<e>> = Append(outbox, e)
      /\ DOMAIN Append(outbox, e) = 1..Len(outbox) + 1
      /\ \A i \in 1..Len(outbox) : Append(outbox, e)[i] = outbox[i]
      /\ Append(outbox, e)[Len(outbox) + 1] = e
  OBVIOUS
<1>2. \A i \in 1..Len(outbox) + 1 : i \in 1..Len(outbox) \/ i = Len(outbox) + 1
  BY <1>1
<1>3. Verdicts(Append(outbox, e), r) = Verdicts(outbox, r)
  BY <1>1, <1>2 DEF Verdicts
<1> QED
  BY <1>1, <1>3

(* Consuming an event moves the results behind it up, and adds none.         *)
LEMMA ConsumedVerdicts ==
  ASSUME TypeOK, NEW i \in DOMAIN outbox, Consume(i), NEW r
  PROVE  \A j \in Verdicts(outbox', r) :
           /\ j \in Nat
           /\ (IF j < i THEN j ELSE j + 1) \in Verdicts(outbox, r) \ {i}
<1>1. outbox \in Seq(Events) /\ Len(outbox) \in Nat /\ DOMAIN outbox = 1..Len(outbox)
  BY LenProperties DEF TypeOK
<1>2. outbox' = [j \in 1..(Len(outbox) - 1) |-> IF j < i THEN outbox[j] ELSE outbox[j + 1]]
  BY DEF Consume
<1> QED
  BY <1>1, <1>2 DEF Verdicts

(* The executor's steps: a result is reported once, on the way out of coding. *)
LEMMA RunningVerdicts == TypeOK /\ VerdictInv /\ Running => VerdictInv'
<1> SUFFICES ASSUME TypeOK, VerdictInv, Running, NEW q \in Runs
    PROVE  /\ executed'[q] = "none" => stage'[q] = "idle"
           /\ executed'[q] = "none" \/ stage'[q] \in {"preparing", "coding"}
              => verification'[q] = "pending" /\ Verdicts(outbox', q) = {}
           /\ \A i \in Verdicts(outbox', q) : /\ verification'[q] = "pending"
                                              /\ \A j \in Verdicts(outbox', q) : i = j
  BY DEF VerdictInv
<1> DEFINE Good == /\ executed'[q] = "none" => stage'[q] = "idle"
                   /\ executed'[q] = "none" \/ stage'[q] \in {"preparing", "coding"}
                      => verification'[q] = "pending" /\ Verdicts(outbox', q) = {}
                   /\ \A i \in Verdicts(outbox', q) : /\ verification'[q] = "pending"
                                                      /\ \A j \in Verdicts(outbox', q) : i = j
           Fresh == executed[q] = "none" \/ stage[q] \in {"preparing", "coding"}
<1>1. /\ outbox \in Seq(Events)
      /\ executed \in [Runs -> Executions]
      /\ stage \in [Runs -> {"idle"} \cup LiveStages \cup FinalStages]
  BY DEF TypeOK
<1>2. verification' = verification
  BY DEF Running, handleRecorded, handleRefused, handleLaunch, Arrives, started, verified,
     published, emitFailure, bootstrapThrows, cancelledRun, Advance, settled, emergencyStop,
     RunnerRestart, Disconnect, Reconcile, rowVars
<1>3. ASSUME Verdicts(outbox', q) = Verdicts(outbox, q),
             executed'[q] = "none" => executed[q] = "none" /\ stage'[q] = "idle",
             stage'[q] \in {"preparing", "coding"} => Fresh
      PROVE  Good
  BY <1>2, <1>3 DEF VerdictInv
<1>4. ASSUME NEW r \in Runs, handleRecorded(r) \/ handleRefused(r) \/ handleLaunch(r)
      PROVE  Good
  <2>1. \/ outbox' = outbox
        \/ \E v \in Executions \ {"none"} : outbox' = Append(outbox, Ack(r, v))
    BY <1>4 DEF handleRecorded, handleRefused, handleLaunch, Executions, Dead
  <2>2. \A v \in Executions \ {"none"} : Ack(r, v) \in Events /\ Ack(r, v).kind = "command_ack"
    BY EventTypes DEF Ack
  <2>3. Verdicts(outbox', q) = Verdicts(outbox, q)
    <3>1. CASE outbox' = outbox
      BY <3>1
    <3>2. ASSUME NEW v \in Executions \ {"none"}, outbox' = Append(outbox, Ack(r, v))
          PROVE  Verdicts(outbox', q) = Verdicts(outbox, q)
      <4> DEFINE e == Ack(r, v)
      <4>1. e \in Events /\ e.kind # "verification_result"
        BY <2>2
      <4> HIDE DEF e
      <4>2. Verdicts(Append(outbox, e), q) = Verdicts(outbox, q)
        BY <1>1, <4>1, AppendedVerdict
      <4> QED
        BY <3>2, <4>2 DEF e
    <3> QED
      BY <2>1, <3>1, <3>2
  <2>4. executed'[q] = "none" => executed[q] = "none" /\ stage'[q] = stage[q]
    <3>1. CASE q = r
      BY <1>1, <1>4, <3>1 DEF handleRecorded, handleRefused, handleLaunch
    <3>2. CASE q # r
      BY <1>1, <1>4, <3>2 DEF handleRecorded, handleRefused, handleLaunch
    <3> QED
      BY <3>1, <3>2
  <2>5. stage'[q] # stage[q] => executed[q] = "none"
    BY <1>1, <1>4 DEF handleRecorded, handleRefused, handleLaunch
  <2> QED
    BY <1>3, <2>3, <2>4, <2>5 DEF VerdictInv
<1>5. ASSUME NEW r \in Runs, NEW from, NEW to, NEW emitted, Advance(r, from, to, emitted),
             from \subseteq LiveStages, to # "preparing",
             to = "coding" => from = {"preparing"},
             Verdicts(outbox', q) = Verdicts(outbox, q)
      PROVE  Good
  <2>1. executed' = executed /\ stage' = [stage EXCEPT ![r] = to] /\ stage[r] \in from
    BY <1>5 DEF Advance
  <2>2. executed[q] = "none" => q # r
    BY <1>5, <2>1 DEF VerdictInv, LiveStages
  <2>3. stage'[q] = IF q = r THEN to ELSE stage[q]
    BY <1>1, <2>1
  <2> QED
    BY <1>3, <1>5, <2>1, <2>2, <2>3 DEF VerdictInv
<1>6. ASSUME NEW r \in Runs, NEW from, NEW to, NEW e \in Events, Advance(r, from, to, <<e>>),
             from \subseteq LiveStages, to # "preparing",
             to = "coding" => from = {"preparing"},
             e.kind # "verification_result"
      PROVE  Good
  <2>1. outbox' = outbox \o <<e>>
    BY <1>6 DEF Advance
  <2>2. Verdicts(outbox', q) = Verdicts(outbox, q)
    BY <1>1, <1>6, <2>1, AppendedVerdict
  <2> QED
    BY <1>5, <1>6, <2>2
<1>7. ASSUME NEW r \in Runs, NEW to \in {"green", "red"}, NEW v \in {"passed", "failed"},
             Advance(r, {"coding"}, to, <<Verification(r, v)>>)
      PROVE  Good
  <2>1. /\ outbox' = outbox \o <<Verification(r, v)>> /\ stage[r] = "coding"
        /\ stage' = [stage EXCEPT ![r] = to] /\ executed' = executed
    BY <1>7 DEF Advance
  <2>2. Verification(r, v) \in Events /\ Verification(r, v).run = r
    BY EventTypes DEF Verification
  <2>3. CASE q # r
    <3>1. Verdicts(outbox', q) = Verdicts(outbox, q)
      BY <1>1, <2>1, <2>2, <2>3, AppendedVerdict
    <3> QED
      BY <1>1, <1>3, <2>1, <2>3, <3>1 DEF VerdictInv
  <2>4. CASE q = r
    <3>1. /\ executed[q] # "none" /\ verification[q] = "pending" /\ Verdicts(outbox, q) = {}
      BY <2>1, <2>4 DEF VerdictInv
    <3>2. stage'[q] = to
      BY <1>1, <2>1, <2>4
    <3> DEFINE n == Len(outbox)
    <3>3. /\ n \in Nat /\ DOMAIN outbox = 1..n /\ DOMAIN outbox' = 1..n + 1
          /\ \A i \in 1..n : outbox'[i] = outbox[i]
      BY <1>1, <2>1, <2>2
    <3>4. \A i \in Verdicts(outbox', q) : i = n + 1
      BY <3>1, <3>3 DEF Verdicts
    <3> QED
      BY <1>2, <2>1, <3>1, <3>2, <3>4
  <2> QED
    BY <2>3, <2>4
<1>8. ASSUME NEW r \in Runs,
             \/ started(r) \/ verified(r) \/ published(r) \/ emitFailure(r)
             \/ bootstrapThrows(r) \/ cancelledRun(r)
      PROVE  Good
  <2>1. /\ Status(r, "started") \in Events /\ Status(r, "completed") \in Events
        /\ Status(r, "failed") \in Events /\ Status(r, "cancelled") \in Events
    BY EventTypes
  <2>2. \A v : Status(r, v).kind # "verification_result"
    BY DEF Status
  <2>3. {"preparing"} \subseteq LiveStages /\ {"green"} \subseteq LiveStages
    BY DEF LiveStages
  <2>4. CASE started(r)
    BY <1>6, <2>1, <2>2, <2>3, <2>4 DEF started
  <2>5. CASE verified(r)
    BY <1>7, <2>5 DEF verified
  <2>6. CASE published(r)
    BY <1>6, <2>1, <2>2, <2>3, <2>6 DEF published
  <2>7. CASE emitFailure(r)
    BY <1>6, <2>1, <2>2, <2>7 DEF emitFailure
  <2>8. CASE bootstrapThrows(r)
    <3>1. Advance(r, {"preparing"}, "failed", <<>>)
      BY <2>8 DEF bootstrapThrows
    <3>2. outbox' = outbox
      BY <1>1, <3>1 DEF Advance
    <3> QED
      BY <1>5, <2>3, <3>1, <3>2
  <2>9. CASE cancelledRun(r)
    BY <1>6, <2>1, <2>2, <2>9 DEF cancelledRun
  <2> QED
    BY <1>8, <2>4, <2>5, <2>6, <2>7, <2>8, <2>9
<1>9. ASSUME NEW r \in Runs, settled(r) PROVE Good
  <2>1. stage[r] \in FinalStages /\ stage[r] \in Executions \ {"none"}
    BY <1>9 DEF settled, FinalStages, Executions, Dead
  <2>2. /\ outbox' = Append(outbox, Ack(r, stage[r]))
        /\ executed' = [executed EXCEPT ![r] = stage[r]]
        /\ stage' = [stage EXCEPT ![r] = "idle"]
    BY <1>9 DEF settled
  <2>3. Ack(r, stage[r]) \in Events /\ Ack(r, stage[r]).kind = "command_ack"
    BY <2>1, EventTypes DEF Ack
  <2>4. Verdicts(outbox', q) = Verdicts(outbox, q)
    BY <1>1, <2>2, <2>3, AppendedVerdict
  <2>5. executed'[q] = "none" => executed[q] = "none" /\ stage'[q] = "idle"
    BY <1>1, <2>1, <2>2 DEF VerdictInv
  <2>6. stage'[q] \in {"preparing", "coding"} => Fresh
    BY <1>1, <2>2
  <2> QED
    BY <1>3, <2>4, <2>5, <2>6
<1>10. CASE emergencyStop \/ RunnerRestart \/ Disconnect
  <2>1. UNCHANGED <<executed, outbox>> /\ stage'[q] \in {stage[q], "idle"}
    BY <1>10 DEF emergencyStop, RunnerRestart, Disconnect, runnerVars
  <2> QED
    BY <1>3, <2>1 DEF VerdictInv
<1>11. CASE Reconcile
  <2> DEFINE orphaned == {r \in Runs : executed[r] = "executing" /\ stage[r] = "idle"}
  <2>1. PICK order \in Orderings(orphaned) :
          outbox' = outbox \o [i \in DOMAIN order |-> Ack(order[i], "failed")]
    BY <1>11 DEF Reconcile
  <2>2. PICK n \in Nat : DOMAIN order = 1..n /\ \A i \in 1..n : order[i] \in orphaned
    BY OrderingsAreSequences
  <2> DEFINE acks == [i \in 1..n |-> Ack(order[i], "failed")]
  <2>3. acks \in Seq(Events)
    BY <2>2, EventTypes DEF Executions, Dead
  <2>4. DOMAIN acks = 1..n /\ \A i \in 1..n : acks[i].kind = "command_ack"
    BY DEF Ack
  <2>5. outbox' = outbox \o acks
    BY <2>1, <2>2
  <2> HIDE DEF acks
  <2>6. Verdicts(acks, q) = {}
    BY <2>4 DEF Verdicts
  <2>7. Verdicts(outbox', q) = Verdicts(outbox, q)
    BY <1>1, <2>3, <2>5, <2>6, AppendedVerdicts
  <2>8. stage' = stage /\ (executed'[q] = "none" => executed[q] = "none")
    BY <1>1, <1>11 DEF Reconcile
  <2> QED
    BY <1>3, <2>7, <2>8 DEF VerdictInv
<1> QED
  BY <1>4, <1>8, <1>9, <1>10, <1>11 DEF Running

(* The server's steps: an applied result leaves the buffer, and it was the    *)
(* only one of its run (Phase4RunnerEventProcessor.apply).                    *)
LEMMA ApplyingVerdicts == TypeOK /\ VerdictInv /\ Applying => VerdictInv'
<1> SUFFICES ASSUME TypeOK, VerdictInv, Applying, NEW q \in Runs
    PROVE  /\ executed'[q] = "none" => stage'[q] = "idle"
           /\ executed'[q] = "none" \/ stage'[q] \in {"preparing", "coding"}
              => verification'[q] = "pending" /\ Verdicts(outbox', q) = {}
           /\ \A i \in Verdicts(outbox', q) : /\ verification'[q] = "pending"
                                              /\ \A j \in Verdicts(outbox', q) : i = j
  BY DEF VerdictInv
<1> DEFINE Good == /\ executed'[q] = "none" => stage'[q] = "idle"
                   /\ executed'[q] = "none" \/ stage'[q] \in {"preparing", "coding"}
                      => verification'[q] = "pending" /\ Verdicts(outbox', q) = {}
                   /\ \A i \in Verdicts(outbox', q) : /\ verification'[q] = "pending"
                                                      /\ \A j \in Verdicts(outbox', q) : i = j
<1>1. ASSUME NEW i \in DOMAIN outbox, Consume(i)
      PROVE  /\ UNCHANGED <<executed, stage>>
             /\ Verdicts(outbox', q) # {} => Verdicts(outbox, q) \ {i} # {}
             /\ \A j, k \in Verdicts(outbox', q) : j = k
  <2>1. UNCHANGED <<executed, stage>>
    BY <1>1 DEF Consume
  <2>2. \A j \in Verdicts(outbox', q) :
           j \in Nat /\ (IF j < i THEN j ELSE j + 1) \in Verdicts(outbox, q) \ {i}
    BY <1>1, ConsumedVerdicts
  <2>3. i \in Nat
    BY <1>1, LenProperties DEF TypeOK
  <2>4. \A j, k \in Verdicts(outbox, q) : j = k
    BY DEF VerdictInv
  <2>5. \A j, k \in Verdicts(outbox', q) : j = k
    BY <2>2, <2>3, <2>4
  <2> QED
    BY <2>1, <2>2, <2>5
<1>2. ASSUME NEW i \in DOMAIN outbox, Consume(i), verification' = verification PROVE Good
  BY <1>1, <1>2 DEF VerdictInv
<1>3. ASSUME NEW i \in DOMAIN outbox, applyVerification(i) PROVE Good
  <2> DEFINE r == outbox[i].run
  <2>1. Consume(i) /\ i \in Verdicts(outbox, r)
    BY <1>3 DEF applyVerification, Verdicts
  <2>2. CASE q # r
    <3>1. verification'[q] = verification[q]
      BY <1>3, <2>2 DEF applyVerification, TypeOK
    <3> QED
      BY <1>1, <2>1, <3>1 DEF VerdictInv
  <2>3. CASE q = r
    <3>1. Verdicts(outbox, q) = {i}
      BY <2>1, <2>3 DEF VerdictInv
    <3>2. Verdicts(outbox', q) = {}
      BY <1>1, <2>1, <3>1
    <3> QED
      BY <1>1, <2>1, <3>1, <3>2 DEF VerdictInv
  <2> QED
    BY <2>2, <2>3
<1>4. CASE rejectRunnerEvents
  BY <1>4 DEF rejectRunnerEvents, rowVars, runnerVars, VerdictInv
<1> QED
  BY <1>2, <1>3, <1>4 DEF Applying, applyCommandAck, applyStarted, applyCompleted, applyStopped

(* Every run has at most one verdict, in the buffer or in its row.            *)
LEMMA OneVerdict == Spec => []VerdictInv
<1>1. Init => VerdictInv
  BY DEF Init, VerdictInv, Verdicts
<1>2. TypeOK /\ VerdictInv /\ [Next]_vars => VerdictInv'
  <2> SUFFICES ASSUME TypeOK, VerdictInv, [Next]_vars PROVE VerdictInv'
    OBVIOUS
  <2> USE DEF rowVars, runnerVars
  <2>1. UNCHANGED <<executed, stage, outbox, verification>> => VerdictInv'
    BY DEF VerdictInv
  <2>2. CASE Scheduling
    BY <2>1, <2>2 DEF Scheduling, startPhase, Rework, schedule, ReworkRefused, retryOnce,
       cancelOnce, complete
  <2>3. CASE Dispatching
    BY <2>1, <2>3 DEF Dispatching, claim, deliverClaimed, deliveryThrows, retry, deadLetter,
       settlementThrows, ServerCrash, LeaseLapses
  <2>4. CASE Recovering
    BY <2>1, <2>4 DEF Recovering, scanStart, scanRelease, Expires, expireStaleDispatch,
       sweepResolve
  <2>5. CASE UNCHANGED vars
    BY <2>1, <2>5 DEF vars
  <2> QED
    BY <2>2, <2>3, <2>4, <2>5, RunningVerdicts, ApplyingVerdicts DEF Next
<1> QED
  BY <1>1, <1>2, TypeCorrect, PTL DEF Spec

(* Only Phase4CompletionService completes a task.                             *)
LEMMA WhoCompletes ==
  ASSUME TypeOK, [Next]_vars, NEW t \in Tasks, task'[t] = "completed", task[t] # "completed"
  PROVE  complete(t)
<1> USE DEF rowVars
<1>1. task \in [Tasks -> V2TaskState]
  BY DEF TypeOK
<1>2. task' # task
  OBVIOUS
<1>3. CASE Scheduling
  <2>1. ASSUME NEW u \in Tasks, startPhase(u) \/ Rework(u) \/ ReworkRefused(u) \/ retryOnce(u)
                                \/ cancelOnce(u)
        PROVE  FALSE
    BY <1>1, <2>1 DEF startPhase, Rework, schedule, ReworkRefused, retryOnce, cancelOnce
  <2>2. ASSUME NEW u \in Tasks, complete(u) PROVE u = t
    BY <1>1, <2>2 DEF complete
  <2> QED
    BY <1>3, <2>1, <2>2 DEF Scheduling
<1>4. CASE Dispatching
  <2>1. ASSUME NEW o \in Owners, deadLetter(o) PROVE FALSE
    BY <1>1, <2>1 DEF deadLetter
  <2> QED
    BY <1>2, <1>4, <2>1 DEF Dispatching, claim, deliverClaimed, deliveryThrows, retry,
       settlementThrows, ServerCrash, LeaseLapses
<1>5. CASE Recovering
  <2>1. ASSUME NEW r \in Runs, expireStaleDispatch(r) PROVE FALSE
    BY <1>1, <2>1 DEF expireStaleDispatch
  <2> QED
    BY <1>2, <1>5, <2>1 DEF Recovering, scanStart, scanRelease, Expires, sweepResolve
<1>6. CASE Running
  BY <1>2, <1>6 DEF Running, handleRecorded, handleRefused, handleLaunch, Arrives, started,
     verified, published, emitFailure, bootstrapThrows, cancelledRun, Advance, settled,
     emergencyStop, RunnerRestart, Disconnect, Reconcile
<1>7. CASE Applying
  <2>1. ASSUME NEW i \in DOMAIN outbox, applyCommandAck(i) PROVE FALSE
    <3>1. \/ task' = task
          \/ \E u, v : /\ task' = [task EXCEPT ![u] = v]
                       /\ v = task[u] \/ v \in {"cancelled", "blocked"}
      BY <2>1 DEF applyCommandAck, taskAfterAck
    <3> QED
      BY <1>1, <3>1
  <2>2. ASSUME NEW i \in DOMAIN outbox, applyStarted(i) \/ applyVerification(i) \/ applyCompleted(i)
        PROVE  FALSE
    BY <1>1, <2>2 DEF applyStarted, applyVerification, applyCompleted
  <2>3. ASSUME NEW i \in DOMAIN outbox, applyStopped(i) PROVE FALSE
    BY <1>1, <2>3 DEF applyStopped
  <2>4. ~rejectRunnerEvents
    BY <1>2 DEF rejectRunnerEvents
  <2> QED
    BY <1>7, <2>1, <2>2, <2>3, <2>4 DEF Applying
<1>8. CASE UNCHANGED vars
  BY <1>2, <1>8 DEF vars
<1> QED
  BY <1>3, <1>4, <1>5, <1>6, <1>7, <1>8 DEF Next

(* Only a result of the runner changes the verification of a run.             *)
LEMMA WhoVerifies ==
  ASSUME [Next]_vars
  PROVE  verification' = verification \/ \E i \in DOMAIN outbox : applyVerification(i)
<1> USE DEF rowVars
<1>1. CASE Scheduling
  BY <1>1 DEF Scheduling, startPhase, Rework, schedule, ReworkRefused, retryOnce, cancelOnce,
     complete
<1>2. CASE Dispatching
  BY <1>2 DEF Dispatching, claim, deliverClaimed, deliveryThrows, retry, deadLetter,
     settlementThrows, ServerCrash, LeaseLapses
<1>3. CASE Recovering
  BY <1>3 DEF Recovering, scanStart, scanRelease, Expires, expireStaleDispatch, sweepResolve
<1>4. CASE Running
  BY <1>4 DEF Running, handleRecorded, handleRefused, handleLaunch, Arrives, started, verified,
     published, emitFailure, bootstrapThrows, cancelledRun, Advance, settled, emergencyStop,
     RunnerRestart, Disconnect, Reconcile
<1>5. CASE Applying
  BY <1>5 DEF Applying, applyCommandAck, applyStarted, applyCompleted, applyStopped,
     rejectRunnerEvents
<1>6. CASE UNCHANGED vars
  BY <1>6 DEF vars
<1> QED
  BY <1>1, <1>2, <1>3, <1>4, <1>5, <1>6 DEF Next

(* A completed task stands on its designated run, which succeeded with green *)
(* verification, for any number of attempts, late events and reworks         *)
(* (Phase4CompletionService, Phase4RunnerEventProcessor.apply).              *)
THEOREM CompletedGreen == Spec => []CompletedTaskIsGreen
<1>1. Init => CompletedTaskIsGreen
  BY DEF Init, CompletedTaskIsGreen
<1>2. ASSUME RowInv, VerdictInv, CompletedTaskIsGreen, [Next]_vars PROVE CompletedTaskIsGreen'
  <2> SUFFICES ASSUME NEW t \in Tasks, task'[t] = "completed"
               PROVE  /\ designated'[t] > 0 /\ run'[<<t, designated'[t]>>] = "succeeded"
                      /\ verification'[<<t, designated'[t]>>] = "passed"
    BY DEF CompletedTaskIsGreen, Designated
  <2> DEFINE d == <<t, designated[t]>>
  <2>1. TypeOK /\ Traced
    BY <1>2 DEF RowInv
  <2>2. CASE task[t] # "completed"
    <3>1. complete(t)
      BY <1>2, <2>1, <2>2, WhoCompletes
    <3> QED
      BY <3>1 DEF complete, Designated
  <2>3. CASE task[t] = "completed"
    <3>1. designated[t] > 0 /\ run[d] = "succeeded" /\ verification[d] = "passed"
      BY <1>2, <2>3 DEF CompletedTaskIsGreen, Designated
    <3>2. d \in Runs
      BY <2>1, <3>1, RunsFacts, ConstantsAssumption DEF TypeOK
    <3>3. designated'[t] = designated[t] /\ run'[d] = "succeeded"
      <4>1. CASE RunsKeep
        BY <3>1, <3>2, <4>1 DEF RunsKeep, V2_TERMINAL_AGENT_RUN_STATES
      <4>2. ASSUME NEW u \in Tasks, schedule(u), ScheduledRun(u)
            PROVE  designated'[t] = designated[t] /\ run'[d] = "succeeded"
        <5>1. u # t
          BY <2>1, <2>3, <4>2 DEF schedule, TypeOK
        <5> QED
          BY <2>1, <3>1, <3>2, <4>2, <5>1 DEF ScheduledRun, TypeOK
      <4> QED
        BY <1>2, <2>1, <4>1, <4>2, StepRuns
    <3>4. verification'[d] = "passed"
      <4>1. ASSUME NEW i \in DOMAIN outbox, applyVerification(i) PROVE outbox[i].run # d
        <5>1. outbox[i].run = d => i \in Verdicts(outbox, d)
          BY <4>1 DEF applyVerification, Verdicts
        <5> QED
          BY <1>2, <3>1, <3>2, <5>1 DEF VerdictInv
      <4>2. ASSUME NEW i \in DOMAIN outbox, applyVerification(i)
            PROVE  verification'[d] = verification[d]
        BY <2>1, <3>2, <4>1, <4>2 DEF applyVerification, TypeOK
      <4> QED
        BY <1>2, <3>1, <4>2, WhoVerifies
    <3> QED
      BY <3>1, <3>3, <3>4
  <2> QED
    BY <2>2, <2>3
<1> QED
  BY <1>1, <1>2, RowInvariant, OneVerdict, PTL DEF Spec
=============================================================================
