------------------------ MODULE DeviceControlProofs ------------------------
(***************************************************************************)
(* TLAPS proofs about DeviceControl, for every set of runs, window, bound   *)
(* and environment: what a stop's evidence proves, that a stop only gains   *)
(* evidence, that the device forgets it last, and that nothing is sent to   *)
(* the device of a stopped run.                                             *)
(***************************************************************************)
EXTENDS DeviceControl, FiniteSetTheorems, SequenceTheorems, WellFoundedInduction, TLAPS

-----------------------------------------------------------------------------
(* Operators of the model.                                                   *)

(* A non-empty set of naturals has a least element.  (The finite subsets of  *)
(* a set are well founded, here the initial segments 0..n.)                  *)
LEMMA LeastNatural ==
  ASSUME NEW S \in SUBSET Nat, S # {}
  PROVE  \E m \in S : \A n \in S : m <= n
<1> DEFINE T == {0..n : n \in S}
           R == StrictSubsetOrdering(Nat)
<1>1. T \subseteq FiniteSubsetsOf(Nat) /\ T # {}
  <2>1. \A n \in S : 0..n \in SUBSET Nat /\ IsFiniteSet(0..n)
    BY FS_Interval
  <2> QED
    BY <2>1 DEF FiniteSubsetsOf
<1>2. PICK x \in T : \A y \in T : <<y, x>> \notin R
  <2> HIDE DEF T, R
  <2>1. IsWellFoundedOn(R, FiniteSubsetsOf(Nat))
    BY FS_StrictSubsetOrderingWellFounded DEF R
  <2> QED
    BY <1>1, <2>1, WFMin
<1>3. PICK m \in S : x = 0..m
  BY <1>2
<1>4. ASSUME NEW n \in S, n < m PROVE FALSE
  <2>1. 0..n \subseteq 0..m /\ 0..n # 0..m
    BY <1>4
  <2>2. <<0..n, 0..m>> \in R
    BY <2>1 DEF StrictSubsetOrdering
  <2> QED
    BY <1>2, <1>3, <2>2
<1> QED
  BY <1>4

(* What the server and the device put on the socket is a frame.              *)
LEMMA FrameTypes ==
  /\ \A r \in Runs : Command(r) \in Frames /\ Stop(r) \in Frames
  /\ \A r \in Runs, s \in EvidenceStates : EvidenceAck(r, s) \in Frames
  /\ [type |-> "reconcile_response"] \in Frames
BY DEF Frames, Command, Stop, EvidenceAck

(* Only a reconcile response has no run.                                     *)
LEMMA FrameRun ==
  ASSUME NEW f \in Frames
  PROVE  /\ f.type # "reconcile_response" => f.run \in Runs
         /\ f.type = "evidence_ack" => f.state \in EvidenceStates
BY DEF Frames

(* The frame the device reads next, and what is left behind it.              *)
LEMMA HeadIsFrame ==
  ASSUME toRunner \in Seq(Frames), toRunner # <<>>
  PROVE  /\ Head(toRunner) \in Frames /\ Tail(toRunner) \in Seq(Frames)
         /\ Head(toRunner) = toRunner[1] /\ 1 \in DOMAIN toRunner
         /\ Len(Tail(toRunner)) = Len(toRunner) - 1
         /\ \A i \in 1..Len(toRunner) - 1 : /\ Tail(toRunner)[i] = toRunner[i + 1]
                                            /\ i + 1 \in DOMAIN toRunner
<1>1. Len(toRunner) \in Nat /\ DOMAIN toRunner = 1..Len(toRunner) /\ Len(toRunner) # 0
  BY EmptySeq, LenProperties
<1> QED
  BY <1>1, HeadTailProperties

(* A hook that could not send becomes one that marks the run.                *)
LEMMA HookFacts ==
  ASSUME NEW h \in Hooks
  PROVE  h.run \in Runs /\ [h EXCEPT !.step = "mark"] \in Hooks
<1>1. PICK b \in {"request", "revoke"}, r \in Runs, s \in {"send", "mark"} :
        h = [by |-> b, run |-> r, step |-> s]
  BY DEF Hooks
<1>2. [h EXCEPT !.step = "mark"] = [by |-> b, run |-> r, step |-> "mark"]
  BY <1>1
<1> QED
  BY <1>1, <1>2 DEF Hooks

(* The rows a query returned, as a sequence.                                 *)
LEMMA OrderedSequences ==
  ASSUME NEW S \in SUBSET Runs, NEW o \in Ordered(S)
  PROVE  \E n \in Nat : DOMAIN o = 1..n /\ \A i \in 1..n : o[i] \in S
<1>1. IsFiniteSet(S)
  BY DeviceConstants, FS_Subset
<1>2. Cardinality(S) \in Nat
  BY <1>1, FS_CardinalityType
<1> QED
  BY <1>2 DEF Ordered

(* One frame per row of a query is a sequence of frames.                     *)
LEMMA FramesOfRows ==
  ASSUME NEW S \in SUBSET Runs, NEW o \in Ordered(S)
  PROVE  /\ [i \in DOMAIN o |-> Stop(o[i])] \in Seq(Frames)
         /\ [i \in DOMAIN o |-> Command(o[i])] \in Seq(Frames)
<1>1. PICK n \in Nat : DOMAIN o = 1..n /\ \A i \in 1..n : o[i] \in S
  BY OrderedSequences
<1>2. \A i \in 1..n : Stop(o[i]) \in Frames /\ Command(o[i]) \in Frames
  BY <1>1, FrameTypes
<1> QED
  BY <1>1, <1>2

(* A send leaves a sequence of frames.                                       *)
LEMMA SentTypes ==
  ASSUME toRunner \in Seq(Frames), NEW f \in Seq(Frames)
  PROVE  Sent(f) \in Seq(Frames)
BY ConcatProperties DEF Sent

(* Evidence that is due is evidence.                                         *)
LEMMA DueTypes == \A j, c : Due(j, c) \subseteq Evidence
BY DEF Due

(* Pruning removes a prefix: the watermark exists, being the first event     *)
(* that is not durable.                                                      *)
LEMMA PruneTypes ==
  ASSUME NEW o \in Seq(Events)
  PROVE  pruneAcked(o) \in Seq(Events)
<1> DEFINE Missing == {k \in 1..Len(o) : ~o[k].applied}
           First(k) == /\ \A i \in 1..k - 1 : o[i].applied
                       /\ k <= Len(o) => ~o[k].applied
<1>1. Len(o) \in Nat /\ \A i \in 1..Len(o) : o[i] \in Events
  BY LenProperties
<1>2. \E k \in 1..Len(o) + 1 : First(k)
  <2>1. CASE Missing = {}
    <3>1. First(Len(o) + 1)
      BY <1>1, <2>1
    <3> QED
      BY <1>1, <3>1
  <2>2. CASE Missing # {}
    <3>1. Missing \in SUBSET Nat
      BY <1>1
    <3>2. PICK m \in Missing : \A n \in Missing : m <= n
      <4> HIDE DEF Missing
      <4> QED
        BY <2>2, <3>1, LeastNatural
    <3>3. First(m)
      BY <1>1, <3>2
    <3> QED
      BY <1>1, <3>3
  <2> QED
    BY <2>1, <2>2
<1> DEFINE first == CHOOSE k \in 1..Len(o) + 1 : First(k)
<1>3. first \in 1..Len(o) + 1
  <2> HIDE DEF First
  <2> QED
    BY <1>2
<1>4. SubSeq(o, first, Len(o)) \in Seq(Events)
  <2> HIDE DEF first
  <2> QED
    BY <1>1, <1>3, SubSeqProperties
<1> QED
  BY <1>4 DEF pruneAcked

-----------------------------------------------------------------------------
(* Type correctness.  The state is split as its tuples of variables are, so  *)
(* that an action is only asked about the tuples it touches.                 *)

RowStates == Active \cup {"succeeded", "failed", "cancelled", "expired"}
TaskStates == {"assigned", "in_progress", "in_review", "blocked", "failed", "cancelled"}
JobStates == {"queued", "leased", "delivered", "completed", "cancelled"}
StopStates == {"none"} \cup Unanswered \cup EvidenceStates
Causes == {"none", "project_stop", "device_revocation", "emergency_stop"}

RowTypes ==
  /\ device \in {"active", "revoked"}
  /\ run \in [Runs -> RowStates]
  /\ task \in [Runs -> TaskStates]
  /\ job \in [Runs -> JobStates]
  /\ stop \in [Runs -> StopStates]
  /\ cause \in [Runs -> Causes]
  /\ fenced \subseteq Runs
MemoryTypes == claimed \subseteq Runs /\ hooks \subseteq Hooks /\ closing \in BOOLEAN
LinkTypes ==
  /\ link \in Links /\ todo \subseteq {"control", "reconcile"}
  /\ toRunner \in Seq(Frames)
  /\ wire \subseteq Evidence /\ late \subseteq Evidence /\ sending \in BOOLEAN
DiskTypes ==
  /\ journal \in [Runs -> {"none", "acknowledged", "exited"}]
  /\ confirmed \in [Runs -> SUBSET EvidenceStates]
  /\ executed \in [Runs -> {"none", "executing", "ended"}]
  /\ outbox \in Seq(Events)
ProcessTypes ==
  /\ live \in [Runs -> {"unknown", "live", "reaped", "unreaped"}]
  /\ aborted \subseteq Runs /\ watch \subseteq Runs /\ offline \in BOOLEAN
  /\ tree \in [Runs -> {"none", "alive", "gone"}]
BoundTypes == faults \in 0..MaxFaults /\ replays \in 0..MaxReplays

(* The split is all of TypeOK.                                               *)
LEMMA TypeParts ==
  TypeOK <=> RowTypes /\ MemoryTypes /\ LinkTypes /\ DiskTypes /\ ProcessTypes /\ BoundTypes
BY DEF TypeOK, RowTypes, MemoryTypes, LinkTypes, DiskTypes, ProcessTypes, BoundTypes,
   RowStates, TaskStates, JobStates, StopStates, Causes

(* The same after a step.                                                    *)
LEMMA TypePartsNext ==
  TypeOK' <=> RowTypes' /\ MemoryTypes' /\ LinkTypes' /\ DiskTypes' /\ ProcessTypes' /\ BoundTypes'
BY DEF TypeOK, RowTypes, MemoryTypes, LinkTypes, DiskTypes, ProcessTypes, BoundTypes,
   RowStates, TaskStates, JobStates, StopStates, Causes

(* A tuple that a step leaves alone keeps its types.                         *)
LEMMA SameTypes ==
  /\ RowTypes /\ UNCHANGED rowVars => RowTypes'
  /\ MemoryTypes /\ UNCHANGED memoryVars => MemoryTypes'
  /\ LinkTypes /\ UNCHANGED linkVars => LinkTypes'
  /\ DiskTypes /\ UNCHANGED diskVars => DiskTypes'
  /\ ProcessTypes /\ UNCHANGED processVars => ProcessTypes'
  /\ BoundTypes /\ UNCHANGED boundVars => BoundTypes'
BY DEF RowTypes, MemoryTypes, LinkTypes, DiskTypes, ProcessTypes, BoundTypes,
   rowVars, memoryVars, linkVars, diskVars, processVars, boundVars

(* Losing the socket leaves frames and links of the right type.              *)
LEMMA LoseSocketTypes == LinkTypes /\ LoseSocket => LinkTypes'
<1> SUFFICES ASSUME LinkTypes, LoseSocket PROVE LinkTypes'
  OBVIOUS
<1>1. toRunner' \in Seq(Frames)
  BY EmptySeq DEF LoseSocket
<1>2. late' \subseteq Evidence
  BY DEF LoseSocket, LinkTypes
<1> QED
  BY <1>1, <1>2 DEF LoseSocket, LinkTypes, Links

(* The server's refusal of a frame too.                                      *)
LEMMA RefuseTypes == LinkTypes /\ Refuse => LinkTypes'
BY DEF LinkTypes, Refuse, Links

(* The device's crash, or its unhandled exception.                           *)
LEMMA LoseRunnerTypes == LinkTypes /\ ProcessTypes /\ LoseRunner => LinkTypes' /\ ProcessTypes'
<1> SUFFICES ASSUME LinkTypes, ProcessTypes, LoseRunner PROVE LinkTypes' /\ ProcessTypes'
  OBVIOUS
<1>1. tree' \in [Runs -> {"none", "alive", "gone"}]
  <2>1. PICK dead \in SUBSET {r \in Runs : tree[r] = "alive"} :
          tree' = [r \in Runs |-> IF r \in dead THEN "gone" ELSE tree[r]]
    BY DEF LoseRunner
  <2> QED
    BY <2>1 DEF ProcessTypes
<1>2. LinkTypes'
  BY LoseSocketTypes DEF LoseRunner
<1> QED
  BY <1>1, <1>2 DEF LoseRunner, ProcessTypes

(* Faults and repeated requests stay within their bounds.                    *)
LEMMA BoundsHold ==
  ASSUME BoundTypes, Replay \/ (\E e \in EnvironmentEvents : Fault(e)) \/ UNCHANGED boundVars
  PROVE  BoundTypes'
<1>1. MaxFaults \in Nat /\ MaxReplays \in Nat
  BY DeviceConstants
<1>2. faults' = faults \/ (faults < MaxFaults /\ faults' = faults + 1)
  BY DEF Replay, Fault, boundVars
<1>3. replays' = replays \/ (replays < MaxReplays /\ replays' = replays + 1)
  BY DEF Replay, Fault, boundVars
<1> QED
  BY <1>1, <1>2, <1>3 DEF BoundTypes

(* Sending frames on the socket.                                             *)
LEMMA SendKeepsTypes ==
  ASSUME LinkTypes, NEW f \in Seq(Frames), toRunner' = Sent(f),
         UNCHANGED <<link, wire, late, sending>>, todo' \subseteq todo
  PROVE  LinkTypes'
<1>1. toRunner' \in Seq(Frames)
  BY SentTypes DEF LinkTypes
<1> QED
  BY <1>1 DEF LinkTypes

(* Dispatching a run.                                                        *)
LEMMA DispatchTypes ==
  ASSUME TypeOK, NEW r \in Runs, claim(r) \/ deliverClaimed(r)
  PROVE  TypeOK'
<1> USE TypeParts, TypePartsNext, SameTypes
<1>1. \/ job' = [job EXCEPT ![r] = IF @ = "completed" THEN @ ELSE "cancelled"]
      \/ \E j \in {"leased", "delivered", "queued"} : job' = [job EXCEPT ![r] = j]
  BY DEF claim, deliverClaimed, cancelStaleCommand
<1>2. job' \in [Runs -> JobStates]
  BY <1>1 DEF RowTypes, JobStates
<1>3. run' = run \/ run' = [run EXCEPT ![r] = IF @ = "created" THEN "dispatched" ELSE @]
  BY DEF claim, deliverClaimed
<1>4. run' \in [Runs -> RowStates]
  BY <1>3 DEF RowTypes, RowStates, Active
<1>5. RowTypes'
  BY <1>2, <1>4 DEF claim, deliverClaimed, RowTypes
<1>6. MemoryTypes'
  BY DEF claim, deliverClaimed, MemoryTypes
<1>7. LinkTypes'
  <2>1. <<Command(r)>> \in Seq(Frames)
    BY FrameTypes
  <2>2. toRunner' = Sent(<<Command(r)>>) \/ toRunner' = toRunner
    BY DEF claim, deliverClaimed, linkVars
  <2>3. UNCHANGED <<link, todo, wire, late, sending>>
    BY DEF claim, deliverClaimed, linkVars
  <2> QED
    BY <2>1, <2>2, <2>3, SendKeepsTypes DEF linkVars
<1>8. BoundTypes'
  <2>1. Fault("commit_lost") \/ UNCHANGED boundVars
    BY DEF claim, deliverClaimed
  <2> QED
    BY <2>1, BoundsHold DEF EnvironmentEvents
<1> QED
  BY <1>5, <1>6, <1>7, <1>8 DEF claim, deliverClaimed

(* Asking for a stop, and revoking the device.                               *)
LEMMA RequestTypes ==
  ASSUME TypeOK,
         \/ \E r \in Runs : requestProjectStop(r) \/ replayProjectStop(r) \/ requestWatchdogStop(r)
         \/ revoke \/ replayRevoke
  PROVE  TypeOK'
<1> USE TypeParts, TypePartsNext, SameTypes
<1>1. \A S \in SUBSET Runs, by \in {"request", "revoke"} : SendHook(by, S) \subseteq Hooks
  BY DEF SendHook, Hooks
<1>2. MemoryTypes'
  <2>1. PICK S \in SUBSET Runs, by \in {"request", "revoke"} : hooks' = hooks \cup SendHook(by, S)
    BY DEF requestProjectStop, replayProjectStop, requestWatchdogStop, revoke, replayRevoke,
       RowTypes
  <2>2. claimed' = claimed /\ closing' \in {closing, TRUE}
    BY DEF requestProjectStop, replayProjectStop, requestWatchdogStop, revoke, replayRevoke
  <2> QED
    BY <1>1, <2>1, <2>2 DEF MemoryTypes
<1>3. BoundTypes' /\ UNCHANGED <<linkVars, diskVars, processVars>>
  <2>1. Replay \/ UNCHANGED boundVars
    BY DEF requestProjectStop, replayProjectStop, requestWatchdogStop, revoke, replayRevoke
  <2> QED
    BY <2>1, BoundsHold
    DEF requestProjectStop, replayProjectStop, requestWatchdogStop, revoke, replayRevoke
<1>4. RowTypes'
  <2>1. ASSUME NEW r \in Runs, requestProjectStop(r) PROVE RowTypes'
    <3>1. job' \in [Runs -> JobStates] /\ run' \in [Runs -> RowStates]
      BY <2>1 DEF requestProjectStop, RowTypes, JobStates, RowStates
    <3>2. stop' \in [Runs -> StopStates] /\ cause' \in [Runs -> Causes]
      BY <2>1 DEF requestProjectStop, RowTypes, StopStates, Unanswered, Causes
    <3> QED
      BY <2>1, <3>1, <3>2 DEF requestProjectStop, RowTypes
  <2>2. ASSUME NEW r \in Runs, requestWatchdogStop(r) PROVE RowTypes'
    BY <2>2 DEF requestWatchdogStop, RowTypes, StopStates, Unanswered, Causes
  <2>3. ASSUME revoke PROVE RowTypes'
    BY <2>3 DEF revoke, RowTypes, StopStates, Unanswered, Causes, JobStates
  <2> QED
    BY <2>1, <2>2, <2>3 DEF replayProjectStop, replayRevoke
<1> QED
  BY <1>2, <1>3, <1>4

(* The post-commit hooks.                                                    *)
LEMMA HookTypes ==
  ASSUME TypeOK,
         \/ closeRevokedDevice
         \/ \E h \in hooks : requestCancellation(h) \/ markUnconfirmedOffline(h)
  PROVE  TypeOK'
<1> USE TypeParts, TypePartsNext, SameTypes
<1>1. CASE closeRevokedDevice
  <2>1. LinkTypes'
    BY <1>1 DEF closeRevokedDevice, LinkTypes, Links
  <2>2. MemoryTypes'
    BY <1>1 DEF closeRevokedDevice, MemoryTypes
  <2> QED
    BY <1>1, <2>1, <2>2 DEF closeRevokedDevice
<1>2. ASSUME NEW h \in hooks
      PROVE  h \in Hooks /\ h.run \in Runs /\ [h EXCEPT !.step = "mark"] \in Hooks
  BY HookFacts DEF MemoryTypes
<1>3. ASSUME NEW h \in hooks, requestCancellation(h) PROVE TypeOK'
  <2>1. <<Stop(h.run)>> \in Seq(Frames)
    <3>1. h.run \in Runs
      BY <1>2
    <3>2. Stop(h.run) \in Frames
      BY <3>1, FrameTypes
    <3> QED
      BY <3>2
  <2>2. toRunner' = Sent(<<Stop(h.run)>>) \/ toRunner' = toRunner
    BY <1>3 DEF requestCancellation
  <2>3. UNCHANGED <<link, todo, wire, late, sending>>
    BY <1>3 DEF requestCancellation
  <2>4. LinkTypes'
    BY <2>1, <2>2, <2>3, SendKeepsTypes DEF linkVars
  <2>5. MemoryTypes'
    BY <1>2, <1>3 DEF requestCancellation, MemoryTypes
  <2> QED
    BY <1>3, <2>4, <2>5 DEF requestCancellation
<1>4. ASSUME NEW h \in hooks, markUnconfirmedOffline(h) PROVE TypeOK'
  <2>1. RowTypes'
    BY <1>4 DEF markUnconfirmedOffline, RowTypes, StopStates, Unanswered
  <2>2. MemoryTypes'
    BY <1>4 DEF markUnconfirmedOffline, MemoryTypes
  <2> QED
    BY <1>4, <2>1, <2>2 DEF markUnconfirmedOffline
<1> QED
  BY <1>1, <1>3, <1>4

(* A new connection.                                                         *)
LEMMA ConnectionTypes ==
  ASSUME TypeOK, Connect \/ deliverPending \/ reconcile
  PROVE  TypeOK'
<1> USE TypeParts, TypePartsNext, SameTypes
<1>1. CASE Connect
  <2>1. LinkTypes'
    BY <1>1, DueTypes DEF Connect, LinkTypes, Links
  <2>2. ProcessTypes'
    BY <1>1 DEF Connect, ProcessTypes
  <2> QED
    BY <1>1, <2>1, <2>2 DEF Connect
<1>2. CASE deliverPending
  <2> DEFINE S == {r \in Runs : stop[r] \notin {"none", "process_exited"} /\ run[r] \in Active}
  <2>1. UNCHANGED <<wire, late, sending>> /\ todo' \subseteq todo
    BY <1>2 DEF deliverPending, SendPending
  <2>2. CASE link' = link /\ \E o \in Ordered(S) : toRunner' = Sent([i \in DOMAIN o |-> Stop(o[i])])
    <3>1. PICK o \in Ordered(S) : toRunner' = Sent([i \in DOMAIN o |-> Stop(o[i])])
      BY <2>2
    <3>2. [i \in DOMAIN o |-> Stop(o[i])] \in Seq(Frames)
      BY FramesOfRows
    <3>3. LinkTypes'
      BY <2>1, <2>2, <3>1, <3>2, SendKeepsTypes
    <3> QED
      BY <1>2, <3>3 DEF deliverPending, SendPending
  <2>3. CASE toRunner' = toRunner /\ link' = IF link = "up" THEN "removed" ELSE link
    <3>1. LinkTypes'
      BY <2>1, <2>3 DEF LinkTypes, Links
    <3> QED
      BY <1>2, <3>1 DEF deliverPending, SendPending
  <2> QED
    BY <1>2, <2>2, <2>3 DEF deliverPending, SendPending
<1>3. CASE reconcile
  <2> DEFINE S == {r \in {q \in Runs : job[q] = "delivered"} : Authorized(r) /\ executed[r] = "none"}
             F(o) == <<[type |-> "reconcile_response"]>> \o [i \in DOMAIN o |-> Command(o[i])]
  <2>1. CASE device = "active"
    <3>1. PICK o \in Ordered(S) : toRunner' = Sent(F(o))
      BY <1>3, <2>1 DEF reconcile
    <3>2. F(o) \in Seq(Frames)
      <4>1. <<[type |-> "reconcile_response"]>> \in Seq(Frames)
        BY FrameTypes
      <4>2. [i \in DOMAIN o |-> Command(o[i])] \in Seq(Frames)
        BY FramesOfRows
      <4> QED
        BY <4>1, <4>2, ConcatProperties
    <3>3. UNCHANGED <<link, wire, late, sending>> /\ todo' \subseteq todo
      BY <1>3, <2>1 DEF reconcile
    <3>4. LinkTypes'
      <4> HIDE DEF F
      <4> QED
        BY <3>1, <3>2, <3>3, SendKeepsTypes
    <3>5. job' \in [Runs -> JobStates]
      BY <1>3, <2>1 DEF reconcile, RowTypes, JobStates
    <3> QED
      BY <1>3, <3>4, <3>5 DEF reconcile, RowTypes
  <2>2. CASE device # "active"
    BY <1>3, <2>2, RefuseTypes DEF reconcile, rowVars
  <2> QED
    BY <2>1, <2>2
<1> QED
  BY <1>1, <1>2, <1>3

(* The server records evidence.                                              *)
LEMMA EvidenceTypes ==
  ASSUME TypeOK, NEW r \in Runs, NEW s \in EvidenceStates, evidence(r, s) \/ lateEvidence(r, s)
  PROVE  TypeOK'
<1> USE TypeParts, TypePartsNext, SameTypes
<1>1. recordDeviceEvidence(r, s)
  BY DEF evidence, lateEvidence
<1>2. stop' \in [Runs -> StopStates]
  BY <1>1 DEF recordDeviceEvidence, RowTypes, StopStates
<1>3. run' \in [Runs -> RowStates]
  BY <1>1 DEF recordDeviceEvidence, RowTypes, RowStates
<1>4. task' \in [Runs -> TaskStates]
  BY <1>1 DEF recordDeviceEvidence, RowTypes, TaskStates
<1>5. RowTypes'
  BY <1>1, <1>2, <1>3, <1>4 DEF recordDeviceEvidence, RowTypes
<1>6. LinkTypes'
  <2>1. <<EvidenceAck(r, s)>> \in Seq(Frames)
    BY FrameTypes
  <2>2. toRunner' \in Seq(Frames)
    BY <2>1, SentTypes DEF evidence, lateEvidence, LinkTypes
  <2> QED
    BY <2>2 DEF evidence, lateEvidence, LinkTypes
<1> QED
  BY <1>5, <1>6 DEF evidence, lateEvidence

(* Marking a buffered event durable leaves a buffer.                         *)
LEMMA AppliedTypes ==
  ASSUME NEW o \in Seq(Events), NEW i \in 1..Len(o)
  PROVE  [o EXCEPT ![i].applied = TRUE] \in Seq(Events)
<1>1. o[i] \in Events
  BY ElementOfSeq
<1>2. [o[i] EXCEPT !.applied = TRUE] \in Events
  BY <1>1 DEF Events
<1> QED
  BY <1>2, ExceptSeq

(* A buffered event is about a run.                                          *)
LEMMA BufferedEvent ==
  ASSUME TypeOK, NEW i \in DOMAIN outbox
  PROVE  /\ outbox[i].run \in Runs
         /\ outbox[i].kind \in {"started", "succeeded", "failed", "cancelled", "lost"}
<1>1. outbox[i] \in Events
  BY TypeParts, LenProperties, ElementOfSeq DEF DiskTypes
<1> QED
  BY <1>1 DEF Events

(* The server applies an event, or refuses it.                               *)
LEMMA ApplyingTypes ==
  ASSUME TypeOK, NEW i \in DOMAIN outbox, event(i)
  PROVE  TypeOK'
<1> USE TypeParts, TypePartsNext, SameTypes
<1>1. outbox \in Seq(Events) /\ i \in 1..Len(outbox)
  BY LenProperties DEF DiskTypes
<1>2. /\ outbox[i].run \in Runs
      /\ outbox[i].kind \in {"started", "succeeded", "failed", "cancelled", "lost"}
  BY BufferedEvent
<1>3. CASE link \in {"up", "refused"} /\ applyEvent(outbox[i])
  <2>1. run' \in [Runs -> RowStates]
    BY <1>2, <1>3 DEF applyEvent, RowTypes, RowStates, Active
  <2>2. task' \in [Runs -> TaskStates]
    BY <1>2, <1>3 DEF applyEvent, RowTypes, TaskStates
  <2>3. job' \in [Runs -> JobStates]
    BY <1>3 DEF applyEvent, RowTypes, JobStates
  <2>4. RowTypes'
    BY <2>1, <2>2, <2>3 DEF event, RowTypes
  <2> DEFINE applied == [outbox EXCEPT ![i].applied = TRUE]
  <2>5. applied \in Seq(Events)
    BY <1>1, AppliedTypes
  <2>6. outbox' \in {outbox, applied, pruneAcked(applied)}
    BY DEF event
  <2>7. outbox' \in Seq(Events)
    <3> HIDE DEF applied
    <3> QED
      BY <1>1, <2>5, <2>6, PruneTypes
  <2>8. DiskTypes' /\ MemoryTypes'
    BY <2>7 DEF event, DiskTypes
  <2>9. LinkTypes'
    BY RefuseTypes DEF event, LinkTypes
  <2> QED
    BY <2>4, <2>8, <2>9 DEF event
<1>4. CASE Refuse /\ UNCHANGED <<run, task, job, outbox>>
  <2>1. RowTypes' /\ DiskTypes' /\ LinkTypes'
    BY <1>4, RefuseTypes DEF event, rowVars, diskVars
  <2> QED
    BY <2>1 DEF event
<1> QED
  BY <1>3, <1>4 DEF event

(* What the device reads next, and the rest behind it.                       *)
LEMMA ReceiveTypes ==
  ASSUME LinkTypes, toRunner # <<>>
  PROVE  /\ Head(toRunner) \in Frames /\ Tail(toRunner) \in Seq(Frames)
         /\ Head(toRunner).type # "reconcile_response" => Head(toRunner).run \in Runs
         /\ Head(toRunner).type = "evidence_ack" => Head(toRunner).state \in EvidenceStates
BY HeadIsFrame, FrameRun DEF LinkTypes

(* What the device repeats of its journal.                                   *)
LEMMA FlushTypes ==
  ASSUME LinkTypes, NEW j, NEW c, Flush(j, c),
         toRunner' \in Seq(Frames), UNCHANGED <<link, todo, late, sending>>
  PROVE  LinkTypes'
BY DueTypes DEF Flush, LinkTypes

(* The device's buffer.                                                      *)
LEMMA EmitTypes ==
  ASSUME DiskTypes, NEW r \in Runs,
         NEW kind \in {"started", "succeeded", "failed", "cancelled", "lost"}, Emit(r, kind)
  PROVE  outbox' \in Seq(Events)
<1>1. [run |-> r, kind |-> kind, applied |-> FALSE] \in Events
  BY DEF Events
<1> QED
  BY <1>1, AppendProperties DEF Emit, DiskTypes

(* The device takes a command or a stop.                                     *)
LEMMA TakingTypes ==
  ASSUME TypeOK, receiveCommand \/ receiveCancellation
  PROVE  TypeOK'
<1> USE TypeParts, TypePartsNext, SameTypes
<1> DEFINE r == Head(toRunner).run
<1>1. /\ r \in Runs /\ Tail(toRunner) \in Seq(Frames)
      /\ toRunner' = Tail(toRunner)
  BY ReceiveTypes DEF receiveCommand, receiveCancellation, Receives
<1>2. CASE receiveCommand
  <2>1. LinkTypes'
    BY <1>1, <1>2 DEF receiveCommand, LinkTypes
  <2>2. executed' \in [Runs -> {"none", "executing", "ended"}]
    BY <1>2 DEF receiveCommand, DiskTypes
  <2>3. live' \in [Runs -> {"unknown", "live", "reaped", "unreaped"}]
    BY <1>2 DEF receiveCommand, ProcessTypes
  <2>4. DiskTypes' /\ ProcessTypes'
    BY <1>2, <2>2, <2>3 DEF receiveCommand, DiskTypes, ProcessTypes
  <2> QED
    BY <1>2, <2>1, <2>4 DEF receiveCommand
<1>3. CASE receiveCancellation
  <2>1. LinkTypes'
    BY <1>1, <1>3, FlushTypes DEF receiveCancellation
  <2>2. journal' \in [Runs -> {"none", "acknowledged", "exited"}]
    BY <1>1, <1>3 DEF receiveCancellation, DiskTypes
  <2>3. aborted' \subseteq Runs /\ watch' \subseteq Runs
    BY <1>1, <1>3 DEF receiveCancellation, ProcessTypes
  <2>4. DiskTypes' /\ ProcessTypes'
    BY <1>3, <2>2, <2>3 DEF receiveCancellation, DiskTypes, ProcessTypes
  <2> QED
    BY <1>3, <2>1, <2>4 DEF receiveCancellation
<1> QED
  BY <1>2, <1>3

(* The device takes the server's confirmation of evidence.                   *)
LEMMA ConfirmationTypes ==
  ASSUME TypeOK, receiveEvidenceAck
  PROVE  TypeOK'
<1> USE TypeParts, TypePartsNext, SameTypes
<1> DEFINE r == Head(toRunner).run
           s == Head(toRunner).state
           flags == confirmed[r] \cup {s}
<1>1. r \in Runs /\ s \in EvidenceStates /\ Tail(toRunner) \in Seq(Frames)
  BY ReceiveTypes DEF receiveEvidenceAck
<1>2. flags \in SUBSET EvidenceStates
  BY <1>1 DEF DiskTypes
<1>3. CASE UNCHANGED <<journal, confirmed>>
  <2>1. DiskTypes'
    BY <1>3 DEF receiveEvidenceAck, DiskTypes
  <2>2. \/ LoseRunner
        \/ /\ Flush(journal, confirmed) /\ toRunner' = Tail(toRunner)
           /\ UNCHANGED <<link, todo, late, sending, processVars>>
        \/ /\ Flush(journal', confirmed') /\ toRunner' = Tail(toRunner)
           /\ UNCHANGED <<link, todo, late, sending, processVars>>
    BY DEF receiveEvidenceAck
  <2>3. LinkTypes' /\ ProcessTypes'
    <3>1. CASE LoseRunner
      BY <3>1, LoseRunnerTypes
    <3>2. ASSUME NEW j, NEW c, Flush(j, c), toRunner' = Tail(toRunner),
                 UNCHANGED <<link, todo, late, sending, processVars>>
          PROVE  LinkTypes' /\ ProcessTypes'
      BY <1>1, <3>2, FlushTypes
    <3> QED
      BY <2>2, <3>1, <3>2
  <2> QED
    BY <2>1, <2>3 DEF receiveEvidenceAck
<1>4. CASE /\ journal' = [journal EXCEPT ![r] = IF Forgotten(flags) THEN "none" ELSE @]
           /\ confirmed' = [confirmed EXCEPT ![r] = IF Forgotten(flags) THEN {} ELSE flags]
           /\ Flush(journal', confirmed')
           /\ toRunner' = Tail(toRunner)
           /\ UNCHANGED <<link, todo, late, sending, processVars>>
  <2> HIDE DEF flags
  <2>1. journal' \in [Runs -> {"none", "acknowledged", "exited"}]
    BY <1>4 DEF DiskTypes
  <2>2. confirmed' \in [Runs -> SUBSET EvidenceStates]
    BY <1>2, <1>4 DEF DiskTypes
  <2>3. DiskTypes'
    BY <2>1, <2>2 DEF receiveEvidenceAck, DiskTypes
  <2>4. LinkTypes'
    BY <1>1, <1>4, FlushTypes
  <2> QED
    BY <1>4, <2>3, <2>4 DEF receiveEvidenceAck
<1> QED
  BY <1>3, <1>4 DEF receiveEvidenceAck

(* The device is reconciled: one lost acknowledgement per orphaned run.      *)
LEMMA ReconciledTypes ==
  ASSUME TypeOK, receiveReconcileResponse
  PROVE  TypeOK'
<1> USE TypeParts, TypePartsNext, SameTypes
<1> DEFINE orphaned == {r \in Runs : executed[r] = "executing" /\ live[r] # "live"}
           Lost(r) == [run |-> r, kind |-> "lost", applied |-> FALSE]
<1>1. LinkTypes'
  BY ReceiveTypes DEF receiveReconcileResponse, Receives, LinkTypes
<1>2. PICK o \in Ordered(orphaned) :
        outbox' = pruneAcked(outbox) \o [i \in DOMAIN o |-> Lost(o[i])]
  BY DEF receiveReconcileResponse
<1>3. PICK n \in Nat : DOMAIN o = 1..n /\ \A i \in 1..n : o[i] \in orphaned
  BY OrderedSequences
<1>4. \A r \in Runs : Lost(r) \in Events
  BY DEF Events
<1>5. [i \in DOMAIN o |-> Lost(o[i])] \in Seq(Events)
  <2>1. \A i \in 1..n : Lost(o[i]) \in Events
    BY <1>3, <1>4
  <2> HIDE DEF Lost
  <2> QED
    BY <1>3, <2>1
<1>6. outbox' \in Seq(Events)
  <2>1. pruneAcked(outbox) \in Seq(Events)
    BY PruneTypes DEF DiskTypes
  <2> HIDE DEF Lost
  <2> QED
    BY <1>2, <1>5, <2>1, ConcatProperties
<1>7. executed' \in [Runs -> {"none", "executing", "ended"}]
  BY DEF receiveReconcileResponse, DiskTypes
<1>8. DiskTypes'
  BY <1>6, <1>7 DEF receiveReconcileResponse, DiskTypes
<1> QED
  BY <1>1, <1>8 DEF receiveReconcileResponse

(* A run on the device starts and ends.                                      *)
LEMMA RunningTypes ==
  ASSUME TypeOK, NEW r \in Runs, Start(r) \/ Finish(r)
  PROVE  TypeOK'
<1> USE TypeParts, TypePartsNext, SameTypes
<1>1. outbox' \in Seq(Events)
  BY EmitTypes DEF Start, Finish
<1>2. CASE Start(r)
  <2>1. DiskTypes' /\ ProcessTypes'
    BY <1>1, <1>2 DEF Start, DiskTypes, ProcessTypes
  <2> QED
    BY <1>2, <2>1 DEF Start
<1>3. CASE Finish(r)
  <2>1. LinkTypes'
    <3>1. toRunner' = toRunner /\ UNCHANGED <<link, todo, late, sending>>
      BY <1>3 DEF Finish
    <3>2. wire' = wire \/ Flush(journal', confirmed)
      BY <1>3 DEF Finish
    <3> QED
      BY <3>1, <3>2, FlushTypes DEF LinkTypes
  <2>2. journal' \in [Runs -> {"none", "acknowledged", "exited"}]
    BY <1>3 DEF Finish, DiskTypes
  <2>3. executed' \in [Runs -> {"none", "executing", "ended"}]
    BY <1>3 DEF Finish, DiskTypes
  <2>4. live' \in [Runs -> {"unknown", "live", "reaped", "unreaped"}]
    BY <1>3 DEF Finish, ProcessTypes
  <2>5. tree' \in [Runs -> {"none", "alive", "gone"}]
    BY <1>3 DEF Finish, ProcessTypes
  <2>6. DiskTypes' /\ ProcessTypes'
    BY <1>1, <1>3, <2>2, <2>3, <2>4, <2>5 DEF Finish, DiskTypes, ProcessTypes
  <2>7. BoundTypes'
    <3>1. Fault("unreaped") \/ UNCHANGED boundVars
      BY <1>3 DEF Finish
    <3> QED
      BY <3>1, BoundsHold DEF EnvironmentEvents
  <2> QED
    BY <1>3, <2>1, <2>6, <2>7 DEF Finish
<1> QED
  BY <1>2, <1>3

(* The evidence timer, and what the network and the processes do.            *)
LEMMA FaultTypes ==
  ASSUME TypeOK,
         retryEvidence \/ CloseReceived \/ Disconnect \/ RunnerCrash \/ ServerCrash
  PROVE  TypeOK'
<1> USE TypeParts, TypePartsNext, SameTypes
<1>1. CASE retryEvidence
  BY <1>1, FlushTypes DEF retryEvidence, LinkTypes
<1>2. CASE CloseReceived
  BY <1>2, LoseSocketTypes DEF CloseReceived
<1>3. CASE Disconnect
  BY <1>3, LoseSocketTypes, BoundsHold DEF Disconnect, EnvironmentEvents
<1>4. CASE RunnerCrash
  BY <1>4, LoseRunnerTypes, BoundsHold DEF RunnerCrash, EnvironmentEvents
<1>5. CASE ServerCrash
  <2>1. LinkTypes'
    BY <1>5, EmptySeq DEF ServerCrash, LinkTypes, Links
  <2>2. MemoryTypes'
    BY <1>5 DEF ServerCrash, MemoryTypes
  <2> QED
    BY <1>5, <2>1, <2>2, BoundsHold DEF ServerCrash, EnvironmentEvents
<1> QED
  BY <1>1, <1>2, <1>3, <1>4, <1>5

(* Init, and one step of anything, keep the types.                           *)
LEMMA InitTypes == Init => TypeOK
<1> SUFFICES ASSUME Init PROVE TypeOK
  OBVIOUS
<1> USE DEF Init
<1>1. RowTypes /\ MemoryTypes /\ ProcessTypes
  BY DEF RowTypes, MemoryTypes, ProcessTypes, RowStates, TaskStates, JobStates, StopStates,
     Causes, Active
<1>2. LinkTypes /\ DiskTypes
  BY EmptySeq DEF LinkTypes, DiskTypes, Links
<1>3. BoundTypes
  BY DeviceConstants DEF BoundTypes
<1> QED
  BY <1>1, <1>2, <1>3, TypeParts

(* Every step keeps the types.                                               *)
LEMMA NextTypes == TypeOK /\ [Next]_vars => TypeOK'
<1> SUFFICES ASSUME TypeOK, [Next]_vars PROVE TypeOK'
  OBVIOUS
<1>1. CASE UNCHANGED vars
  BY <1>1, TypeParts, TypePartsNext, SameTypes DEF vars
<1>2. CASE Next
  BY <1>2, DispatchTypes, RequestTypes, HookTypes, ConnectionTypes, EvidenceTypes,
     ApplyingTypes, TakingTypes, ConfirmationTypes, ReconciledTypes, RunningTypes, FaultTypes
  DEF Next
<1> QED
  BY <1>1, <1>2

(* Every row, frame, record and process is in a state its type allows, in    *)
(* every behaviour of server and device.                                     *)
THEOREM TypeCorrect == Spec => []TypeOK
BY InitTypes, NextTypes, PTL DEF Spec

-----------------------------------------------------------------------------
(* What a stop becomes, and what becomes of its run.                         *)

(* The actions that write run, and those that write stop.                    *)
LEMMA WhoWrites ==
  ASSUME Next
  PROVE  /\ \/ UNCHANGED run
            \/ \E r \in Runs : deliverClaimed(r) \/ requestProjectStop(r)
            \/ \E r \in Runs, s \in EvidenceStates : recordDeviceEvidence(r, s)
            \/ \E i \in DOMAIN outbox : event(i) /\ applyEvent(outbox[i])
         /\ \/ UNCHANGED <<stop, cause>>
            \/ \E r \in Runs : requestProjectStop(r) \/ requestWatchdogStop(r)
            \/ revoke
            \/ \E h \in hooks : markUnconfirmedOffline(h)
            \/ \E r \in Runs, s \in EvidenceStates : recordDeviceEvidence(r, s)
<1> USE DEF rowVars
<1>1. ASSUME NEW r \in Runs, claim(r) \/ replayProjectStop(r) \/ requestWatchdogStop(r)
                             \/ Start(r) \/ Finish(r)
      PROVE  UNCHANGED run
  BY <1>1 DEF claim, replayProjectStop, requestWatchdogStop, Start, Finish
<1>2. ASSUME NEW r \in Runs, claim(r) \/ deliverClaimed(r) \/ replayProjectStop(r)
                             \/ Start(r) \/ Finish(r)
      PROVE  UNCHANGED <<stop, cause>>
  BY <1>2 DEF claim, deliverClaimed, replayProjectStop, Start, Finish
<1>3. revoke => UNCHANGED run
  BY DEF revoke
<1>4. ASSUME replayRevoke \/ closeRevokedDevice \/ Connect \/ deliverPending \/ reconcile
      PROVE  UNCHANGED <<run, stop, cause>>
  BY <1>4 DEF replayRevoke, closeRevokedDevice, Connect, deliverPending, SendPending, reconcile
<1>5. ASSUME NEW h \in hooks
      PROVE  /\ requestCancellation(h) => UNCHANGED <<run, stop, cause>>
             /\ markUnconfirmedOffline(h) => UNCHANGED run
  BY DEF requestCancellation, markUnconfirmedOffline
<1>6. ASSUME NEW r \in Runs, NEW s \in EvidenceStates, evidence(r, s) \/ lateEvidence(r, s)
      PROVE  recordDeviceEvidence(r, s)
  BY <1>6 DEF evidence, lateEvidence
<1>7. ASSUME NEW i \in DOMAIN outbox, event(i)
      PROVE  UNCHANGED <<stop, cause>> /\ (applyEvent(outbox[i]) \/ UNCHANGED run)
  BY <1>7 DEF event
<1>8. ASSUME receiveCommand \/ receiveCancellation \/ receiveEvidenceAck
             \/ receiveReconcileResponse \/ retryEvidence
             \/ CloseReceived \/ Disconnect \/ RunnerCrash \/ ServerCrash
      PROVE  UNCHANGED <<run, stop, cause>>
  BY <1>8 DEF receiveCommand, receiveCancellation, receiveEvidenceAck,
     receiveReconcileResponse, retryEvidence, CloseReceived, Disconnect, RunnerCrash, ServerCrash
<1> QED
  BY <1>1, <1>2, <1>3, <1>4, <1>5, <1>6, <1>7, <1>8 DEF Next

(* A stop is asked for once, and then only answered.                         *)
StopEdges ==
  {<<"none", "cancellation_requested">>, <<"cancellation_requested", "unconfirmed_offline">>,
   <<"runner_acknowledged", "process_exited">>}
  \cup (Unanswered \X EvidenceStates)

(* Every step takes a stop along one of these edges or leaves it.            *)
LEMMA StopSteps ==
  ASSUME TypeOK, [Next]_vars, NEW r \in Runs
  PROVE  stop'[r] = stop[r] \/ <<stop[r], stop'[r]>> \in StopEdges
<1>1. stop \in [Runs -> StopStates]
  BY TypeParts DEF RowTypes
<1>2. CASE UNCHANGED <<stop, cause>>
  BY <1>2
<1>3. ASSUME NEW q \in Runs, requestProjectStop(q) \/ requestWatchdogStop(q)
      PROVE  stop'[r] = stop[r] \/ <<stop[r], stop'[r]>> \in StopEdges
  BY <1>1, <1>3 DEF requestProjectStop, requestWatchdogStop, StopEdges
<1>4. CASE revoke
  BY <1>1, <1>4 DEF revoke, StopEdges
<1>5. ASSUME NEW h \in hooks, markUnconfirmedOffline(h)
      PROVE  stop'[r] = stop[r] \/ <<stop[r], stop'[r]>> \in StopEdges
  BY <1>1, <1>5 DEF markUnconfirmedOffline, StopEdges
<1>6. ASSUME NEW q \in Runs, NEW s \in EvidenceStates, recordDeviceEvidence(q, s)
      PROVE  stop'[r] = stop[r] \/ <<stop[r], stop'[r]>> \in StopEdges
  BY <1>1, <1>6 DEF recordDeviceEvidence, Advances, StopEdges
<1>7. UNCHANGED vars => UNCHANGED <<stop, cause>>
  BY DEF vars, rowVars
<1> QED
  BY <1>2, <1>3, <1>4, <1>5, <1>6, <1>7, WhoWrites

(* The evidence of a stop only moves forward, whatever slow hooks, late and  *)
(* repeated frames do (markUnconfirmedOffline, recordDeviceEvidence).        *)
THEOREM EvidenceForward == Spec => EvidenceMovesForward
<1>1. ASSUME TypeOK, [Next]_vars PROVE [\A r \in Runs : Rank(stop[r]) <= Rank(stop'[r])]_vars
  <2>1. ASSUME NEW r \in Runs PROVE Rank(stop[r]) <= Rank(stop'[r])
    <3>1. stop[r] \in StopStates
      BY <1>1, TypeParts DEF RowTypes
    <3>2. stop'[r] = stop[r] \/ <<stop[r], stop'[r]>> \in StopEdges
      BY <1>1, StopSteps
    <3> QED
      BY <3>1, <3>2 DEF StopStates, StopEdges, Unanswered, EvidenceStates, Rank
  <2> QED
    BY <2>1
<1> QED
  BY <1>1, TypeCorrect, PTL DEF Spec, EvidenceMovesForward

(* A run never returns to a state it has left behind for good.               *)
LEMMA RunSteps ==
  ASSUME TypeOK, [Next]_vars, NEW r \in Runs
  PROVE  /\ run[r] \notin {"created", "dispatched"} => run'[r] \notin {"created", "dispatched"}
         /\ run[r] \notin Active => run'[r] \notin Active
<1>1. run \in [Runs -> RowStates]
  BY TypeParts DEF RowTypes
<1> DEFINE Kept == /\ run[r] \notin {"created", "dispatched"}
                      => run'[r] \notin {"created", "dispatched"}
                   /\ run[r] \notin Active => run'[r] \notin Active
<1>2. UNCHANGED run => Kept
  OBVIOUS
<1>3. ASSUME NEW q \in Runs, deliverClaimed(q) \/ requestProjectStop(q)
      PROVE  Kept
  <2>1. \/ run' = run
        \/ run' = [run EXCEPT ![q] = IF @ = "created" THEN "dispatched" ELSE @]
        \/ run' = [run EXCEPT ![q] = IF @ = "running" THEN @ ELSE "cancelled"] /\ run[q] \in Active
    BY <1>3 DEF deliverClaimed, requestProjectStop
  <2> QED
    BY <1>1, <2>1 DEF Active
<1>4. ASSUME NEW q \in Runs, NEW s \in EvidenceStates, recordDeviceEvidence(q, s)
      PROVE  Kept
  BY <1>1, <1>4 DEF recordDeviceEvidence, Active
<1>5. ASSUME NEW i \in DOMAIN outbox, event(i) /\ applyEvent(outbox[i])
      PROVE  Kept
  <2> DEFINE q == outbox[i].run
             kind == outbox[i].kind
  <2>1. q \in Runs /\ kind \in {"started", "succeeded", "failed", "cancelled", "lost"}
    BY BufferedEvent
  <2>2. PICK s : /\ run' = [run EXCEPT ![q] = s]
                 /\ \/ s = run[q]
                    \/ run[q] = "dispatched" /\ s = "running"
                    \/ run[q] = "running" /\ s = "succeeded"
                    \/ s \in {"expired", "failed", "cancelled"}
    <3>1. CASE kind = "started"
      BY <1>5, <3>1 DEF applyEvent
    <3>2. CASE kind = "succeeded"
      BY <1>5, <3>2 DEF applyEvent
    <3>3. CASE kind = "lost"
      BY <1>5, <3>3 DEF applyEvent
    <3>4. CASE kind \in {"failed", "cancelled"}
      BY <1>5, <3>4 DEF applyEvent
    <3> QED
      BY <2>1, <3>1, <3>2, <3>3, <3>4
  <2> QED
    BY <1>1, <2>1, <2>2 DEF Active
<1>6. UNCHANGED vars => UNCHANGED run
  BY DEF vars, rowVars
<1> QED
  BY <1>2, <1>3, <1>4, <1>5, <1>6, WhoWrites

(* Recorded evidence ends the run it is about: an acknowledgement one that   *)
(* never reported a start, an exit any (recordDeviceEvidence).               *)
THEOREM EvidenceEnds == Spec => []EvidenceEndsRun
<1>1. Init => EvidenceEndsRun
  BY DEF Init, EvidenceEndsRun
<1>2. ASSUME TypeOK, EvidenceEndsRun, [Next]_vars PROVE EvidenceEndsRun'
  <2> SUFFICES ASSUME NEW r \in Runs
               PROVE  /\ stop'[r] = "runner_acknowledged"
                         => run'[r] \notin {"created", "dispatched"}
                      /\ stop'[r] = "process_exited" => run'[r] \notin Active
    BY DEF EvidenceEndsRun
  <2>1. CASE stop'[r] = stop[r]
    BY <1>2, <2>1, RunSteps DEF EvidenceEndsRun
  <2>2. ASSUME NEW s \in EvidenceStates, recordDeviceEvidence(r, s), stop'[r] # stop[r]
        PROVE  stop'[r] = s /\ run'[r] \notin finalizableStates(s)
    BY <1>2, <2>2, TypeParts DEF RowTypes, recordDeviceEvidence, finalizableStates, Active
  <2>3. ASSUME stop'[r] # stop[r], stop'[r] \in EvidenceStates
        PROVE  \E s \in EvidenceStates : recordDeviceEvidence(r, s)
    <3>1. stop \in [Runs -> StopStates]
      BY <1>2, TypeParts DEF RowTypes
    <3>2. ~UNCHANGED stop
      BY <2>3
    <3>3. Next
      BY <1>2, <3>2 DEF vars, rowVars
    <3>4. ASSUME NEW q \in Runs, requestProjectStop(q) \/ requestWatchdogStop(q)
          PROVE  FALSE
      BY <2>3, <3>1, <3>4
      DEF requestProjectStop, requestWatchdogStop, EvidenceStates
    <3>5. ~revoke
      BY <2>3, <3>1 DEF revoke, EvidenceStates
    <3>6. ASSUME NEW h \in hooks, markUnconfirmedOffline(h) PROVE FALSE
      BY <2>3, <3>1, <3>6 DEF markUnconfirmedOffline, EvidenceStates
    <3>7. ASSUME NEW q \in Runs, NEW s \in EvidenceStates, recordDeviceEvidence(q, s)
          PROVE  q = r
      BY <2>3, <3>1, <3>7 DEF recordDeviceEvidence
    <3> QED
      BY <3>2, <3>3, <3>4, <3>5, <3>6, <3>7, WhoWrites
  <2>4. CASE stop'[r] # stop[r]
    BY <2>2, <2>3, <2>4 DEF finalizableStates, EvidenceStates, Active
  <2> QED
    BY <2>1, <2>4
<1> QED
  BY <1>1, <1>2, TypeCorrect, PTL DEF Spec

-----------------------------------------------------------------------------
(* Exit evidence is proof.                                                   *)

(* The run is over on the device: its command is on record as ended, so it   *)
(* is never executed again, and its process tree is not alive.               *)
Gone(r) == executed[r] = "ended" /\ tree[r] # "alive"

(* Every trace of an exit, in the registry, the journal, on the wire and in  *)
(* the row, is of a run that is gone; a run in the registry is on record.    *)
ProofInv ==
  \A r \in Runs :
    /\ live[r] = "live" => executed[r] = "executing"
    /\ live[r] = "reaped" => Gone(r)
    /\ journal[r] = "exited" => Gone(r)
    /\ <<r, "process_exited">> \in wire \cup late => Gone(r)
    /\ stop[r] = "process_exited" => Gone(r)

(* Exit evidence that is due is in the journal.                              *)
LEMMA DueExit ==
  ASSUME NEW j, NEW c, NEW r, <<r, "process_exited">> \in Due(j, c)
  PROVE  j[r] = "exited"
BY DEF Due

(* A step of the server, the network or the timer: the device's memory and   *)
(* disk stay, evidence only moves, and a row records what was reported.      *)
LEMMA ProofMoves ==
  ASSUME TypeOK, ProofInv, UNCHANGED <<live, journal, executed, tree>>,
         wire' \cup late' \subseteq wire \cup late \cup Due(journal, confirmed),
         \A r \in Runs : stop'[r] = "process_exited"
                         => stop[r] = "process_exited" \/ <<r, "process_exited">> \in wire \cup late
  PROVE  ProofInv'
<1> SUFFICES ASSUME NEW r \in Runs
             PROVE  /\ live'[r] = "live" => executed'[r] = "executing"
                    /\ live'[r] = "reaped" => Gone(r)'
                    /\ journal'[r] = "exited" => Gone(r)'
                    /\ <<r, "process_exited">> \in wire' \cup late' => Gone(r)'
                    /\ stop'[r] = "process_exited" => Gone(r)'
  BY DEF ProofInv
<1>1. Gone(r)' <=> Gone(r)
  BY DEF Gone
<1>2. <<r, "process_exited">> \in wire' \cup late' => Gone(r)
  BY DueExit DEF ProofInv
<1> QED
  BY <1>1, <1>2 DEF ProofInv

(* Evidence frames that a lost or refused socket leaves behind.              *)
LEMMA LostEvidence ==
  LoseSocket \/ Refuse => wire' \cup late' \subseteq wire \cup late
BY DEF LoseSocket, Refuse

(* The device loses its memory, its disk stays.                              *)
LEMMA ProofSurvivesCrash ==
  ASSUME TypeOK, ProofInv, LoseRunner, UNCHANGED <<journal, executed, stop>>
  PROVE  ProofInv'
<1> SUFFICES ASSUME NEW r \in Runs
             PROVE  /\ live'[r] = "live" => executed'[r] = "executing"
                    /\ live'[r] = "reaped" => Gone(r)'
                    /\ journal'[r] = "exited" => Gone(r)'
                    /\ <<r, "process_exited">> \in wire' \cup late' => Gone(r)'
                    /\ stop'[r] = "process_exited" => Gone(r)'
  BY DEF ProofInv
<1>1. live'[r] = "unknown"
  BY DEF LoseRunner
<1>2. Gone(r) => Gone(r)'
  BY DEF LoseRunner, Gone
<1>3. wire' \cup late' \subseteq wire \cup late
  BY LostEvidence DEF LoseRunner
<1> QED
  BY <1>1, <1>2, <1>3 DEF ProofInv

(* The server's steps.                                                       *)
LEMMA ServerProofSteps ==
  ASSUME TypeOK, ProofInv,
         \/ \E r \in Runs : \/ claim(r) \/ deliverClaimed(r) \/ requestProjectStop(r)
                            \/ replayProjectStop(r) \/ requestWatchdogStop(r)
         \/ revoke \/ replayRevoke \/ closeRevokedDevice
         \/ \E h \in hooks : requestCancellation(h) \/ markUnconfirmedOffline(h)
         \/ Connect \/ deliverPending \/ reconcile
         \/ \E r \in Runs, s \in EvidenceStates : evidence(r, s) \/ lateEvidence(r, s)
         \/ \E i \in DOMAIN outbox : event(i)
  PROVE  ProofInv'
<1> USE DEF rowVars, linkVars, diskVars, processVars
<1>1. stop \in [Runs -> StopStates]
  BY TypeParts DEF RowTypes
<1>2. ASSUME UNCHANGED <<live, journal, executed, tree, wire, late>>,
             \A r \in Runs : stop'[r] = "process_exited" => stop[r] = "process_exited"
      PROVE  ProofInv'
  BY <1>2, ProofMoves
<1>3. ASSUME NEW r \in Runs, claim(r) \/ deliverClaimed(r) \/ replayProjectStop(r)
      PROVE  ProofInv'
  BY <1>2, <1>3 DEF claim, deliverClaimed, replayProjectStop
<1>4. ASSUME NEW r \in Runs, requestProjectStop(r) \/ requestWatchdogStop(r)
      PROVE  ProofInv'
  <2>1. \A q \in Runs : stop'[q] = "process_exited" => stop[q] = "process_exited"
    BY <1>1, <1>4 DEF requestProjectStop, requestWatchdogStop
  <2> QED
    BY <1>2, <1>4, <2>1 DEF requestProjectStop, requestWatchdogStop
<1>5. CASE revoke
  <2>1. \A q \in Runs : stop'[q] = "process_exited" => stop[q] = "process_exited"
    BY <1>1, <1>5 DEF revoke
  <2> QED
    BY <1>2, <1>5, <2>1 DEF revoke
<1>6. CASE replayRevoke \/ closeRevokedDevice \/ deliverPending
  BY <1>2, <1>6 DEF replayRevoke, closeRevokedDevice, deliverPending, SendPending
<1>7. ASSUME NEW h \in hooks, requestCancellation(h) \/ markUnconfirmedOffline(h)
      PROVE  ProofInv'
  <2>1. \A q \in Runs : stop'[q] = "process_exited" => stop[q] = "process_exited"
    BY <1>1, <1>7 DEF requestCancellation, markUnconfirmedOffline
  <2> QED
    BY <1>2, <1>7, <2>1 DEF requestCancellation, markUnconfirmedOffline
<1>8. CASE Connect
  <2>1. wire' \cup late' \subseteq wire \cup late \cup Due(journal, confirmed)
    BY <1>8 DEF Connect
  <2> QED
    BY <1>8, <2>1, ProofMoves DEF Connect
<1>9. CASE reconcile
  <2>1. wire' \cup late' \subseteq wire \cup late
    BY <1>9, LostEvidence DEF reconcile
  <2> QED
    BY <1>9, <2>1, ProofMoves DEF reconcile
<1>10. ASSUME NEW r \in Runs, NEW s \in EvidenceStates, evidence(r, s) \/ lateEvidence(r, s)
       PROVE  ProofInv'
  <2>1. <<r, s>> \in wire \cup late /\ wire' \cup late' \subseteq wire \cup late
    BY <1>10 DEF evidence, lateEvidence
  <2>2. \A q \in Runs : stop'[q] = "process_exited"
          => stop[q] = "process_exited" \/ <<q, "process_exited">> \in wire \cup late
    BY <1>1, <1>10, <2>1 DEF evidence, lateEvidence, recordDeviceEvidence
  <2> QED
    BY <1>10, <2>1, <2>2, ProofMoves DEF evidence, lateEvidence
<1>11. ASSUME NEW i \in DOMAIN outbox, event(i) PROVE ProofInv'
  <2>1. wire' \cup late' \subseteq wire \cup late
    BY <1>11, LostEvidence DEF event
  <2> QED
    BY <1>11, <2>1, ProofMoves DEF event
<1> QED
  BY <1>3, <1>4, <1>5, <1>6, <1>7, <1>8, <1>9, <1>10, <1>11

(* The device's steps.                                                       *)
LEMMA DeviceProofSteps ==
  ASSUME TypeOK, ProofInv,
         \/ \E r \in Runs : Start(r) \/ Finish(r)
         \/ receiveCommand \/ receiveCancellation \/ receiveEvidenceAck
         \/ receiveReconcileResponse \/ retryEvidence
  PROVE  ProofInv'
<1> USE DEF rowVars, linkVars, diskVars, processVars
<1> DEFINE Good(r) == /\ live'[r] = "live" => executed'[r] = "executing"
                      /\ live'[r] = "reaped" => Gone(r)'
                      /\ journal'[r] = "exited" => Gone(r)'
                      /\ <<r, "process_exited">> \in wire' \cup late' => Gone(r)'
                      /\ stop'[r] = "process_exited" => Gone(r)'
<1>1. (\A r \in Runs : Good(r)) => ProofInv'
  BY DEF ProofInv
<1>2. /\ live \in [Runs -> {"unknown", "live", "reaped", "unreaped"}]
      /\ tree \in [Runs -> {"none", "alive", "gone"}]
      /\ journal \in [Runs -> {"none", "acknowledged", "exited"}]
      /\ executed \in [Runs -> {"none", "executing", "ended"}]
      /\ watch \subseteq Runs
  BY TypeParts DEF ProcessTypes, DiskTypes
<1>3. ASSUME NEW q \in Runs, Start(q), NEW r \in Runs PROVE Good(r)
  BY <1>2, <1>3 DEF Start, ProofInv, Gone
<1>4. ASSUME NEW q \in Runs, Finish(q), NEW r \in Runs PROVE Good(r)
  <2>1. executed' = [executed EXCEPT ![q] = "ended"] /\ late' = late /\ stop' = stop
    BY <1>4 DEF Finish
  <2>2. CASE /\ live' = [live EXCEPT ![q] = "reaped"]
             /\ tree' = [tree EXCEPT ![q] = IF @ = "alive" THEN "gone" ELSE @]
             /\ journal' = [journal EXCEPT ![q] = IF q \in watch THEN "exited" ELSE @]
             /\ Flush(journal', confirmed)
    <3>1. Gone(r) => Gone(r)'
      BY <1>2, <2>1, <2>2 DEF Gone
    <3>2. Gone(q)'
      BY <1>2, <2>1, <2>2 DEF Gone
    <3>3. journal'[r] = "exited" => Gone(r)'
      BY <1>2, <2>2, <3>1, <3>2 DEF ProofInv
    <3>4. <<r, "process_exited">> \in wire' => Gone(r)'
      BY <2>2, <3>1, <3>3, DueExit DEF Flush, ProofInv
    <3>5. live'[r] = "live" => executed'[r] = "executing"
      BY <1>2, <2>1, <2>2 DEF ProofInv
    <3>6. live'[r] = "reaped" => Gone(r)'
      BY <1>2, <2>2, <3>1, <3>2 DEF ProofInv
    <3> QED
      BY <2>1, <3>1, <3>3, <3>4, <3>5, <3>6 DEF ProofInv
  <2>3. CASE /\ live' = [live EXCEPT ![q] = "unreaped"]
             /\ \E left \in {"alive", "gone"} : tree' = [tree EXCEPT ![q] = left]
             /\ UNCHANGED <<journal, wire>>
    <3>1. ~Gone(q)
      BY <1>4 DEF Finish, ProofInv, Gone
    <3>2. Gone(r) => Gone(r)'
      BY <1>2, <2>1, <2>3, <3>1 DEF Gone
    <3>3. /\ live'[r] = "live" => live[r] = "live" /\ r # q
          /\ live'[r] = "reaped" => live[r] = "reaped"
      BY <1>2, <2>3
    <3> QED
      BY <1>2, <2>1, <2>3, <3>2, <3>3 DEF ProofInv
  <2> QED
    BY <1>4, <2>2, <2>3 DEF Finish
<1>5. ASSUME receiveCommand, NEW r \in Runs PROVE Good(r)
  <2>1. UNCHANGED <<stop, journal, wire, late, tree>>
    BY <1>5 DEF receiveCommand
  <2> DEFINE q == Head(toRunner).run
  <2>2. \/ UNCHANGED <<executed, live>>
        \/ /\ executed[q] = "none"
           /\ executed' = [executed EXCEPT ![q] = "executing"]
           /\ live' = [live EXCEPT ![q] = "live"]
    BY <1>5 DEF receiveCommand
  <2> HIDE DEF q
  <2>3. Gone(r) => Gone(r)'
    BY <1>2, <2>1, <2>2 DEF Gone
  <2>4. live'[r] = "live" => executed'[r] = "executing"
    BY <1>2, <2>2 DEF ProofInv
  <2>5. live'[r] = "reaped" => live[r] = "reaped"
    BY <1>2, <2>2
  <2> QED
    BY <2>1, <2>3, <2>4, <2>5 DEF ProofInv
<1>6. ASSUME receiveCancellation, NEW r \in Runs PROVE Good(r)
  <2>1. UNCHANGED <<stop, executed, live, late, tree>>
    BY <1>6 DEF receiveCancellation
  <2>2. journal'[r] = "exited" => journal[r] = "exited" \/ live[r] = "reaped"
    BY <1>2, <1>6 DEF receiveCancellation, provesExit
  <2>3. <<r, "process_exited">> \in wire'
          => <<r, "process_exited">> \in wire \/ journal'[r] = "exited"
    BY <1>6, DueExit DEF receiveCancellation, Flush
  <2>4. Gone(r)' <=> Gone(r)
    BY <2>1 DEF Gone
  <2> QED
    BY <2>1, <2>2, <2>3, <2>4 DEF ProofInv
<1>7. CASE receiveEvidenceAck /\ LoseRunner /\ UNCHANGED <<journal, confirmed>>
  BY <1>7, ProofSurvivesCrash DEF receiveEvidenceAck
<1>8. ASSUME receiveEvidenceAck, UNCHANGED <<link, todo, late, sending, processVars>>,
             NEW j, NEW c, Flush(j, c), j = journal \/ j = journal',
             NEW r \in Runs
      PROVE  Good(r)
  <2>1. UNCHANGED <<stop, executed, live, late, tree>>
    BY <1>8 DEF receiveEvidenceAck
  <2>2. journal'[r] = "exited" => journal[r] = "exited"
    BY <1>2, <1>8 DEF receiveEvidenceAck
  <2>3. <<r, "process_exited">> \in wire'
          => <<r, "process_exited">> \in wire \/ journal[r] = "exited"
    BY <1>8, <2>2, DueExit DEF Flush
  <2>4. Gone(r)' <=> Gone(r)
    BY <2>1 DEF Gone
  <2> QED
    BY <2>1, <2>2, <2>3, <2>4 DEF ProofInv
<1>9. ASSUME receiveReconcileResponse, NEW r \in Runs PROVE Good(r)
  <2>1. UNCHANGED <<stop, journal, live, wire, late, tree>>
    BY <1>9 DEF receiveReconcileResponse
  <2>2. executed'[r] = IF executed[r] = "executing" /\ live[r] # "live" THEN "ended" ELSE executed[r]
    BY <1>9 DEF receiveReconcileResponse
  <2>3. Gone(r) => Gone(r)'
    BY <2>1, <2>2 DEF Gone
  <2> QED
    BY <2>1, <2>2, <2>3 DEF ProofInv
<1>10. CASE retryEvidence
  <2>1. wire' \cup late' \subseteq wire \cup late \cup Due(journal, confirmed)
    BY <1>10 DEF retryEvidence, Flush
  <2> QED
    BY <1>10, <2>1, ProofMoves DEF retryEvidence
<1>11. CASE receiveEvidenceAck
  <2>1. \/ LoseRunner /\ UNCHANGED <<journal, confirmed>>
        \/ /\ Flush(journal, confirmed) \/ Flush(journal', confirmed')
           /\ UNCHANGED <<link, todo, late, sending, processVars>>
    BY <1>11 DEF receiveEvidenceAck
  <2> QED
    BY <1>1, <1>7, <1>8, <1>11, <2>1
<1> QED
  BY <1>1, <1>3, <1>4, <1>5, <1>6, <1>9, <1>10, <1>11

(* Whenever the device has journalled, or the server recorded, that a run    *)
(* exited, its process tree is not alive, whatever crashes, redelivered      *)
(* stops and late frames led there (cancelAndWait, recordProcessExited,      *)
(* recordDeviceEvidence).                                                    *)
THEOREM ExitProof == Spec => []ExitProofIsTrue
<1>1. Init => ProofInv
  BY DEF Init, ProofInv
<1>2. ASSUME TypeOK, ProofInv, [Next]_vars PROVE ProofInv'
  <2>1. CASE UNCHANGED vars
    BY <1>2, <2>1, ProofMoves DEF vars, rowVars, linkVars, diskVars, processVars
  <2>2. CASE CloseReceived \/ Disconnect
    BY <1>2, <2>2, ProofMoves, LostEvidence
    DEF CloseReceived, Disconnect, rowVars, diskVars, processVars
  <2>3. CASE RunnerCrash
    BY <1>2, <2>3, ProofSurvivesCrash DEF RunnerCrash, rowVars, diskVars
  <2>4. CASE ServerCrash
    BY <1>2, <2>4, ProofMoves DEF ServerCrash, rowVars, diskVars, processVars
  <2> QED
    BY <1>2, <2>1, <2>2, <2>3, <2>4, ServerProofSteps, DeviceProofSteps DEF Next
<1>3. ProofInv => ExitProofIsTrue
  BY DEF ProofInv, ExitProofIsTrue, Gone
<1> QED
  BY <1>1, <1>2, <1>3, TypeCorrect, PTL DEF Spec

-----------------------------------------------------------------------------
(* What is written to the socket.                                            *)

(* The frames a step may write: commands only of authorized runs, stops that *)
(* were asked for, answers to the evidence that is being recorded.           *)
Written(f) ==
  \/ \E r \in Runs : f = Command(r) /\ Authorized(r)
  \/ \E r \in Runs : f = Stop(r) /\ (stop[r] # "none" \/ \E h \in hooks : h.run = r)
  \/ \E r \in Runs, s \in EvidenceStates : f = EvidenceAck(r, s) /\ evidence(r, s)
  \/ f = [type |-> "reconcile_response"]

(* What a step does to the frames on their way to the device.                *)
SocketStep ==
  \/ toRunner' \in {toRunner, <<>>}
  \/ toRunner # <<>> /\ toRunner' = Tail(toRunner)
  \/ \E f \in Seq(Frames) : /\ toRunner' = toRunner \o f
                            /\ \A i \in 1..Len(f) : Written(f[i])

(* A send appends its frames or nothing.                                     *)
LEMMA SendWrites ==
  ASSUME NEW f \in Seq(Frames), \A i \in 1..Len(f) : Written(f[i]), toRunner' = Sent(f)
  PROVE  SocketStep
BY DEF Sent, SocketStep

(* A send of a single frame.                                                 *)
LEMMA SendOneWrites ==
  ASSUME NEW f \in Frames, Written(f), toRunner' = Sent(<<f>>)
  PROVE  SocketStep
<1>1. <<f>> \in Seq(Frames) /\ Len(<<f>>) = 1 /\ <<f>>[1] = f
  OBVIOUS
<1> DEFINE g == <<f>>
<1>2. g \in Seq(Frames) /\ (\A i \in 1..Len(g) : Written(g[i])) /\ toRunner' = Sent(g)
  BY <1>1
<1> HIDE DEF g
<1> QED
  BY <1>2, SendWrites

(* The reconnection: stops of pending rows, then the response and the        *)
(* commands of rows that are authorized again (deliverPendingForRunner).     *)
LEMMA ConnectionWrites ==
  ASSUME TypeOK, deliverPending \/ reconcile
  PROVE  SocketStep
<1>1. CASE deliverPending
  <2> DEFINE S == {r \in Runs : stop[r] \notin {"none", "process_exited"} /\ run[r] \in Active}
  <2>1. ASSUME NEW o \in Ordered(S), toRunner' = Sent([i \in DOMAIN o |-> Stop(o[i])])
        PROVE  SocketStep
    <3>1. PICK n \in Nat : DOMAIN o = 1..n /\ \A i \in 1..n : o[i] \in S
      BY OrderedSequences
    <3> DEFINE f == [i \in DOMAIN o |-> Stop(o[i])]
    <3>2. f \in Seq(Frames)
      BY FramesOfRows
    <3>3. Len(f) = n
      BY <3>1
    <3>4. \A i \in 1..n : f[i] = Stop(o[i]) /\ o[i] \in Runs /\ stop[o[i]] # "none"
      BY <3>1
    <3>5. \A i \in 1..Len(f) : Written(f[i])
      BY <3>3, <3>4 DEF Written
    <3> HIDE DEF f
    <3>6. toRunner' = Sent(f)
      BY <2>1 DEF f
    <3> QED
      BY <3>2, <3>5, <3>6, SendWrites
  <2>2. toRunner' = toRunner => SocketStep
    BY DEF SocketStep
  <2> QED
    BY <1>1, <2>1, <2>2 DEF deliverPending, SendPending
<1>2. CASE reconcile
  <2> DEFINE again == {r \in {q \in Runs : job[q] = "delivered"} :
                         Authorized(r) /\ executed[r] = "none"}
  <2>1. ASSUME NEW o \in Ordered(again),
               toRunner' = Sent(<<[type |-> "reconcile_response"]>>
                                \o [i \in DOMAIN o |-> Command(o[i])])
        PROVE  SocketStep
    <3>1. PICK n \in Nat : DOMAIN o = 1..n /\ \A i \in 1..n : o[i] \in again
      BY OrderedSequences
    <3> DEFINE f == [i \in DOMAIN o |-> Command(o[i])]
               g == <<[type |-> "reconcile_response"]>>
    <3>2. f \in Seq(Frames) /\ g \in Seq(Frames)
      <4>1. again \in SUBSET Runs
        OBVIOUS
      <4> HIDE DEF again
      <4>2. f \in Seq(Frames)
        BY <4>1, FramesOfRows
      <4> QED
        BY <4>2, FrameTypes
    <3>3. Len(f) = n /\ Len(g) = 1
      BY <3>1
    <3>4. \A i \in 1..Len(f) : Written(f[i])
      <4>1. \A i \in 1..n : f[i] = Command(o[i]) /\ o[i] \in Runs /\ Authorized(o[i])
        BY <3>1
      <4> QED
        BY <3>3, <4>1 DEF Written
    <3>5. \A i \in 1..Len(g) : Written(g[i])
      BY <3>3 DEF Written
    <3>6. toRunner' = Sent(g \o f)
      BY <2>1
    <3> HIDE DEF f, g
    <3>7. \A i \in 1..Len(g \o f) : Written((g \o f)[i])
      BY <3>2, <3>4, <3>5, ConcatProperties
    <3>8. g \o f \in Seq(Frames)
      BY <3>2, ConcatProperties
    <3> QED
      BY <3>6, <3>7, <3>8, SendWrites
  <2>2. toRunner' = toRunner => SocketStep
    BY DEF SocketStep
  <2>3. CASE device = "active"
    BY <1>2, <2>1, <2>3 DEF reconcile
  <2>4. CASE device # "active"
    BY <1>2, <2>2, <2>4 DEF reconcile, Refuse
  <2> QED
    BY <2>3, <2>4
<1> QED
  BY <1>1, <1>2

(* Every step writes only such frames, behind those already on the socket.   *)
LEMMA SocketSteps ==
  ASSUME TypeOK, [Next]_vars
  PROVE  SocketStep
<1> USE DEF rowVars, linkVars, diskVars, processVars
<1>1. toRunner' \in {toRunner, <<>>} => SocketStep
  BY DEF SocketStep
<1>2. ASSUME NEW r \in Runs, claim(r) \/ requestProjectStop(r) \/ replayProjectStop(r)
                             \/ requestWatchdogStop(r) \/ Start(r) \/ Finish(r)
      PROVE  SocketStep
  BY <1>1, <1>2 DEF claim, requestProjectStop, replayProjectStop, requestWatchdogStop, Start, Finish
<1>3. ASSUME NEW r \in Runs, deliverClaimed(r) PROVE SocketStep
  <2>1. toRunner' = toRunner \/ (Authorized(r) /\ toRunner' = Sent(<<Command(r)>>))
    BY <1>3 DEF deliverClaimed
  <2>2. Authorized(r) => Written(Command(r))
    BY DEF Written
  <2> QED
    BY <1>1, <2>1, <2>2, SendOneWrites, FrameTypes
<1>4. CASE revoke \/ replayRevoke \/ closeRevokedDevice
  BY <1>1, <1>4 DEF revoke, replayRevoke, closeRevokedDevice
<1>5. ASSUME NEW h \in hooks, requestCancellation(h) \/ markUnconfirmedOffline(h)
      PROVE  SocketStep
  <2>1. toRunner' = toRunner \/ toRunner' = Sent(<<Stop(h.run)>>)
    BY <1>5 DEF requestCancellation, markUnconfirmedOffline
  <2>2. h.run \in Runs
    BY TypeParts, HookFacts DEF MemoryTypes
  <2>3. Written(Stop(h.run))
    BY <2>2 DEF Written
  <2> QED
    BY <1>1, <2>1, <2>2, <2>3, SendOneWrites, FrameTypes
<1>6. CASE Connect \/ retryEvidence
  BY <1>1, <1>6 DEF Connect, retryEvidence
<1>7. ASSUME NEW r \in Runs, NEW s \in EvidenceStates, evidence(r, s) PROVE SocketStep
  <2>1. Written(EvidenceAck(r, s))
    BY <1>7 DEF Written
  <2>2. toRunner' = Sent(<<EvidenceAck(r, s)>>)
    BY <1>7 DEF evidence
  <2> QED
    BY <2>1, <2>2, SendOneWrites, FrameTypes
<1>8. ASSUME NEW r \in Runs, NEW s \in EvidenceStates, lateEvidence(r, s) PROVE SocketStep
  BY <1>1, <1>8 DEF lateEvidence
<1>9. ASSUME NEW i \in DOMAIN outbox, event(i) PROVE SocketStep
  BY <1>1, <1>9 DEF event
<1>10. CASE receiveCommand \/ receiveCancellation \/ receiveReconcileResponse
  BY <1>10 DEF receiveCommand, receiveCancellation, receiveReconcileResponse, Receives, SocketStep
<1>11. CASE receiveEvidenceAck
  BY <1>1, <1>11 DEF receiveEvidenceAck, LoseRunner, LoseSocket, SocketStep
<1>12. CASE CloseReceived \/ Disconnect \/ RunnerCrash \/ ServerCrash
  BY <1>1, <1>12 DEF CloseReceived, Disconnect, RunnerCrash, ServerCrash, LoseRunner, LoseSocket
<1>13. CASE UNCHANGED vars
  BY <1>1, <1>13 DEF vars
<1> QED
  BY <1>2, <1>3, <1>4, <1>5, <1>6, <1>7, <1>8, <1>9, <1>10, <1>11, <1>12, <1>13,
     ConnectionWrites DEF Next

-----------------------------------------------------------------------------
(* The device forgets last.                                                  *)

(* A stop that was asked for is never withdrawn, and a recorded exit stays.  *)
LEMMA StopKeeps ==
  ASSUME TypeOK, [Next]_vars, NEW r \in Runs
  PROVE  /\ stop[r] # "none" => stop'[r] # "none"
         /\ stop[r] = "process_exited" => stop'[r] = "process_exited"
BY StopSteps DEF StopEdges, Unanswered, EvidenceStates

(* A frame tells the device nothing the server's row does not say.           *)
Truthful(rows, f) ==
  /\ f.type = "stop" => rows[f.run] # "none"
  /\ f.type = "evidence_ack" /\ f.state = "process_exited" => rows[f.run] = "process_exited"

(* Whoever acts on a stop has a row to show for it: the reasons and fences   *)
(* of a run,                                                                 *)
RowsStopped == \A r \in Runs : cause[r] # "none" \/ r \in fenced => stop[r] # "none"
(* the hooks of the server,                                                  *)
HooksStopped == \A h \in hooks : stop[h.run] # "none"
(* the frames on the socket,                                                 *)
FramesTruthful == \A i \in DOMAIN toRunner : Truthful(stop, toRunner[i])
(* the handlers and records of the device, whose flags are the server's      *)
(* word,                                                                     *)
DeviceStopped ==
  \A r \in Runs : /\ r \in watch \/ journal[r] # "none" => stop[r] # "none"
                  /\ "process_exited" \in confirmed[r] => stop[r] = "process_exited"
(* and the evidence on its way.                                              *)
EvidenceStopped == \A e \in wire \cup late : stop[e[1]] # "none"

StopInv ==
  RowsStopped /\ HooksStopped /\ FramesTruthful /\ DeviceStopped /\ EvidenceStopped

(* Reasons and fences are written with the stop.                             *)
LEMMA RowsStay ==
  ASSUME TypeOK, StopInv, [Next]_vars
  PROVE  RowsStopped'
<1> SUFFICES ASSUME NEW r \in Runs, cause'[r] # "none" \/ r \in fenced' PROVE stop'[r] # "none"
  BY DEF RowsStopped
<1>1. /\ stop \in [Runs -> StopStates] /\ fenced \subseteq Runs
      /\ cause \in [Runs -> Causes]
  BY TypeParts DEF RowTypes
<1>2. CASE cause'[r] = cause[r] /\ (r \in fenced' => r \in fenced)
  BY <1>2, StopKeeps DEF StopInv, RowsStopped
<1>3. ASSUME NEW q \in Runs, requestProjectStop(q) \/ requestWatchdogStop(q)
      PROVE  stop'[r] # "none"
  <2>1. stop'[q] = "cancellation_requested"
    BY <1>1, <1>3 DEF requestProjectStop, requestWatchdogStop
  <2>2. r # q => cause'[r] = cause[r] /\ (r \in fenced' => r \in fenced)
    BY <1>1, <1>3 DEF requestProjectStop, requestWatchdogStop
  <2> QED
    BY <1>2, <2>1, <2>2
<1>4. CASE revoke
  <2>1. run[r] \in Active => stop'[r] # "none"
    BY <1>1, <1>4 DEF revoke
  <2>2. run[r] \notin Active => cause'[r] = cause[r] /\ (r \in fenced' => r \in fenced)
    BY <1>1, <1>4 DEF revoke
  <2> QED
    BY <1>2, <2>1, <2>2
<1>5. CASE UNCHANGED <<cause, fenced>>
  BY <1>2, <1>5
<1>6. Next => \/ UNCHANGED <<cause, fenced>> \/ revoke
              \/ \E q \in Runs : requestProjectStop(q) \/ requestWatchdogStop(q)
  <2> USE DEF rowVars
  <2>1. ASSUME NEW q \in Runs, claim(q) \/ deliverClaimed(q) \/ replayProjectStop(q)
                               \/ Start(q) \/ Finish(q)
        PROVE  UNCHANGED <<cause, fenced>>
    BY <2>1 DEF claim, deliverClaimed, replayProjectStop, Start, Finish
  <2>2. ASSUME NEW h \in hooks, requestCancellation(h) \/ markUnconfirmedOffline(h)
        PROVE  UNCHANGED <<cause, fenced>>
    BY <2>2 DEF requestCancellation, markUnconfirmedOffline
  <2>3. ASSUME NEW q \in Runs, NEW s \in EvidenceStates, evidence(q, s) \/ lateEvidence(q, s)
        PROVE  UNCHANGED <<cause, fenced>>
    BY <2>3 DEF evidence, lateEvidence, recordDeviceEvidence
  <2>4. ASSUME NEW i \in DOMAIN outbox, event(i) PROVE UNCHANGED <<cause, fenced>>
    BY <2>4 DEF event
  <2>5. ASSUME \/ replayRevoke \/ closeRevokedDevice \/ Connect \/ deliverPending \/ reconcile
               \/ receiveCommand \/ receiveCancellation \/ receiveEvidenceAck
               \/ receiveReconcileResponse \/ retryEvidence
               \/ CloseReceived \/ Disconnect \/ RunnerCrash \/ ServerCrash
        PROVE  UNCHANGED <<cause, fenced>>
    BY <2>5 DEF replayRevoke, closeRevokedDevice, Connect, deliverPending, SendPending, reconcile,
       receiveCommand, receiveCancellation, receiveEvidenceAck, receiveReconcileResponse,
       retryEvidence, CloseReceived, Disconnect, RunnerCrash, ServerCrash
  <2> QED
    BY <2>1, <2>2, <2>3, <2>4, <2>5 DEF Next
<1>7. UNCHANGED vars => UNCHANGED <<cause, fenced>>
  BY DEF vars, rowVars
<1> QED
  BY <1>3, <1>4, <1>5, <1>6, <1>7

(* A hook is created with the stop or for a row that is stopped already.     *)
LEMMA HooksStay ==
  ASSUME TypeOK, StopInv, [Next]_vars
  PROVE  HooksStopped'
<1> SUFFICES ASSUME NEW h \in hooks' PROVE stop'[h.run] # "none"
  BY DEF HooksStopped
<1>1. stop \in [Runs -> StopStates] /\ hooks \subseteq Hooks /\ fenced \subseteq Runs
  BY TypeParts DEF RowTypes, MemoryTypes
<1>2. ASSUME NEW g \in hooks, h.run = g.run PROVE stop'[h.run] # "none"
  BY <1>1, <1>2, HookFacts, StopKeeps DEF StopInv, HooksStopped
<1>3. ASSUME NEW r \in Runs, requestProjectStop(r) \/ requestWatchdogStop(r)
      PROVE  stop'[h.run] # "none"
  <2>1. h \in hooks \/ h.run = r
    BY <1>3 DEF requestProjectStop, requestWatchdogStop, SendHook
  <2>2. stop'[r] # "none"
    BY <1>1, <1>3 DEF requestProjectStop, requestWatchdogStop
  <2> QED
    BY <1>2, <2>1, <2>2
<1>4. ASSUME NEW r \in Runs, replayProjectStop(r) PROVE stop'[h.run] # "none"
  <2>1. h \in hooks \/ h.run = r
    BY <1>4 DEF replayProjectStop, SendHook
  <2>2. stop'[r] # "none"
    BY <1>4, StopKeeps DEF replayProjectStop, StopInv, RowsStopped
  <2> QED
    BY <1>2, <2>1, <2>2
<1>5. CASE revoke
  <2>1. h \in hooks \/ (h.run \in Runs /\ run[h.run] \in Active)
    BY <1>5 DEF revoke, SendHook
  <2>2. ASSUME NEW r \in Runs, run[r] \in Active PROVE stop'[r] # "none"
    BY <1>1, <1>5, <2>2 DEF revoke
  <2> QED
    BY <1>2, <2>1, <2>2
<1>6. CASE replayRevoke
  <2>1. h \in hooks \/ h.run \in fenced
    BY <1>6 DEF replayRevoke, SendHook
  <2>2. \A r \in fenced : stop'[r] # "none"
    BY <1>1, StopKeeps DEF StopInv, RowsStopped
  <2> QED
    BY <1>2, <2>1, <2>2
<1>7. ASSUME NEW g \in hooks, requestCancellation(g) \/ markUnconfirmedOffline(g)
      PROVE  stop'[h.run] # "none"
  <2>1. h \in hooks \/ h = [g EXCEPT !.step = "mark"]
    BY <1>7 DEF requestCancellation, markUnconfirmedOffline
  <2>2. PICK b, r, s : g = [by |-> b, run |-> r, step |-> s]
    BY <1>1 DEF Hooks
  <2>3. h \in hooks \/ h.run = g.run
    BY <2>1, <2>2
  <2> QED
    BY <1>2, <2>3
<1>8. Next => \/ hooks' \subseteq hooks \/ revoke \/ replayRevoke
              \/ \E r \in Runs : \/ requestProjectStop(r) \/ requestWatchdogStop(r)
                                 \/ replayProjectStop(r)
              \/ \E g \in hooks : requestCancellation(g) \/ markUnconfirmedOffline(g)
  <2> USE DEF memoryVars
  <2>1. ASSUME NEW r \in Runs, claim(r) \/ deliverClaimed(r) \/ Start(r) \/ Finish(r)
        PROVE  hooks' \subseteq hooks
    BY <2>1 DEF claim, deliverClaimed, Start, Finish
  <2>2. ASSUME NEW r \in Runs, NEW s \in EvidenceStates, evidence(r, s) \/ lateEvidence(r, s)
        PROVE  hooks' \subseteq hooks
    BY <2>2 DEF evidence, lateEvidence
  <2>3. ASSUME NEW i \in DOMAIN outbox, event(i) PROVE hooks' \subseteq hooks
    BY <2>3 DEF event
  <2>4. ASSUME \/ closeRevokedDevice \/ Connect \/ deliverPending \/ reconcile
               \/ receiveCommand \/ receiveCancellation \/ receiveEvidenceAck
               \/ receiveReconcileResponse \/ retryEvidence
               \/ CloseReceived \/ Disconnect \/ RunnerCrash \/ ServerCrash
        PROVE  hooks' \subseteq hooks
    BY <2>4 DEF closeRevokedDevice, Connect, deliverPending, SendPending, reconcile,
       receiveCommand, receiveCancellation, receiveEvidenceAck, receiveReconcileResponse,
       retryEvidence, CloseReceived, Disconnect, RunnerCrash, ServerCrash
  <2> QED
    BY <2>1, <2>2, <2>3, <2>4 DEF Next
<1>9. UNCHANGED vars => hooks' \subseteq hooks
  BY DEF vars, memoryVars
<1> QED
  BY <1>2, <1>3, <1>4, <1>5, <1>6, <1>7, <1>8, <1>9

(* A truthful frame stays truthful, since rows only gain evidence.           *)
LEMMA TruthStays ==
  ASSUME TypeOK, [Next]_vars, NEW f \in Frames, Truthful(stop, f)
  PROVE  Truthful(stop', f)
BY FrameRun, StopKeeps DEF Truthful

(* What a step writes is truthful.                                           *)
LEMMA WrittenIsTruthful ==
  ASSUME TypeOK, StopInv, [Next]_vars, NEW f, Written(f)
  PROVE  Truthful(stop', f)
<1>1. ASSUME NEW r \in Runs, f = Command(r) PROVE Truthful(stop', f)
  BY <1>1 DEF Command, Truthful
<1>2. ASSUME NEW r \in Runs, f = Stop(r), stop[r] # "none" \/ \E h \in hooks : h.run = r
      PROVE  Truthful(stop', f)
  <2>1. stop'[r] # "none"
    BY <1>2, StopKeeps DEF StopInv, HooksStopped
  <2> QED
    BY <1>2, <2>1 DEF Stop, Truthful
<1>3. ASSUME NEW r \in Runs, NEW s \in EvidenceStates, f = EvidenceAck(r, s), evidence(r, s)
      PROVE  Truthful(stop', f)
  <2>1. stop \in [Runs -> StopStates]
    BY TypeParts DEF RowTypes
  <2>2. stop[r] # "none"
    BY <1>3 DEF evidence, StopInv, EvidenceStopped
  <2>3. stop' = [stop EXCEPT ![r] = IF Advances(r, s) THEN s ELSE @]
    BY <1>3 DEF evidence, recordDeviceEvidence
  <2>4. s = "process_exited" => stop'[r] = "process_exited"
    BY <2>1, <2>2, <2>3 DEF Advances, StopStates, Unanswered, EvidenceStates
  <2> QED
    BY <1>3, <2>4 DEF EvidenceAck, Truthful
<1>4. CASE f = [type |-> "reconcile_response"]
  BY <1>4 DEF Truthful
<1> QED
  BY <1>1, <1>2, <1>3, <1>4 DEF Written

(* Every frame on the socket stays truthful.                                 *)
LEMMA FramesStay ==
  ASSUME TypeOK, StopInv, [Next]_vars
  PROVE  FramesTruthful'
<1>1. toRunner \in Seq(Frames) /\ Len(toRunner) \in Nat /\ DOMAIN toRunner = 1..Len(toRunner)
  BY TypeParts, LenProperties DEF LinkTypes
<1>2. \A i \in 1..Len(toRunner) : Truthful(stop', toRunner[i])
  <2>1. ASSUME NEW i \in 1..Len(toRunner) PROVE Truthful(stop', toRunner[i])
    <3> DEFINE f == toRunner[i]
    <3>1. f \in Frames /\ Truthful(stop, f)
      BY <1>1 DEF StopInv, FramesTruthful
    <3> QED
      BY <3>1, TruthStays
  <2> QED
    BY <2>1
<1>3. CASE toRunner' \in {toRunner, <<>>}
  BY <1>1, <1>2, <1>3 DEF FramesTruthful
<1>4. CASE toRunner # <<>> /\ toRunner' = Tail(toRunner)
  BY <1>1, <1>2, <1>4, HeadIsFrame DEF FramesTruthful
<1>5. ASSUME NEW f \in Seq(Frames), toRunner' = toRunner \o f, \A i \in 1..Len(f) : Written(f[i])
      PROVE  FramesTruthful'
  BY <1>1, <1>2, <1>5, WrittenIsTruthful, ConcatProperties DEF FramesTruthful
<1> QED
  BY <1>3, <1>4, <1>5, SocketSteps DEF SocketStep

(* The steps that write the journal, its flags or the set of waiting         *)
(* handlers; the others leave them or lose the handlers.                     *)
LEMMA WhoJournals ==
  ASSUME Next
  PROVE  \/ UNCHANGED <<journal, confirmed>> /\ watch' \subseteq watch
         \/ receiveCancellation \/ receiveEvidenceAck
         \/ \E r \in Runs : Finish(r)
<1> USE DEF diskVars, processVars
<1> DEFINE Kept == UNCHANGED <<journal, confirmed>> /\ watch' \subseteq watch
<1>1. ASSUME NEW r \in Runs, claim(r) \/ deliverClaimed(r) \/ requestProjectStop(r)
                             \/ replayProjectStop(r) \/ requestWatchdogStop(r) \/ Start(r)
      PROVE  Kept
  BY <1>1 DEF claim, deliverClaimed, requestProjectStop, replayProjectStop,
     requestWatchdogStop, Start
<1>2. ASSUME revoke \/ replayRevoke \/ closeRevokedDevice \/ Connect \/ deliverPending \/ reconcile
      PROVE  Kept
  BY <1>2 DEF revoke, replayRevoke, closeRevokedDevice, Connect, deliverPending, SendPending,
     reconcile
<1>3. ASSUME NEW h \in hooks, requestCancellation(h) \/ markUnconfirmedOffline(h) PROVE Kept
  BY <1>3 DEF requestCancellation, markUnconfirmedOffline
<1>4. ASSUME NEW r \in Runs, NEW s \in EvidenceStates, evidence(r, s) \/ lateEvidence(r, s)
      PROVE  Kept
  BY <1>4 DEF evidence, lateEvidence
<1>5. ASSUME NEW i \in DOMAIN outbox, event(i) PROVE Kept
  BY <1>5 DEF event
<1>6. ASSUME receiveCommand \/ receiveReconcileResponse \/ retryEvidence PROVE Kept
  BY <1>6 DEF receiveCommand, receiveReconcileResponse, retryEvidence
<1>7. ASSUME CloseReceived \/ Disconnect \/ RunnerCrash \/ ServerCrash PROVE Kept
  BY <1>7 DEF CloseReceived, Disconnect, RunnerCrash, ServerCrash, LoseRunner
<1> QED
  BY <1>1, <1>2, <1>3, <1>4, <1>5, <1>6, <1>7 DEF Next

(* What an acknowledgement does to the journal: it sets the flag it carries, *)
(* and drops a record whose two flags are set (markServerAcknowledged).      *)
LEMMA AckSteps ==
  ASSUME TypeOK, receiveEvidenceAck
  PROVE  \E r \in Runs, s \in EvidenceStates :
           /\ toRunner # <<>> /\ Head(toRunner) = EvidenceAck(r, s)
           /\ watch' \subseteq watch
           /\ \/ UNCHANGED <<journal, confirmed>>
              \/ /\ Forgotten(confirmed[r] \cup {s})
                 /\ journal' = [journal EXCEPT ![r] = "none"]
                 /\ confirmed' = [confirmed EXCEPT ![r] = {}]
              \/ /\ journal' = journal
                 /\ confirmed' = [confirmed EXCEPT ![r] = confirmed[r] \cup {s}]
<1>1. /\ toRunner \in Seq(Frames)
      /\ journal \in [Runs -> {"none", "acknowledged", "exited"}]
      /\ confirmed \in [Runs -> SUBSET EvidenceStates]
  BY TypeParts DEF LinkTypes, DiskTypes
<1>2. toRunner # <<>> /\ Head(toRunner).type = "evidence_ack"
  BY DEF receiveEvidenceAck
<1>3. Head(toRunner) \in Frames
  BY <1>1, <1>2, HeadIsFrame
<1>4. PICK r \in Runs, s \in EvidenceStates : Head(toRunner) = EvidenceAck(r, s)
  BY <1>2, <1>3 DEF Frames, EvidenceAck
<1>5. Head(toRunner).run = r /\ Head(toRunner).state = s
  BY <1>4 DEF EvidenceAck
<1>6. watch' \subseteq watch
  BY DEF receiveEvidenceAck, processVars, LoseRunner
<1>7. \/ UNCHANGED <<journal, confirmed>>
      \/ /\ journal' = [journal EXCEPT ![r] = IF Forgotten(confirmed[r] \cup {s}) THEN "none" ELSE @]
         /\ confirmed' = [confirmed EXCEPT ![r] = IF Forgotten(confirmed[r] \cup {s}) THEN {}
                                                  ELSE confirmed[r] \cup {s}]
  BY <1>5 DEF receiveEvidenceAck
<1>8. \/ UNCHANGED <<journal, confirmed>>
      \/ /\ Forgotten(confirmed[r] \cup {s})
         /\ journal' = [journal EXCEPT ![r] = "none"]
         /\ confirmed' = [confirmed EXCEPT ![r] = {}]
      \/ /\ journal' = journal
         /\ confirmed' = [confirmed EXCEPT ![r] = confirmed[r] \cup {s}]
  BY <1>1, <1>7
<1> QED
  BY <1>2, <1>4, <1>6, <1>8

(* The frame the device reads is truthful.                                   *)
LEMMA HeadIsTruthful ==
  ASSUME TypeOK, StopInv, toRunner # <<>>
  PROVE  Head(toRunner) \in Frames /\ Truthful(stop, Head(toRunner))
<1>1. toRunner \in Seq(Frames)
  BY TypeParts DEF LinkTypes
<1> QED
  BY <1>1, HeadIsFrame DEF StopInv, FramesTruthful

(* The device journals, waits for and confirms only stops that stand.        *)
LEMMA DeviceStays ==
  ASSUME TypeOK, StopInv, [Next]_vars
  PROVE  DeviceStopped'
<1>1. /\ journal \in [Runs -> {"none", "acknowledged", "exited"}]
      /\ confirmed \in [Runs -> SUBSET EvidenceStates]
      /\ watch \subseteq Runs
  BY TypeParts DEF DiskTypes, ProcessTypes
<1> SUFFICES ASSUME NEW r \in Runs
             PROVE  /\ r \in watch' \/ journal'[r] # "none" => stop'[r] # "none"
                    /\ "process_exited" \in confirmed'[r] => stop'[r] = "process_exited"
  BY DEF DeviceStopped
<1>2. ASSUME /\ r \in watch' => r \in watch \/ stop[r] # "none"
             /\ journal'[r] # "none" => journal[r] # "none" \/ r \in watch \/ stop[r] # "none"
             /\ "process_exited" \in confirmed'[r]
                => "process_exited" \in confirmed[r] \/ stop[r] = "process_exited"
      PROVE  /\ r \in watch' \/ journal'[r] # "none" => stop'[r] # "none"
             /\ "process_exited" \in confirmed'[r] => stop'[r] = "process_exited"
  BY <1>2, StopKeeps DEF StopInv, DeviceStopped
<1>3. CASE UNCHANGED <<journal, confirmed>> /\ watch' \subseteq watch
  BY <1>2, <1>3
<1>4. CASE receiveCancellation
  <2> DEFINE q == Head(toRunner).run
  <2>1. toRunner # <<>> /\ Head(toRunner).type = "stop"
    BY <1>4 DEF receiveCancellation, Receives
  <2>2. q \in Runs /\ stop[q] # "none"
    BY <2>1, HeadIsTruthful, FrameRun DEF Truthful
  <2>3. confirmed' = confirmed /\ watch' \subseteq watch \cup {q}
    BY <1>4 DEF receiveCancellation
  <2>4. r # q => journal'[r] = journal[r]
    BY <1>1, <1>4 DEF receiveCancellation
  <2> HIDE DEF q
  <2> QED
    BY <1>2, <2>2, <2>3, <2>4
<1>5. CASE receiveEvidenceAck
  <2>1. PICK q \in Runs, s \in EvidenceStates :
          /\ toRunner # <<>> /\ Head(toRunner) = EvidenceAck(q, s)
          /\ watch' \subseteq watch
          /\ \/ UNCHANGED <<journal, confirmed>>
             \/ /\ journal' = [journal EXCEPT ![q] = "none"]
                /\ confirmed' = [confirmed EXCEPT ![q] = {}]
             \/ /\ journal' = journal
                /\ confirmed' = [confirmed EXCEPT ![q] = confirmed[q] \cup {s}]
    BY <1>5, AckSteps
  <2>2. s = "process_exited" => stop[q] = "process_exited"
    BY <2>1, HeadIsTruthful DEF Truthful, EvidenceAck
  <2>3. journal'[r] # "none" => journal[r] # "none"
    BY <1>1, <2>1
  <2>4. "process_exited" \in confirmed'[r]
        => "process_exited" \in confirmed[r] \/ stop[r] = "process_exited"
    BY <1>1, <2>1, <2>2
  <2> QED
    BY <1>2, <2>1, <2>3, <2>4
<1>6. ASSUME NEW q \in Runs, Finish(q)
      PROVE  /\ r \in watch' \/ journal'[r] # "none" => stop'[r] # "none"
             /\ "process_exited" \in confirmed'[r] => stop'[r] = "process_exited"
  <2>1. watch' \subseteq watch /\ confirmed' = confirmed
    BY <1>6 DEF Finish
  <2>2. journal'[r] # "none" => journal[r] # "none" \/ r \in watch
    BY <1>1, <1>6 DEF Finish
  <2> QED
    BY <1>2, <2>1, <2>2
<1>7. UNCHANGED vars => UNCHANGED <<journal, confirmed>> /\ watch' \subseteq watch
  BY DEF vars, diskVars, processVars
<1> QED
  BY <1>3, <1>4, <1>5, <1>6, <1>7, WhoJournals

(* New evidence on the wire is of a stop in the journal.                     *)
LEMMA EvidenceSteps ==
  ASSUME [Next]_vars
  PROVE  \A e \in wire' \cup late' :
           \/ e \in wire \cup late
           \/ e \in Evidence /\ (journal[e[1]] # "none" \/ journal'[e[1]] # "none")
<1> USE DEF linkVars
<1> DEFINE Old == wire' \cup late' \subseteq wire \cup late
<1>1. \A j, c : \A e \in Due(j, c) : e \in Evidence /\ j[e[1]] # "none"
  BY DEF Due
<1>2. ASSUME NEW r \in Runs, claim(r) \/ deliverClaimed(r) \/ requestProjectStop(r)
                             \/ replayProjectStop(r) \/ requestWatchdogStop(r) \/ Start(r)
      PROVE  Old
  BY <1>2 DEF claim, deliverClaimed, requestProjectStop, replayProjectStop,
     requestWatchdogStop, Start
<1>3. ASSUME revoke \/ replayRevoke \/ closeRevokedDevice \/ deliverPending PROVE Old
  BY <1>3 DEF revoke, replayRevoke, closeRevokedDevice, deliverPending, SendPending
<1>4. ASSUME NEW h \in hooks, requestCancellation(h) \/ markUnconfirmedOffline(h) PROVE Old
  BY <1>4 DEF requestCancellation, markUnconfirmedOffline
<1>5. ASSUME NEW r \in Runs, NEW s \in EvidenceStates, evidence(r, s) \/ lateEvidence(r, s)
      PROVE  Old
  BY <1>5 DEF evidence, lateEvidence
<1>6. ASSUME reconcile \/ (\E i \in DOMAIN outbox : event(i)) PROVE Old
  BY <1>6, LostEvidence DEF reconcile, event
<1>7. ASSUME receiveCommand \/ receiveReconcileResponse PROVE Old
  BY <1>7 DEF receiveCommand, receiveReconcileResponse
<1>8. ASSUME CloseReceived \/ Disconnect \/ RunnerCrash \/ ServerCrash PROVE Old
  BY <1>8, LostEvidence DEF CloseReceived, Disconnect, RunnerCrash, ServerCrash, LoseRunner
<1>9. ASSUME \/ Connect \/ retryEvidence \/ receiveCancellation \/ receiveEvidenceAck
             \/ \E r \in Runs : Finish(r)
      PROVE  Old \/ \E j \in {journal, journal'} : \E c :
                      wire' \cup late' \subseteq wire \cup late \cup Due(j, c)
  <2>1. CASE Connect
    BY <2>1 DEF Connect
  <2>2. CASE retryEvidence \/ receiveCancellation
    BY <2>2 DEF retryEvidence, receiveCancellation, Flush
  <2>3. CASE receiveEvidenceAck
    BY <2>3, LostEvidence DEF receiveEvidenceAck, LoseRunner, Flush
  <2>4. ASSUME NEW r \in Runs, Finish(r)
        PROVE  Old \/ wire' \cup late' \subseteq wire \cup late \cup Due(journal', confirmed)
    BY <2>4 DEF Finish, Flush
  <2> QED
    BY <1>9, <2>1, <2>2, <2>3, <2>4
<1>10. UNCHANGED vars => Old
  BY DEF vars
<1> QED
  BY <1>1, <1>2, <1>3, <1>4, <1>5, <1>6, <1>7, <1>8, <1>9, <1>10 DEF Next

(* The evidence on its way is of stops that stand.                           *)
LEMMA EvidenceStays ==
  ASSUME TypeOK, StopInv, [Next]_vars
  PROVE  EvidenceStopped'
<1> SUFFICES ASSUME NEW e \in wire' \cup late' PROVE stop'[e[1]] # "none"
  BY DEF EvidenceStopped
<1>1. wire \cup late \subseteq Evidence
  BY TypeParts DEF LinkTypes
<1>2. e \in Evidence => e[1] \in Runs
  BY DEF Evidence
<1>3. CASE e \in wire \cup late
  BY <1>1, <1>2, <1>3, StopKeeps DEF StopInv, EvidenceStopped
<1>4. CASE e \in Evidence /\ journal[e[1]] # "none"
  BY <1>2, <1>4, StopKeeps DEF StopInv, DeviceStopped
<1>5. CASE e \in Evidence /\ journal'[e[1]] # "none"
  BY <1>2, <1>5, DeviceStays DEF DeviceStopped
<1> QED
  BY <1>3, <1>4, <1>5, EvidenceSteps

(* Every action on a stop has a row behind it.                               *)
LEMMA StopsStand == Spec => []StopInv
<1>1. Init => StopInv
  BY DEF Init, StopInv, RowsStopped, HooksStopped, FramesTruthful, DeviceStopped, EvidenceStopped
<1>2. TypeOK /\ StopInv /\ [Next]_vars => StopInv'
  BY RowsStay, HooksStay, FramesStay, DeviceStays, EvidenceStays DEF StopInv
<1> QED
  BY <1>1, <1>2, TypeCorrect, PTL DEF Spec

(* The device forgets a stop only when the server has its exit on record,    *)
(* whatever frames were lost, repeated or late (markServerAcknowledged).     *)
THEOREM ForgottenLast == Spec => RecordOutlivesReport
<1>1. ASSUME TypeOK, StopInv, [Next]_vars
      PROVE  [\A r \in Runs : journal[r] # "none" /\ journal'[r] = "none"
                              => stop[r] = "process_exited"]_vars
  <2> SUFFICES ASSUME NEW r \in Runs, journal[r] # "none", journal'[r] = "none"
               PROVE  stop[r] = "process_exited"
    OBVIOUS
  <2>1. journal \in [Runs -> {"none", "acknowledged", "exited"}]
    BY <1>1, TypeParts DEF DiskTypes
  <2>2. ~UNCHANGED journal
    OBVIOUS
  <2>3. ~receiveCancellation
    BY <2>1 DEF receiveCancellation
  <2>4. ASSUME NEW q \in Runs, Finish(q) PROVE FALSE
    BY <2>1, <2>4 DEF Finish
  <2>5. receiveEvidenceAck
    BY <1>1, <2>2, <2>3, <2>4, WhoJournals DEF vars, diskVars
  <2>6. PICK q \in Runs, s \in EvidenceStates :
          /\ toRunner # <<>> /\ Head(toRunner) = EvidenceAck(q, s)
          /\ Forgotten(confirmed[q] \cup {s})
          /\ journal' = [journal EXCEPT ![q] = "none"]
    BY <1>1, <2>2, <2>5, AckSteps
  <2>7. q = r
    BY <2>1, <2>6
  <2>8. "process_exited" \in confirmed[r] \/ s = "process_exited"
    BY <2>6, <2>7 DEF Forgotten, EvidenceStates
  <2>9. s = "process_exited" => stop[r] = "process_exited"
    BY <1>1, <2>6, <2>7, HeadIsTruthful DEF Truthful, EvidenceAck
  <2> QED
    BY <1>1, <2>8, <2>9 DEF StopInv, DeviceStopped
<1> QED
  BY <1>1, StopsStand, TypeCorrect, PTL DEF Spec, RecordOutlivesReport

-----------------------------------------------------------------------------
(* Nothing is sent for a stopped run.                                        *)

(* Where the commands of a run stand on the socket.                          *)
Places(frames, r) == {i \in DOMAIN frames : frames[i] = Command(r)}

(* A queue has a number of them.                                             *)
LEMMA PlacesFinite ==
  ASSUME NEW s \in Seq(Frames), NEW r
  PROVE  /\ IsFiniteSet(Places(s, r)) /\ Cardinality(Places(s, r)) \in Nat
         /\ Commands(s, r) = Cardinality(Places(s, r))
<1>1. Len(s) \in Nat /\ DOMAIN s = 1..Len(s)
  BY LenProperties
<1>2. IsFiniteSet(1..Len(s))
  BY <1>1, FS_Interval
<1>3. IsFiniteSet(Places(s, r))
  BY <1>1, <1>2, FS_Subset DEF Places
<1> QED
  BY <1>3, FS_CardinalityType DEF Places, Commands

(* Reading a frame adds no command.                                          *)
LEMMA TailCommands ==
  ASSUME toRunner \in Seq(Frames), toRunner # <<>>, NEW r
  PROVE  Commands(Tail(toRunner), r) <= Commands(toRunner, r)
<1> DEFINE A == Places(Tail(toRunner), r)
           B == Places(toRunner, r)
           f == [i \in A |-> i + 1]
<1>1. Len(toRunner) \in Nat /\ Tail(toRunner) \in Seq(Frames)
  BY HeadIsFrame, LenProperties
<1>2. DOMAIN Tail(toRunner) = 1..Len(toRunner) - 1
  BY <1>1, HeadIsFrame, LenProperties
<1>3. \A i \in A : i \in Nat /\ i + 1 \in B
  BY <1>1, <1>2, HeadIsFrame DEF Places
<1> HIDE DEF A, B
<1>4. f \in Injection(A, B)
  BY <1>3 DEF Injection, IsInjective
<1>5. IsFiniteSet(B)
  BY PlacesFinite DEF B
<1>6. Cardinality(A) <= Cardinality(B)
  BY <1>4, <1>5, FS_Injection
<1> QED
  BY <1>1, <1>6, PlacesFinite DEF A, B

(* Frames that are no commands of the run do not count.                      *)
LEMMA AppendedCommands ==
  ASSUME toRunner \in Seq(Frames), NEW f \in Seq(Frames), NEW r,
         \A i \in 1..Len(f) : f[i] # Command(r)
  PROVE  Commands(toRunner \o f, r) = Commands(toRunner, r)
<1>1. /\ Len(toRunner) \in Nat /\ DOMAIN toRunner = 1..Len(toRunner)
      /\ Len(f) \in Nat /\ toRunner \o f \in Seq(Frames)
      /\ Len(toRunner \o f) = Len(toRunner) + Len(f)
      /\ DOMAIN (toRunner \o f) = 1..Len(toRunner) + Len(f)
      /\ \A i \in 1..Len(toRunner) + Len(f) :
           (toRunner \o f)[i] = IF i <= Len(toRunner) THEN toRunner[i] ELSE f[i - Len(toRunner)]
  BY LenProperties, ConcatProperties
<1>2. \A i \in 1..Len(toRunner) + Len(f) : i > Len(toRunner) => (toRunner \o f)[i] # Command(r)
  BY <1>1
<1>3. Places(toRunner \o f, r) = Places(toRunner, r)
  BY <1>1, <1>2 DEF Places
<1> QED
  BY <1>1, <1>3, PlacesFinite

(* From the commit of a stop on, no further command of the run is written to *)
(* the socket, by a tick that claimed it before or by a reconnection         *)
(* (deliverClaimed, deliverPendingForRunner).                                *)
THEOREM NothingSent == Spec => NothingSentAfterStop
<1>1. ASSUME TypeOK, [Next]_vars
      PROVE  [\A r \in Runs : stop[r] # "none"
                              => Commands(toRunner', r) <= Commands(toRunner, r)]_vars
  <2> SUFFICES ASSUME NEW r \in Runs, stop[r] # "none"
               PROVE  Commands(toRunner', r) <= Commands(toRunner, r)
    OBVIOUS
  <2>1. toRunner \in Seq(Frames)
    BY <1>1, TypeParts DEF LinkTypes
  <2>2. Commands(toRunner, r) \in Nat
    BY <2>1, PlacesFinite
  <2>3. CASE toRunner' = toRunner
    BY <2>2, <2>3
  <2>4. CASE toRunner' = <<>>
    <3>1. Commands(<<>>, r) = 0
      BY FS_EmptySet DEF Commands
    <3> QED
      BY <2>2, <2>4, <3>1
  <2>5. CASE toRunner # <<>> /\ toRunner' = Tail(toRunner)
    BY <2>1, <2>5, TailCommands
  <2>6. ASSUME NEW f \in Seq(Frames), toRunner' = toRunner \o f,
               \A i \in 1..Len(f) : Written(f[i])
        PROVE  Commands(toRunner', r) <= Commands(toRunner, r)
    <3>1. ASSUME NEW g, Written(g) PROVE g # Command(r)
      <4>1. ASSUME NEW q \in Runs, Command(q) = Command(r) PROVE q = r
        <5>1. Command(q).run = Command(r).run
          BY <4>1
        <5> QED
          BY <5>1 DEF Command
      <4>2. ~Authorized(r)
        BY DEF Authorized
      <4>3. ASSUME NEW q \in Runs PROVE Stop(q) # Command(r)
        <5>1. Stop(q).type # Command(r).type
          BY DEF Stop, Command
        <5> QED
          BY <5>1
      <4>4. ASSUME NEW q \in Runs, NEW s \in EvidenceStates PROVE EvidenceAck(q, s) # Command(r)
        <5>1. EvidenceAck(q, s).type # Command(r).type
          BY DEF EvidenceAck, Command
        <5> QED
          BY <5>1
      <4>5. [type |-> "reconcile_response"] # Command(r)
        <5>1. [type |-> "reconcile_response"].type # Command(r).type
          BY DEF Command
        <5> QED
          BY <5>1
      <4> QED
        BY <3>1, <4>1, <4>2, <4>3, <4>4, <4>5 DEF Written
    <3> QED
      BY <2>1, <2>2, <2>6, <3>1, AppendedCommands
  <2> QED
    BY <1>1, <2>3, <2>4, <2>5, <2>6, SocketSteps DEF SocketStep
<1> QED
  BY <1>1, TypeCorrect, PTL DEF Spec, NothingSentAfterStop
=============================================================================
