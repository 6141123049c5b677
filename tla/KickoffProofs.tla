---------------------------- MODULE KickoffProofs ----------------------------
(***************************************************************************)
(* TLAPS proofs about Kickoff, for any plans, users, callers and tasks.    *)
(***************************************************************************)
EXTENDS Kickoff, SequenceTheorems, FiniteSetTheorems, TLAPS

(* What the callers know at each place of the saga.                          *)
OnPhase == {"ensure", "draft", "review", "edit", "save", "proposed", "approve", "packages",
            "start"}
OnStrategy == OnPhase \ {"ensure", "draft"}
Pcs == OnPhase \cup {"idle", "check", "find", "version", "create", "bind", "report"}

Versions == [status : {"awaiting_approval", "superseded", "approved"}, edited : BOOLEAN,
             by : Users \cup {None}]
PhaseRows == [status : {"absent", "proposed", "awaiting_approval", "approved", "active",
                        "completed"},
              ver : Nat, strategies : Seq(Versions), dispatched : Nat]
CallRecords == [pc : Pcs, run : Plans \cup {None}, user : Users \cup {None},
                via : {None, "intent", "retry"}, phase : PhaseIds \cup {<<>>}, ver : Nat,
                strategy : Nat, started : BOOLEAN]
IntentRows == [status : {"held", "pending", "leased", "succeeded", "refused", "failed"},
               holder : Callers \cup {None}]

(* The type of each variable.                                                *)
Types ==
  /\ phases \in [PhaseIds -> PhaseRows]
  /\ bound \in [Plans -> PhaseIds \cup {Unbound}]
  /\ project \in Nat
  /\ intent \in [Plans -> IntentRows]
  /\ call \in [Callers -> CallRecords]

(* The phase a plan is bound to is one of its own.                           *)
BoundInv == \A r \in Plans : bound[r] # Unbound => bound[r][1] = r

(* Strategy i of phase p is approved, in the phases ph.                      *)
Approved(ph, p, i) ==
  i \in DOMAIN ph[p].strategies /\ ph[p].strategies[i].status = "approved"

(* Only a bound phase has strategies or executes, only the first strategy is *)
(* without the staffing override, and one strategy at most is approved.      *)
PhaseFits(p, b, ph) ==
  /\ \/ Len(ph[p].strategies) # 0 \/ ph[p].dispatched > 0
     \/ ph[p].status \in {"awaiting_approval", "approved", "active"}
     => b[p[1]] = p
  /\ ph[p].status = "active" \/ ph[p].dispatched > 0 => \E i \in Nat : Approved(ph, p, i)
  /\ \A i \in DOMAIN ph[p].strategies : ph[p].strategies[i].edited = (i > 1)
  /\ \A i, j \in Nat : Approved(ph, p, i) /\ Approved(ph, p, j) => i = j
  /\ \A i \in Nat : Approved(ph, p, i) /\ p[1] \in Staffed => i > 1
PhaseInv == \A p \in PhaseIds : PhaseFits(p, bound, phases)

(* A caller works on a phase of its plan, on the bound one behind "bind",    *)
(* and what it has read of the phase's strategies still stands.              *)
Fits(c, b, ph) ==
  /\ c.pc # "idle" => c.run \in Plans /\ c.user \in Users
  /\ c.pc \in OnPhase \cup {"bind"} => c.phase \in PhaseIds /\ c.phase[1] = c.run
  /\ c.pc \in OnPhase => b[c.run] = c.phase
  /\ c.pc \in OnStrategy => Len(ph[c.phase].strategies) >= 1
  /\ c.pc = "save" => c.strategy >= 1
  /\ c.pc = "approve" => c.strategy >= 1 /\ c.strategy <= Len(ph[c.phase].strategies)
  /\ c.pc = "proposed" /\ c.run \in Staffed => Len(ph[c.phase].strategies) > 1
  /\ c.pc = "approve" /\ c.run \in Staffed => c.strategy > 1
  /\ c.pc = "start" => \E i \in Nat : Approved(ph, c.phase, i)
CallInv == \A w \in Callers : Fits(call[w], bound, phases)

KickInv == Types /\ BoundInv /\ PhaseInv /\ CallInv

-----------------------------------------------------------------------------
(* No phase is the missing one.                                              *)
LEMMA PhaseBound == ASSUME NEW p \in PhaseIds PROVE p # Unbound
<1>1. PICK r \in Plans, u \in Users : p = <<r, u>>
  BY DEF PhaseIds
<1>2. Len(p) = 2 /\ Len(Unbound) = 0
  BY <1>1 DEF Unbound
<1>3. ASSUME p = Unbound
      PROVE  Len(p) = Len(Unbound)
  BY <1>3
<1>4. 2 # 0
  OBVIOUS
<1> QED
  BY <1>2, <1>3, <1>4, Zenon

(* Bindings stay, strategies are only added, approvals are not taken back.   *)
Grows ==
  /\ \A r \in Plans : bound[r] # Unbound => bound'[r] = bound[r]
  /\ \A p \in PhaseIds :
       /\ Len(phases'[p].strategies) \in Nat
       /\ Len(phases'[p].strategies) >= Len(phases[p].strategies)
       /\ \A i \in Nat : Approved(phases, p, i) => Approved(phases', p, i)

(* What fits goes on to fit.                                                 *)
LEMMA StillFits ==
  ASSUME Types, Grows, NEW c \in CallRecords, Fits(c, bound, phases)
  PROVE  Fits(c, bound', phases')
<1>1. CASE c.pc \in OnPhase
  <2>1. c.phase \in PhaseIds /\ c.run \in Plans
    BY <1>1 DEF Fits, OnPhase
  <2>2. c.phase # Unbound
    BY <2>1, PhaseBound
  <2>3. bound'[c.run] = c.phase
    BY <1>1, <2>1, <2>2 DEF Grows, Fits
  <2>4. Len(phases[c.phase].strategies) \in Nat /\ c.strategy \in Nat
    BY <2>1 DEF Types, PhaseRows, CallRecords
  <2>5. /\ Len(phases'[c.phase].strategies) \in Nat
        /\ Len(phases'[c.phase].strategies) >= Len(phases[c.phase].strategies)
        /\ \A i \in Nat : Approved(phases, c.phase, i) => Approved(phases', c.phase, i)
    BY <2>1 DEF Grows
  <2>6. /\ c.pc # "idle" => c.run \in Plans /\ c.user \in Users
        /\ c.pc \in OnPhase \cup {"bind"} => c.phase \in PhaseIds /\ c.phase[1] = c.run
        /\ c.pc \in OnPhase => bound'[c.run] = c.phase
        /\ c.pc = "save" => c.strategy >= 1
        /\ c.pc = "approve" /\ c.run \in Staffed => c.strategy > 1
    BY <2>3 DEF Fits
  <2>7. /\ c.pc \in OnStrategy => Len(phases'[c.phase].strategies) >= 1
        /\ c.pc = "approve" => c.strategy >= 1 /\ c.strategy <= Len(phases'[c.phase].strategies)
        /\ c.pc = "proposed" /\ c.run \in Staffed => Len(phases'[c.phase].strategies) > 1
    BY <2>4, <2>5 DEF Fits
  <2>8. c.pc = "start" => \E i \in Nat : Approved(phases', c.phase, i)
    BY <2>5 DEF Fits
  <2> QED
    BY <2>6, <2>7, <2>8 DEF Fits
<1>2. CASE c.pc \notin OnPhase
  BY <1>2 DEF Fits, OnPhase, OnStrategy
<1> QED
  BY <1>1, <1>2

(* A step of one caller, that leaves it in a record that fits.               *)
LEMMA CallMoves ==
  ASSUME Types, CallInv, Grows, NEW w \in Callers, NEW d \in CallRecords,
         call' = [call EXCEPT ![w] = d], Fits(d, bound', phases')
  PROVE  CallInv' /\ call' \in [Callers -> CallRecords]
<1>1. call \in [Callers -> CallRecords]
  BY DEF Types
<1>2. ASSUME NEW x \in Callers
      PROVE  Fits(call'[x], bound', phases')
  <2>1. CASE x = w
    BY <1>1, <2>1
  <2>2. CASE x # w
    <3>1. call'[x] = call[x] /\ call[x] \in CallRecords
      BY <1>1, <2>2
    <3> QED
      BY <3>1, StillFits DEF CallInv
  <2> QED
    BY <2>1, <2>2
<1>3. call' \in [Callers -> CallRecords]
  BY <1>1
<1> QED
  BY <1>2, <1>3 DEF CallInv

(* Nothing changes for the phases.                                           *)
LEMMA PhasesStand ==
  ASSUME KickInv, phases' = phases, bound' = bound
  PROVE  /\ Grows /\ PhaseInv' /\ BoundInv'
         /\ phases' \in [PhaseIds -> PhaseRows] /\ bound' \in [Plans -> PhaseIds \cup {Unbound}]
<1>1. \A p \in PhaseIds : Len(phases[p].strategies) \in Nat
  BY DEF KickInv, Types, PhaseRows
<1> QED
  BY <1>1 DEF KickInv, Types, PhaseInv, BoundInv, Grows

(* The record of a caller that goes on.                                      *)
Same(d, c) == d.run = c.run /\ d.user = c.user /\ d.via = c.via /\ d.phase = c.phase

(* A step of one caller that writes to no phase.                             *)
LEMMA OnlyCall ==
  ASSUME KickInv, NEW w \in Callers, NEW d \in CallRecords,
         call' = [call EXCEPT ![w] = d], phases' = phases, bound' = bound,
         Fits(d, bound, phases), project' \in Nat, intent' \in [Plans -> IntentRows]
  PROVE  KickInv'
<1>1. Grows /\ PhaseInv' /\ BoundInv' /\ phases' \in [PhaseIds -> PhaseRows]
      /\ bound' \in [Plans -> PhaseIds \cup {Unbound}]
  BY PhasesStand
<1>2. CallInv' /\ call' \in [Callers -> CallRecords]
  <2>1. Fits(d, bound', phases')
    OBVIOUS
  <2> QED
    BY <1>1, <2>1, CallMoves DEF KickInv
<1> QED
  BY <1>1, <1>2 DEF KickInv, Types

(* A call that is over or has reported fits whatever the phases are.         *)
LEMMA Reported ==
  ASSUME NEW w \in Callers, NEW b \in BOOLEAN, KickInv, call[w].pc # "idle", Report(w, b)
  PROVE  \E d \in CallRecords :
           call' = [call EXCEPT ![w] = d] /\ d.pc = "report"
           /\ d.run \in Plans /\ d.user \in Users
<1> DEFINE d == [call[w] EXCEPT !.pc = "report", !.started = b]
<1>1. call[w] \in CallRecords
  BY DEF KickInv, Types
<1>2. "report" \in Pcs
  BY DEF Pcs
<1>3. d \in CallRecords /\ d.pc = "report" /\ Same(d, call[w])
  BY <1>1, <1>2 DEF CallRecords, Same
<1>4. call' = [call EXCEPT ![w] = d]
  BY DEF Report
<1>5. call[w].run \in Plans /\ call[w].user \in Users
  BY DEF KickInv, CallInv, Fits
<1> QED
  BY <1>3, <1>4, <1>5 DEF Same

(* ... and in particular a reported one.                                     *)
LEMMA ReportFits ==
  ASSUME NEW d \in CallRecords, d.pc = "report", d.run \in Plans, d.user \in Users, NEW b, NEW ph
  PROVE  Fits(d, b, ph)
BY DEF Fits, OnPhase, OnStrategy

-----------------------------------------------------------------------------
(* Calls begin, end and are lost.                                            *)
LEMMA BeginEnd ==
  ASSUME KickInv, Decider \in Users, NEW w \in Callers,
         \/ \E r \in Plans : dispatchKickoffIntent(w, r)
         \/ \E r \in Plans, u \in Users : RetryExecution(w, r, u)
         \/ Crash(w) \/ Answer(w)
  PROVE  KickInv'
<1>0. /\ intent \in [Plans -> IntentRows] /\ project \in Nat
      /\ call \in [Callers -> CallRecords] /\ Idle \in CallRecords /\ Idle.pc = "idle"
  BY DEF KickInv, Types, Idle, CallRecords, Pcs
<1>1. Fits(Idle, bound, phases)
  BY <1>0 DEF Fits, OnPhase, OnStrategy
<1>2. ASSUME NEW r \in Plans, NEW u \in Users, NEW via \in {"intent", "retry"}, Begin(w, r, u, via)
      PROVE  \E d \in CallRecords : call' = [call EXCEPT ![w] = d] /\ Fits(d, bound, phases)
  <2> DEFINE d == [Idle EXCEPT !.pc = "check", !.run = r, !.user = u, !.via = via]
  <2>1. d \in CallRecords /\ d.pc = "check" /\ d.run = r /\ d.user = u
    <3>1. "check" \in Pcs
      BY DEF Pcs
    <3> QED
      BY <1>0, <3>1 DEF CallRecords
  <2>2. call' = [call EXCEPT ![w] = d]
    BY <1>2 DEF Begin
  <2> HIDE DEF d
  <2>3. Fits(d, bound, phases)
    BY <2>1 DEF Fits, OnPhase, OnStrategy
  <2> QED
    BY <2>1, <2>2, <2>3
<1>3. ASSUME NEW r \in Plans, dispatchKickoffIntent(w, r)
      PROVE  KickInv'
  <2>1. /\ phases' = phases /\ bound' = bound /\ project' = project
        /\ intent' \in [Plans -> IntentRows] /\ Begin(w, r, Decider, "intent")
    BY <1>0, <1>3 DEF dispatchKickoffIntent, IntentRows
  <2>2. PICK d \in CallRecords : call' = [call EXCEPT ![w] = d] /\ Fits(d, bound, phases)
    BY <1>2, <2>1
  <2> QED
    BY <1>0, <2>1, <2>2, OnlyCall
<1>4. ASSUME NEW r \in Plans, NEW u \in Users, RetryExecution(w, r, u)
      PROVE  KickInv'
  <2>1. /\ phases' = phases /\ bound' = bound /\ project' = project
        /\ intent' = intent /\ Begin(w, r, u, "retry")
    BY <1>4 DEF RetryExecution
  <2>2. PICK d \in CallRecords : call' = [call EXCEPT ![w] = d] /\ Fits(d, bound, phases)
    BY <1>2, <2>1
  <2> QED
    BY <1>0, <2>1, <2>2, OnlyCall
<1>5. CASE Crash(w)
  <2>1. /\ phases' = phases /\ bound' = bound /\ project' = project
        /\ intent' = intent /\ call' = [call EXCEPT ![w] = Idle]
    BY <1>5 DEF Crash
  <2> QED
    BY <1>0, <1>1, <2>1, OnlyCall
<1>6. CASE Answer(w)
  <2>1. /\ phases' = phases /\ bound' = bound /\ project' = project
        /\ call' = [call EXCEPT ![w] = Idle]
    BY <1>6 DEF Answer
  <2>2. call[w].run \in Plans
    BY <1>6 DEF Answer, KickInv, CallInv, Fits
  <2>3. intent' \in [Plans -> IntentRows]
    BY <1>0, <1>6, <2>2 DEF Answer, settleKickoffIntent, reconcileConversationExecutionRetry,
       IntentRows
  <2> QED
    BY <1>0, <1>1, <2>1, <2>3, OnlyCall
<1> QED
  BY <1>3, <1>4, <1>5, <1>6

(* The steps of the saga that only read.                                     *)
LEMMA Reads ==
  ASSUME KickInv, NEW w \in Callers,
         \/ CheckActive(w) \/ FindPhase(w) \/ ReadProjectVersion(w) \/ EnsureStrategy(w)
         \/ Review(w) \/ EditStaffingReads(w) \/ ApproveReads(w) \/ BindPackages(w)
  PROVE  KickInv'
<1> DEFINE c == call[w]
           ph == phases[c.phase].strategies
<1>0. /\ phases' = phases /\ bound' = bound /\ project' = project /\ intent' = intent
      /\ project \in Nat /\ intent \in [Plans -> IntentRows] /\ c \in CallRecords
      /\ Fits(c, bound, phases) /\ c.pc # "idle"
  BY DEF CheckActive, FindPhase, ReadProjectVersion, EnsureStrategy, Review,
     EditStaffingReads, ApproveReads, BindPackages, KickInv, Types, CallInv
<1>1. c.run \in Plans /\ c.user \in Users
  BY <1>0 DEF Fits
<1>2. SUFFICES \E d \in CallRecords : call' = [call EXCEPT ![w] = d] /\ Fits(d, bound, phases)
  BY <1>0, OnlyCall
<1>3. ASSUME NEW b \in BOOLEAN, Report(w, b)
      PROVE  \E d \in CallRecords : call' = [call EXCEPT ![w] = d] /\ Fits(d, bound, phases)
  <2>1. PICK d \in CallRecords : /\ call' = [call EXCEPT ![w] = d] /\ d.pc = "report"
                                 /\ d.run \in Plans /\ d.user \in Users
    BY <1>0, <1>3, Reported
  <2> QED
    BY <2>1, ReportFits
<1>4. ASSUME NEW pc \in Pcs, Goto(w, pc)
      PROVE  \E d \in CallRecords :
               /\ call' = [call EXCEPT ![w] = d]
               /\ d.pc = pc /\ Same(d, c) /\ d.strategy = c.strategy
  <2> DEFINE d == [c EXCEPT !.pc = pc]
  <2>1. d \in CallRecords /\ d.pc = pc /\ Same(d, c) /\ d.strategy = c.strategy
    BY <1>0 DEF CallRecords, Same
  <2>2. call' = [call EXCEPT ![w] = d]
    BY <1>4 DEF Goto
  <2> QED
    BY <2>1, <2>2
<1>5. c.pc \in OnPhase => /\ c.phase \in PhaseIds /\ c.phase[1] = c.run /\ bound[c.run] = c.phase
                          /\ phases[c.phase] \in PhaseRows /\ ph \in Seq(Versions)
                          /\ Len(ph) \in Nat
  BY <1>0 DEF Fits, KickInv, Types, PhaseRows
<1>6. ASSUME NEW d \in CallRecords, Same(d, c), c.pc \in OnPhase
      PROVE  /\ d.run \in Plans /\ d.user \in Users
             /\ d.phase \in PhaseIds /\ d.phase[1] = d.run /\ bound[d.run] = d.phase
             /\ phases[d.phase].strategies = ph
  BY <1>1, <1>5, <1>6 DEF Same
<1> HIDE DEF c, ph
<1>7. CASE CheckActive(w)
  <2>1. CASE Goto(w, "find")
    <3>1. "find" \in Pcs
      BY DEF Pcs
    <3>2. PICK d \in CallRecords :
               /\ call' = [call EXCEPT ![w] = d]
               /\ d.pc = "find" /\ Same(d, c) /\ d.strategy = c.strategy
      BY <1>4, <2>1, <3>1
    <3>3. Fits(d, bound, phases)
      BY <1>1, <3>2 DEF Fits, Same, OnPhase, OnStrategy
    <3> QED
      BY <3>2, <3>3
  <2>2. CASE ~Goto(w, "find")
    <3>1. PICK q : Report(w, bound[c.run] = q)
      BY <1>7, <2>2 DEF CheckActive, c
    <3> QED
      BY <1>3, <3>1
  <2> QED
    BY <2>1, <2>2
<1>8. CASE FindPhase(w)
  <2>1. CASE bound[c.run] # Unbound
    <3> DEFINE d == [c EXCEPT !.pc = "ensure", !.phase = bound[c.run]]
    <3>1. bound[c.run] \in PhaseIds /\ bound[c.run][1] = c.run
      BY <1>1, <2>1 DEF KickInv, Types, BoundInv
    <3>2. "ensure" \in Pcs
      BY DEF Pcs, OnPhase
    <3>3. /\ d \in CallRecords /\ d.pc = "ensure" /\ d.run = c.run /\ d.user = c.user
          /\ d.phase = bound[c.run]
      BY <1>0, <3>1, <3>2 DEF CallRecords
    <3>4. call' = [call EXCEPT ![w] = d]
      BY <1>8, <2>1 DEF FindPhase, c
    <3> HIDE DEF d
    <3>5. Fits(d, bound, phases)
      BY <1>1, <3>1, <3>3 DEF Fits, OnPhase, OnStrategy
    <3> QED
      BY <3>3, <3>4, <3>5
  <2>2. CASE bound[c.run] = Unbound
    <3>1. "version" \in Pcs /\ Goto(w, "version")
      BY <1>8, <2>2 DEF Pcs, FindPhase, c
    <3>2. PICK d \in CallRecords :
               /\ call' = [call EXCEPT ![w] = d]
               /\ d.pc = "version" /\ Same(d, c) /\ d.strategy = c.strategy
      BY <1>4, <3>1
    <3>3. Fits(d, bound, phases)
      BY <1>1, <3>2 DEF Fits, Same, OnPhase, OnStrategy
    <3> QED
      BY <3>2, <3>3
  <2> QED
    BY <2>1, <2>2
<1>9. CASE ReadProjectVersion(w)
  <2> DEFINE d == [c EXCEPT !.pc = "create", !.ver = project]
  <2>1. "create" \in Pcs
    BY DEF Pcs
  <2>2. d \in CallRecords /\ d.pc = "create" /\ Same(d, c)
    BY <1>0, <2>1 DEF CallRecords, Same
  <2>3. call' = [call EXCEPT ![w] = d]
    BY <1>9 DEF ReadProjectVersion, c
  <2> HIDE DEF d
  <2>4. Fits(d, bound, phases)
    BY <1>1, <2>2 DEF Fits, Same, OnPhase, OnStrategy
  <2> QED
    BY <2>2, <2>3, <2>4
<1>10. CASE EnsureStrategy(w)
  <2>1. PICK pc \in {"draft", "review"} :
          /\ Goto(w, pc) /\ c.pc = "ensure" /\ (pc = "review" => ph # <<>>)
    BY <1>10 DEF EnsureStrategy, c, ph
  <2>2. pc \in Pcs /\ pc \in OnPhase /\ c.pc \in OnPhase
    BY <2>1 DEF Pcs, OnPhase
  <2>3. PICK d \in CallRecords :
               /\ call' = [call EXCEPT ![w] = d]
               /\ d.pc = pc /\ Same(d, c) /\ d.strategy = c.strategy
    BY <1>4, <2>1, <2>2
  <2>4. ph # <<>> => Len(ph) >= 1
    BY <1>5, <2>2
  <2>5. Fits(d, bound, phases)
    BY <1>6, <2>1, <2>2, <2>3, <2>4 DEF Fits, OnStrategy
  <2> QED
    BY <2>3, <2>5
<1>11. CASE Review(w)
  <2>1. PICK pc \in {"packages", "edit", "proposed"} :
          /\ Goto(w, pc) /\ c.pc = "review"
          /\ pc = "proposed" /\ c.run \in Staffed => Latest(c.phase).edited
    BY <1>11 DEF Review, c
  <2>2. pc \in Pcs /\ pc \in OnPhase /\ c.pc \in OnPhase /\ c.pc \in OnStrategy
    BY <2>1 DEF Pcs, OnPhase, OnStrategy
  <2>3. PICK d \in CallRecords :
               /\ call' = [call EXCEPT ![w] = d]
               /\ d.pc = pc /\ Same(d, c) /\ d.strategy = c.strategy
    BY <1>4, <2>1, <2>2
  <2>4. Len(ph) >= 1
    BY <1>0, <2>2 DEF Fits, ph
  <2>5. Latest(c.phase).edited = (Len(ph) > 1)
    BY <1>5, <2>2, <2>4 DEF Latest, ph, KickInv, PhaseInv, PhaseFits
  <2>6. Fits(d, bound, phases)
    BY <1>6, <2>1, <2>2, <2>3, <2>4, <2>5 DEF Fits, Same
  <2> QED
    BY <2>3, <2>6
<1>12. CASE EditStaffingReads(w)
  <2> DEFINE d == [c EXCEPT !.pc = "save", !.strategy = Len(ph)]
  <2>1. "save" \in Pcs /\ "save" \in OnPhase /\ c.pc = "edit" /\ c.pc \in OnPhase /\ c.pc \in OnStrategy
    BY <1>12 DEF Pcs, OnPhase, OnStrategy, EditStaffingReads, c
  <2>2. Len(ph) \in Nat /\ Len(ph) >= 1
    BY <1>0, <1>5, <2>1 DEF Fits, ph
  <2>3. d \in CallRecords /\ d.pc = "save" /\ Same(d, c) /\ d.strategy = Len(ph)
    BY <1>0, <2>1, <2>2 DEF CallRecords, Same
  <2>4. call' = [call EXCEPT ![w] = d]
    BY <1>12 DEF EditStaffingReads, c, ph
  <2> HIDE DEF d
  <2>5. Fits(d, bound, phases)
    BY <1>6, <2>1, <2>2, <2>3 DEF Fits
  <2> QED
    BY <2>3, <2>4, <2>5
<1>13. CASE ApproveReads(w)
  <2> DEFINE d == [c EXCEPT !.pc = "approve", !.ver = phases[c.phase].ver, !.strategy = Len(ph)]
  <2>1. "approve" \in Pcs /\ "approve" \in OnPhase /\ c.pc = "proposed" /\ c.pc \in OnPhase
        /\ c.pc \in OnStrategy
    BY <1>13 DEF Pcs, OnPhase, OnStrategy, ApproveReads, c
  <2>2. /\ Len(ph) \in Nat /\ Len(ph) >= 1 /\ phases[c.phase].ver \in Nat
        /\ c.run \in Staffed => Len(ph) > 1
    BY <1>0, <1>5, <2>1 DEF Fits, ph, PhaseRows
  <2>3. d \in CallRecords /\ d.pc = "approve" /\ Same(d, c) /\ d.strategy = Len(ph)
    BY <1>0, <2>1, <2>2 DEF CallRecords, Same
  <2>4. call' = [call EXCEPT ![w] = d] \/ Report(w, FALSE)
    BY <1>13 DEF ApproveReads, c, ph, Refuse
  <2> HIDE DEF d
  <2>5. Fits(d, bound, phases)
    BY <1>6, <2>1, <2>2, <2>3 DEF Fits, Same
  <2> QED
    BY <1>3, <2>3, <2>4, <2>5
<1>14. CASE BindPackages(w)
  <2>1. c.pc = "packages" /\ c.pc \in OnPhase /\ c.pc \in OnStrategy /\ "start" \in OnPhase
        /\ "start" \in Pcs
    BY <1>14 DEF BindPackages, c, OnPhase, OnStrategy, Pcs
  <2>2. CASE Materialised(c.phase)
    <3>1. Goto(w, "start")
      BY <1>14, <2>2 DEF BindPackages, c
    <3>2. PICK d \in CallRecords :
               /\ call' = [call EXCEPT ![w] = d]
               /\ d.pc = "start" /\ Same(d, c) /\ d.strategy = c.strategy
      BY <1>4, <2>1, <3>1
    <3>3. \E i \in Nat : Approved(phases, c.phase, i)
      BY <1>5, <2>1, <2>2 DEF Materialised, Approved, ph
    <3>4. Len(ph) >= 1
      BY <1>0, <2>1 DEF Fits, ph
    <3>5. Fits(d, bound, phases)
      BY <1>6, <2>1, <3>2, <3>3, <3>4 DEF Fits, Same
    <3> QED
      BY <3>2, <3>5
  <2>3. CASE ~Materialised(c.phase)
    BY <1>3, <1>14, <2>3 DEF BindPackages, c, Refuse
  <2> QED
    BY <2>2, <2>3
<1> QED
  BY <1>7, <1>8, <1>9, <1>10, <1>11, <1>12, <1>13, <1>14

-----------------------------------------------------------------------------
(* One phase changes, and keeps its approvals.                               *)
LEMMA PhaseMoves ==
  ASSUME KickInv, NEW p \in PhaseIds, NEW row \in PhaseRows,
         phases' = [phases EXCEPT ![p] = row], bound' = bound,
         Len(row.strategies) >= Len(phases[p].strategies),
         \A i \in Nat : Approved(phases, p, i) => Approved(phases', p, i),
         PhaseFits(p, bound, phases')
  PROVE  /\ Grows /\ PhaseInv' /\ BoundInv'
         /\ phases' \in [PhaseIds -> PhaseRows] /\ bound' \in [Plans -> PhaseIds \cup {Unbound}]
<1>0. /\ phases \in [PhaseIds -> PhaseRows] /\ bound \in [Plans -> PhaseIds \cup {Unbound}]
      /\ BoundInv /\ PhaseInv
  BY DEF KickInv, Types
<1>1. /\ phases' \in [PhaseIds -> PhaseRows] /\ phases'[p] = row
      /\ \A q \in PhaseIds : q # p => phases'[q] = phases[q]
  BY <1>0
<1>2. \A q \in PhaseIds : /\ Len(phases[q].strategies) \in Nat
                          /\ Len(phases'[q].strategies) \in Nat
  BY <1>0, <1>1 DEF PhaseRows
<1>3. ASSUME NEW q \in PhaseIds, q # p
      PROVE  /\ PhaseFits(q, bound, phases')
             /\ \A i : Approved(phases', q, i) <=> Approved(phases, q, i)
  <2>1. \A i : Approved(phases', q, i) <=> Approved(phases, q, i)
    BY <1>1, <1>3 DEF Approved
  <2>2. phases'[q] = phases[q] /\ PhaseFits(q, bound, phases)
    BY <1>0, <1>1, <1>3 DEF PhaseInv
  <2> QED
    BY <2>1, <2>2 DEF PhaseFits
<1>4. PhaseInv'
  BY <1>3 DEF PhaseInv
<1>5. Grows
  <2>1. ASSUME NEW q \in PhaseIds
        PROVE  /\ Len(phases'[q].strategies) >= Len(phases[q].strategies)
               /\ \A i \in Nat : Approved(phases, q, i) => Approved(phases', q, i)
    <3>1. CASE q = p
      BY <1>1, <3>1
    <3>2. CASE q # p
      <4>1. phases'[q] = phases[q]
        BY <1>1, <3>2
      <4>2. Len(phases'[q].strategies) >= Len(phases[q].strategies)
        BY <1>2, <4>1
      <4>3. \A i \in Nat : Approved(phases, q, i) => Approved(phases', q, i)
        BY <1>3, <3>2
      <4> QED
        BY <4>2, <4>3
    <3> QED
      BY <3>1, <3>2
  <2> QED
    BY <1>2, <2>1 DEF Grows
<1> QED
  BY <1>0, <1>1, <1>4, <1>5 DEF BoundInv

(* A phase whose strategies stay: its status, version and count may change   *)
(* when what they say of the phase is true.                                  *)
LEMMA RowMoves ==
  ASSUME KickInv, NEW p \in PhaseIds, NEW row \in PhaseRows,
         phases' = [phases EXCEPT ![p] = row], bound' = bound,
         row.strategies = phases[p].strategies,
         \/ row.dispatched > 0 \/ row.status \in {"awaiting_approval", "approved", "active"}
         => bound[p[1]] = p,
         row.status = "active" \/ row.dispatched > 0 => \E i \in Nat : Approved(phases, p, i)
  PROVE  /\ Grows /\ PhaseInv' /\ BoundInv'
         /\ phases' \in [PhaseIds -> PhaseRows] /\ bound' \in [Plans -> PhaseIds \cup {Unbound}]
<1>1. phases \in [PhaseIds -> PhaseRows] /\ PhaseFits(p, bound, phases)
  BY DEF KickInv, Types, PhaseInv
<1>2. phases'[p] = row
  BY <1>1
<1>3. \A i : Approved(phases', p, i) <=> Approved(phases, p, i)
  BY <1>2 DEF Approved
<1>4. PhaseFits(p, bound, phases')
  BY <1>1, <1>2, <1>3 DEF PhaseFits
<1>5. Len(row.strategies) >= Len(phases[p].strategies)
  <2>1. Len(phases[p].strategies) \in Nat
    BY <1>1 DEF PhaseRows
  <2> QED
    BY <2>1
<1> QED
  BY <1>3, <1>4, <1>5, PhaseMoves

(* The steps of the work itself: the last task completes, and a slot is      *)
(* offered to another task.                                                  *)
LEMMA PhaseSteps ==
  ASSUME KickInv, NEW p \in PhaseIds, PhaseCloses(p) \/ DrainPhase(p)
  PROVE  KickInv'
<1>0. /\ phases[p] \in PhaseRows /\ PhaseFits(p, bound, phases)
      /\ bound' = bound /\ project' = project /\ intent' = intent /\ call' = call
  BY DEF KickInv, Types, PhaseInv, PhaseCloses, DrainPhase
<1>a. phases[p].ver + 1 \in Nat /\ phases[p].dispatched + 1 \in Nat
  BY <1>0 DEF PhaseRows
<1>1. /\ Grows /\ PhaseInv' /\ BoundInv'
      /\ phases' \in [PhaseIds -> PhaseRows] /\ bound' \in [Plans -> PhaseIds \cup {Unbound}]
  <2>1. CASE PhaseCloses(p)
    <3> DEFINE row == [phases[p] EXCEPT !.status = "completed", !.ver = @ + 1]
    <3>1. /\ row \in PhaseRows /\ row.strategies = phases[p].strategies
          /\ row.dispatched = phases[p].dispatched /\ row.status = "completed"
      BY <1>0, <1>a DEF PhaseRows
    <3>2. phases' = [phases EXCEPT ![p] = row]
      BY <2>1 DEF PhaseCloses
    <3> HIDE DEF row
    <3>3. row.dispatched > 0 => bound[p[1]] = p /\ \E i \in Nat : Approved(phases, p, i)
      BY <1>0, <3>1 DEF PhaseFits
    <3> QED
      BY <1>0, <3>1, <3>2, <3>3, RowMoves
  <2>2. CASE DrainPhase(p)
    <3> DEFINE row == [phases[p] EXCEPT !.dispatched = @ + 1, !.ver = @ + 1]
    <3>1. /\ row \in PhaseRows /\ row.strategies = phases[p].strategies
          /\ row.status = "active" /\ phases[p].status = "active"
      <4>1. phases[p].status = "active"
        BY <2>2 DEF DrainPhase, Active
      <4> QED
        BY <1>0, <1>a, <4>1 DEF PhaseRows
    <3>2. phases' = [phases EXCEPT ![p] = row]
      BY <2>2 DEF DrainPhase
    <3> HIDE DEF row
    <3>3. bound[p[1]] = p /\ \E i \in Nat : Approved(phases, p, i)
      BY <1>0, <3>1 DEF PhaseFits
    <3> QED
      BY <1>0, <3>1, <3>2, <3>3, RowMoves
  <2> QED
    BY <2>1, <2>2
<1>2. CallInv'
  <2>1. \A w \in Callers : call[w] \in CallRecords /\ Fits(call[w], bound, phases)
    BY DEF KickInv, Types, CallInv
  <2>2. \A w \in Callers : Fits(call[w], bound', phases')
    BY <1>1, <2>1, StillFits DEF KickInv
  <2> QED
    BY <1>0, <2>2 DEF CallInv
<1> QED
  BY <1>0, <1>1, <1>2 DEF KickInv, Types

(* The timer and the person: only the intent changes.                        *)
LEMMA IntentSteps ==
  ASSUME KickInv, NEW r \in Plans, startDevelopment(r) \/ reconcileKickoffIntents(r)
  PROVE  KickInv'
<1>1. /\ phases' = phases /\ bound' = bound /\ project' = project /\ call' = call
      /\ intent' \in [Plans -> IntentRows]
  BY DEF startDevelopment, reconcileKickoffIntents, KickInv, Types, IntentRows
<1> QED
  BY <1>1 DEF KickInv, Types, BoundInv, PhaseInv, CallInv

(* Superseding keeps the versions, their approvals and what they edited.     *)
LEMMA Superseding ==
  ASSUME NEW s \in Seq(Versions)
  PROVE  /\ superseded(s) \in Seq(Versions) /\ Len(superseded(s)) = Len(s)
         /\ \A i \in 1 .. Len(s) :
              /\ superseded(s)[i].edited = s[i].edited
              /\ superseded(s)[i].status = "approved" <=> s[i].status = "approved"
<1> DEFINE h == superseded(s)
<1>1. /\ Len(s) \in Nat /\ DOMAIN s = 1 .. Len(s)
      /\ \A i \in 1 .. Len(s) : s[i] \in Versions
  OBVIOUS
<1>2. \A i \in 1 .. Len(s) :
        /\ h[i] \in Versions /\ h[i].edited = s[i].edited
        /\ h[i].status = "approved" <=> s[i].status = "approved"
  BY <1>1 DEF Versions, superseded
<1>3. h = [i \in 1 .. Len(s) |-> h[i]]
  BY <1>1 DEF superseded
<1> HIDE DEF h
<1>4. h \in [1 .. Len(s) -> Versions]
  BY <1>2, <1>3
<1>5. h \in Seq(Versions) /\ Len(h) = Len(s)
  BY <1>1, <1>4
<1> QED
  BY <1>2, <1>5 DEF h

(* A new version comes behind them.                                          *)
LEMMA History ==
  ASSUME NEW s \in Seq(Versions), NEW v \in Versions, v.status = "awaiting_approval"
  PROVE  LET t == Append(superseded(s), v) IN
         /\ t \in Seq(Versions) /\ Len(t) = Len(s) + 1
         /\ DOMAIN t = 1 .. (Len(s) + 1) /\ t[Len(s) + 1] = v
         /\ \A i \in 1 .. Len(s) :
              /\ t[i].edited = s[i].edited
              /\ t[i].status = "approved" <=> s[i].status = "approved"
<1> DEFINE h == superseded(s)
           t == Append(h, v)
<1>1. /\ h \in Seq(Versions) /\ Len(h) = Len(s) /\ Len(s) \in Nat
      /\ \A i \in 1 .. Len(s) :
              /\ h[i].edited = s[i].edited
              /\ h[i].status = "approved" <=> s[i].status = "approved"
  BY Superseding
<1> HIDE DEF h
<1>2. /\ t \in Seq(Versions) /\ Len(t) = Len(s) + 1
      /\ \A i \in 1 .. Len(s) : t[i] = h[i]
      /\ t[Len(s) + 1] = v
  BY <1>1
<1>3. DOMAIN t = 1 .. (Len(s) + 1)
  BY <1>2
<1> HIDE DEF t
<1>4. \A i \in 1 .. Len(s) :
        /\ t[i].edited = s[i].edited
        /\ t[i].status = "approved" <=> s[i].status = "approved"
  BY <1>1, <1>2
<1> QED
  BY <1>2, <1>3, <1>4 DEF t, h

(* saveAwaitingApproval, for the version and the place a caller names.       *)
LEMMA Saved ==
  ASSUME KickInv, NEW w \in Callers, call[w].pc \in OnPhase,
         NEW n \in Nat, n >= 1, NEW edited \in BOOLEAN, edited = (n > 1),
         NEW next \in {"review", "proposed"}, next = "proposed" => n > 1,
         saveAwaitingApproval(w, n, edited, next), bound' = bound
  PROVE  /\ Grows /\ PhaseInv' /\ BoundInv' /\ CallInv'
         /\ phases' \in [PhaseIds -> PhaseRows] /\ bound' \in [Plans -> PhaseIds \cup {Unbound}]
         /\ call' \in [Callers -> CallRecords]
<1> DEFINE c == call[w]
           p == c.phase
           s == phases[p].strategies
           v == [status |-> "awaiting_approval", edited |-> edited, by |-> None]
           row == [phases[p] EXCEPT !.status = "awaiting_approval", !.ver = phases[p].ver + 1,
                                    !.strategies = Append(superseded(s), v)]
<1>0. /\ c \in CallRecords /\ Fits(c, bound, phases) /\ c.pc # "idle"
      /\ Types /\ CallInv
  BY DEF KickInv, Types, CallInv, OnPhase
<1>1. /\ c.run \in Plans /\ c.user \in Users /\ p \in PhaseIds /\ p[1] = c.run
      /\ bound[c.run] = p
  BY <1>0 DEF Fits
<1>2. /\ phases[p] \in PhaseRows /\ PhaseFits(p, bound, phases)
  BY <1>1 DEF KickInv, Types, PhaseInv
<1>3. s \in Seq(Versions) /\ Len(s) \in Nat /\ DOMAIN s = 1 .. Len(s)
      /\ phases[p].ver + 1 \in Nat /\ phases[p].dispatched \in Nat
  <2>1. s \in Seq(Versions) /\ phases[p].ver \in Nat /\ phases[p].dispatched \in Nat
    BY <1>2 DEF PhaseRows
  <2> HIDE DEF s
  <2>2. Len(s) \in Nat /\ DOMAIN s = 1 .. Len(s)
    BY <2>1
  <2> QED
    BY <2>1, <2>2
<1>4. \/ phases' = phases /\ Refuse(w)
      \/ phases' = phases /\ Goto(w, next) /\ n <= Len(s)
      \/ phases' = [phases EXCEPT ![p] = row] /\ Goto(w, next) /\ n = Len(s) + 1
  <2>1. CASE n \in DOMAIN s
    BY <1>3, <2>1 DEF saveAwaitingApproval
  <2>2. CASE n \notin DOMAIN s /\ (phases[p].status = "completed" \/ n # Len(s) + 1)
    BY <2>2 DEF saveAwaitingApproval
  <2>3. CASE n \notin DOMAIN s /\ ~(phases[p].status = "completed" \/ n # Len(s) + 1)
    BY <2>3 DEF saveAwaitingApproval
  <2> QED
    BY <2>1, <2>2, <2>3
<1>5. ASSUME Grows, PhaseInv', BoundInv', phases' \in [PhaseIds -> PhaseRows],
             bound' \in [Plans -> PhaseIds \cup {Unbound}],
             NEW d \in CallRecords, call' = [call EXCEPT ![w] = d], Fits(d, bound', phases')
      PROVE  /\ Grows /\ PhaseInv' /\ BoundInv' /\ CallInv'
             /\ phases' \in [PhaseIds -> PhaseRows]
             /\ bound' \in [Plans -> PhaseIds \cup {Unbound}]
             /\ call' \in [Callers -> CallRecords]
  BY <1>0, <1>5, CallMoves
<1>6. CASE phases' = phases /\ Refuse(w)
  <2>1. PICK d \in CallRecords : /\ call' = [call EXCEPT ![w] = d] /\ d.pc = "report"
                                 /\ d.run \in Plans /\ d.user \in Users
    BY <1>0, <1>6, Reported DEF Refuse
  <2>2. Fits(d, bound', phases')
    BY <2>1, ReportFits
  <2> QED
    BY <1>5, <1>6, <2>1, <2>2, PhasesStand
<1>7. ASSUME Goto(w, next), Len(phases'[p].strategies) \in Nat, n <= Len(phases'[p].strategies)
      PROVE  \E d \in CallRecords : call' = [call EXCEPT ![w] = d] /\ Fits(d, bound', phases')
  <2> DEFINE d == [c EXCEPT !.pc = next]
  <2>1. next \in Pcs
    BY DEF Pcs, OnPhase
  <2>2. d \in CallRecords /\ d.pc = next /\ Same(d, c)
    BY <1>0, <2>1 DEF CallRecords, Same
  <2>3. call' = [call EXCEPT ![w] = d]
    BY <1>7 DEF Goto
  <2> HIDE DEF c, d
  <2>4. d.run \in Plans /\ d.user \in Users /\ d.phase \in PhaseIds /\ d.phase[1] = d.run
        /\ bound'[d.run] = d.phase /\ d.phase = p
    BY <1>1, <2>2 DEF Same
  <2>5. Fits(d, bound', phases')
    BY <1>7, <2>2, <2>4 DEF Fits
  <2> QED
    BY <2>2, <2>3, <2>5
<1>8. CASE phases' = phases /\ Goto(w, next) /\ n <= Len(s)
  <2>1. PICK d \in CallRecords : call' = [call EXCEPT ![w] = d] /\ Fits(d, bound', phases')
    BY <1>3, <1>7, <1>8
  <2> QED
    BY <1>5, <1>8, <2>1, PhasesStand
<1>9. CASE phases' = [phases EXCEPT ![p] = row] /\ Goto(w, next) /\ n = Len(s) + 1
  <2> DEFINE t == Append(superseded(s), v)
  <2>1. v \in Versions /\ v.status = "awaiting_approval" /\ v.edited = edited
    BY DEF Versions
  <2> HIDE DEF v, c, p
  <2>2. /\ t \in Seq(Versions) /\ Len(t) = Len(s) + 1
        /\ DOMAIN t = 1 .. (Len(s) + 1) /\ t[Len(s) + 1] = v
        /\ \A i \in 1 .. Len(s) :
              /\ t[i].edited = s[i].edited
              /\ t[i].status = "approved" <=> s[i].status = "approved"
    <3> HIDE DEF s
    <3> QED
      BY <1>3, <2>1, History
  <2> HIDE DEF t
  <2>3. /\ row \in PhaseRows /\ row.strategies = t /\ row.status = "awaiting_approval"
        /\ row.dispatched = phases[p].dispatched
    BY <1>2, <1>3, <2>2 DEF PhaseRows, t
  <2>4. phases'[p] = row
    BY <1>1, <1>9 DEF KickInv, Types
  <2> HIDE DEF row
  <2>5. \A i \in Nat : Approved(phases', p, i) <=> Approved(phases, p, i)
    <3>1. \A i \in Nat : i \in DOMAIN t <=> (i \in DOMAIN s \/ i = Len(s) + 1)
      BY <1>3, <2>2
    <3>2. t[Len(s) + 1].status # "approved"
      BY <2>1, <2>2
    <3> QED
      BY <1>3, <2>2, <2>3, <2>4, <3>1, <3>2 DEF Approved
  <2>6. \A i \in DOMAIN t : t[i].edited = (i > 1)
    <3>1. \A i \in DOMAIN s : s[i].edited = (i > 1)
      BY <1>2 DEF PhaseFits
    <3>2. t[Len(s) + 1].edited = (Len(s) + 1 > 1)
      BY <1>9, <2>1, <2>2
    <3>3. \A i \in DOMAIN t : i \in 1 .. Len(s) \/ i = Len(s) + 1
      BY <1>3, <2>2
    <3> QED
      BY <1>3, <2>2, <3>1, <3>2, <3>3
  <2>7. PhaseFits(p, bound, phases')
    <3>1. bound[p[1]] = p
      BY <1>1
    <3>2. row.dispatched > 0 => \E i \in Nat : Approved(phases, p, i)
      BY <1>2, <2>3 DEF PhaseFits
    <3>3. /\ \A i, j \in Nat : Approved(phases, p, i) /\ Approved(phases, p, j) => i = j
          /\ \A i \in Nat : Approved(phases, p, i) /\ p[1] \in Staffed => i > 1
      BY <1>2 DEF PhaseFits
    <3> QED
      BY <2>3, <2>4, <2>5, <2>6, <3>1, <3>2, <3>3 DEF PhaseFits
  <2>8. Len(row.strategies) >= Len(s) /\ Len(row.strategies) \in Nat /\ n <= Len(row.strategies)
    BY <1>3, <1>9, <2>2, <2>3
  <2>9. /\ Grows /\ PhaseInv' /\ BoundInv'
        /\ phases' \in [PhaseIds -> PhaseRows] /\ bound' \in [Plans -> PhaseIds \cup {Unbound}]
    BY <1>1, <1>9, <2>3, <2>5, <2>7, <2>8, PhaseMoves
  <2>10. PICK d \in CallRecords : call' = [call EXCEPT ![w] = d] /\ Fits(d, bound', phases')
    BY <1>7, <1>9, <2>4, <2>8
  <2> QED
    BY <1>5, <2>9, <2>10
<1> QED
  BY <1>4, <1>6, <1>8, <1>9

(* A strategy is proposed, or the staffing the person chose put in force.    *)
LEMMA Strategised ==
  ASSUME KickInv, NEW w \in Callers, DraftStrategy(w) \/ EditStaffing(w)
  PROVE  KickInv'
<1>0. /\ bound' = bound /\ project' = project /\ intent' = intent
      /\ Types /\ call[w] \in CallRecords /\ Fits(call[w], bound, phases)
  BY DEF DraftStrategy, EditStaffing, KickInv, Types, CallInv
<1>1. /\ Grows /\ PhaseInv' /\ BoundInv' /\ CallInv'
      /\ phases' \in [PhaseIds -> PhaseRows] /\ bound' \in [Plans -> PhaseIds \cup {Unbound}]
      /\ call' \in [Callers -> CallRecords]
  <2>1. CASE DraftStrategy(w)
    <3>1. call[w].pc \in OnPhase /\ saveAwaitingApproval(w, 1, FALSE, "review")
      BY <2>1 DEF DraftStrategy, OnPhase
    <3>2. 1 \in Nat /\ 1 >= 1 /\ FALSE = (1 > 1)
      OBVIOUS
    <3> QED
      BY <1>0, <3>1, <3>2, Saved
  <2>2. CASE EditStaffing(w)
    <3> DEFINE n == call[w].strategy + 1
    <3>1. call[w].pc = "save" /\ call[w].pc \in OnPhase /\ saveAwaitingApproval(w, n, TRUE, "proposed")
      BY <2>2 DEF EditStaffing, OnPhase
    <3>2. call[w].strategy \in Nat /\ call[w].strategy >= 1
      BY <1>0, <3>1 DEF Fits, CallRecords
    <3>3. n \in Nat /\ n >= 1 /\ n > 1 /\ TRUE = (n > 1)
      BY <3>2
    <3> HIDE DEF n
    <3> QED
      BY <1>0, <3>1, <3>3, Saved
  <2> QED
    BY <2>1, <2>2
<1> QED
  BY <1>0, <1>1 DEF KickInv, Types

(* A phase is created, or an earlier attempt of the same user replayed.      *)
LEMMA Created ==
  ASSUME KickInv, NEW w \in Callers, CreatePhase(w)
  PROVE  KickInv'
<1> DEFINE c == call[w]
           p == <<c.run, c.user>>
           row == [phases[p] EXCEPT !.status = "proposed", !.ver = 1]
<1>0. /\ Types /\ CallInv /\ c \in CallRecords /\ Fits(c, bound, phases) /\ c.pc = "create"
      /\ bound' = bound /\ intent' = intent
  BY DEF KickInv, Types, CallInv, CreatePhase
<1>1. c.run \in Plans /\ c.user \in Users /\ p \in PhaseIds /\ p[1] = c.run
  BY <1>0 DEF Fits, PhaseIds
<1>2. phases[p] \in PhaseRows /\ PhaseFits(p, bound, phases) /\ project \in Nat
  BY <1>1 DEF KickInv, Types, PhaseInv
<1>3. project' \in Nat
  BY <1>2 DEF CreatePhase
<1>4. /\ Grows /\ PhaseInv' /\ BoundInv' /\ phases' \in [PhaseIds -> PhaseRows]
      /\ bound' \in [Plans -> PhaseIds \cup {Unbound}]
  <2>1. CASE phases' = phases
    BY <1>0, <2>1, PhasesStand
  <2>2. CASE phases' = [phases EXCEPT ![p] = row]
    <3>1. /\ row \in PhaseRows /\ row.strategies = phases[p].strategies
          /\ row.dispatched = phases[p].dispatched /\ row.status = "proposed"
      BY <1>2 DEF PhaseRows
    <3> HIDE DEF row, p
    <3>2. row.dispatched > 0 => bound[p[1]] = p /\ \E i \in Nat : Approved(phases, p, i)
      BY <1>2, <3>1 DEF PhaseFits
    <3> QED
      BY <1>0, <1>1, <2>2, <3>1, <3>2, RowMoves
  <2>3. phases' = phases \/ phases' = [phases EXCEPT ![p] = row]
    BY DEF CreatePhase, Refuse
  <2> QED
    BY <2>1, <2>2, <2>3
<1>5. \E d \in CallRecords : call' = [call EXCEPT ![w] = d] /\ Fits(d, bound', phases')
  <2>1. CASE Refuse(w)
    <3>1. PICK d \in CallRecords : /\ call' = [call EXCEPT ![w] = d] /\ d.pc = "report"
                                   /\ d.run \in Plans /\ d.user \in Users
      BY <1>0, <2>1, Reported DEF Refuse
    <3> QED
      BY <3>1, ReportFits
  <2>2. CASE ~Refuse(w)
    <3> DEFINE d == [c EXCEPT !.pc = "bind", !.phase = p]
    <3>1. "bind" \in Pcs
      BY DEF Pcs
    <3>2. call' = [call EXCEPT ![w] = d]
      BY <2>2 DEF CreatePhase
    <3> HIDE DEF p
    <3>3. d \in CallRecords /\ d.pc = "bind" /\ d.run = c.run /\ d.user = c.user /\ d.phase = p
      BY <1>0, <1>1, <3>1 DEF CallRecords
    <3> HIDE DEF d, c
    <3>4. Fits(d, bound', phases')
      BY <1>1, <3>3 DEF Fits, OnPhase, OnStrategy
    <3> QED
      BY <3>2, <3>3, <3>4
  <2> QED
    BY <2>1, <2>2
<1>6. CallInv' /\ call' \in [Callers -> CallRecords]
  BY <1>0, <1>4, <1>5, CallMoves
<1> QED
  BY <1>0, <1>3, <1>4, <1>6 DEF KickInv, Types

(* The first caller that binds decides, and the others follow it.            *)
LEMMA BoundOnce ==
  ASSUME KickInv, NEW w \in Callers, BindPhase(w)
  PROVE  KickInv'
<1> DEFINE c == call[w]
           winner == IF bound[c.run] = Unbound THEN c.phase ELSE bound[c.run]
           d == [c EXCEPT !.pc = "ensure", !.phase = winner]
<1>0. /\ Types /\ CallInv /\ c \in CallRecords /\ Fits(c, bound, phases) /\ c.pc = "bind"
      /\ phases' = phases /\ intent' = intent /\ project' = project
      /\ bound' = [bound EXCEPT ![c.run] = winner]
      /\ call' = [call EXCEPT ![w] = d]
      /\ bound \in [Plans -> PhaseIds \cup {Unbound}] /\ BoundInv
  BY DEF KickInv, Types, CallInv, BindPhase
<1>1. c.run \in Plans /\ c.user \in Users /\ c.phase \in PhaseIds /\ c.phase[1] = c.run
  BY <1>0 DEF Fits
<1>2. winner \in PhaseIds /\ winner[1] = c.run
  BY <1>0, <1>1 DEF BoundInv
<1>3. \A r \in Plans : bound[r] # Unbound => bound'[r] = bound[r]
  BY <1>0, <1>1
<1>4. bound'[c.run] = winner /\ \A r \in Plans : r # c.run => bound'[r] = bound[r]
  BY <1>0, <1>1
<1>5. bound' \in [Plans -> PhaseIds \cup {Unbound}]
  BY <1>0, <1>2
<1>6. d \in CallRecords /\ d.pc = "ensure" /\ d.run = c.run /\ d.user = c.user /\ d.phase = winner
  <2>1. "ensure" \in Pcs
    BY DEF Pcs, OnPhase
  <2> HIDE DEF winner
  <2> QED
    BY <1>0, <1>2, <2>1 DEF CallRecords
<1> HIDE DEF winner, d, c
<1>7. BoundInv'
  BY <1>0, <1>2, <1>4 DEF BoundInv
<1>8. \A p \in PhaseIds : Len(phases[p].strategies) \in Nat
  BY <1>0 DEF Types, PhaseRows
<1>9. Grows
  BY <1>0, <1>3, <1>8 DEF Grows
<1>10. PhaseInv'
  <2>1. ASSUME NEW p \in PhaseIds
        PROVE  PhaseFits(p, bound', phases)
    <3>1. PhaseFits(p, bound, phases) /\ p[1] \in Plans /\ p # Unbound
      BY PhaseBound DEF KickInv, PhaseInv, PhaseIds
    <3>2. bound[p[1]] = p => bound'[p[1]] = p
      BY <1>3, <3>1
    <3> QED
      BY <3>1, <3>2 DEF PhaseFits
  <2> QED
    BY <1>0, <2>1 DEF PhaseInv
<1>11. Fits(d, bound', phases')
  BY <1>1, <1>2, <1>4, <1>6 DEF Fits, OnPhase, OnStrategy
<1>12. CallInv' /\ call' \in [Callers -> CallRecords]
  BY <1>0, <1>6, <1>9, <1>11, CallMoves
<1> QED
  BY <1>0, <1>5, <1>7, <1>10, <1>12 DEF KickInv, Types

(* An approval, of a strategy that waits or of one the same user approved.   *)
LEMMA ApprovedOnce ==
  ASSUME KickInv, NEW w \in Callers, ApproveStrategy(w)
  PROVE  KickInv'
<1> DEFINE c == call[w]
           p == c.phase
           s == phases[p].strategies
           n == c.strategy
           x == [s[n] EXCEPT !.status = "approved", !.by = c.user]
           t == [s EXCEPT ![n] = x]
           row == [phases[p] EXCEPT !.status = "approved", !.ver = phases[p].ver + 1,
                                    !.strategies = t]
<1>0. /\ Types /\ CallInv /\ c \in CallRecords /\ Fits(c, bound, phases) /\ c.pc = "approve"
      /\ bound' = bound /\ intent' = intent /\ project' = project
  BY DEF KickInv, Types, CallInv, ApproveStrategy
<1>1. "approve" \in OnPhase /\ "approve" \in OnStrategy /\ "packages" \in OnPhase
      /\ "packages" \in Pcs
  BY DEF OnPhase, OnStrategy, Pcs
<1>2. /\ c.run \in Plans /\ c.user \in Users /\ p \in PhaseIds /\ p[1] = c.run
      /\ bound[c.run] = p /\ n >= 1 /\ n <= Len(s) /\ n \in Nat /\ Len(s) >= 1
      /\ c.run \in Staffed => n > 1
  BY <1>0, <1>1 DEF Fits, CallRecords
<1>3. /\ phases[p] \in PhaseRows /\ PhaseFits(p, bound, phases)
  BY <1>2 DEF KickInv, Types, PhaseInv
<1>4. s \in Seq(Versions) /\ phases[p].ver + 1 \in Nat /\ phases[p].dispatched \in Nat
  BY <1>3 DEF PhaseRows
<1>5. Len(s) \in Nat /\ DOMAIN s = 1 .. Len(s) /\ n \in DOMAIN s /\ s[n] \in Versions
  <2> HIDE DEF s, n
  <2> QED
    BY <1>2, <1>4
<1>6. \/ phases' = phases /\ Goto(w, "packages")
      \/ phases' = phases /\ Refuse(w)
      \/ phases' = [phases EXCEPT ![p] = row] /\ Goto(w, "packages") /\ ~Materialised(p)
  BY DEF ApproveStrategy
<1>7. ASSUME Grows, Goto(w, "packages")
      PROVE  \E d \in CallRecords : call' = [call EXCEPT ![w] = d] /\ Fits(d, bound', phases')
  <2> DEFINE d == [c EXCEPT !.pc = "packages"]
  <2>1. d \in CallRecords /\ d.pc = "packages" /\ Same(d, c)
    BY <1>0, <1>1 DEF CallRecords, Same
  <2>2. call' = [call EXCEPT ![w] = d]
    BY <1>7 DEF Goto
  <2>3. Len(phases'[p].strategies) >= 1
    BY <1>2, <1>5, <1>7 DEF Grows
  <2> HIDE DEF c, d
  <2>4. d.run \in Plans /\ d.user \in Users /\ d.phase \in PhaseIds /\ d.phase[1] = d.run
        /\ bound'[d.run] = d.phase /\ d.phase = p
    BY <1>0, <1>2, <2>1 DEF Same
  <2>5. Fits(d, bound', phases')
    BY <1>1, <2>1, <2>3, <2>4 DEF Fits
  <2> QED
    BY <2>1, <2>2, <2>5
<1>8. /\ Grows /\ PhaseInv' /\ BoundInv' /\ phases' \in [PhaseIds -> PhaseRows]
      /\ bound' \in [Plans -> PhaseIds \cup {Unbound}]
  <2>1. CASE phases' = phases
    BY <1>0, <2>1, PhasesStand
  <2>2. CASE phases' = [phases EXCEPT ![p] = row] /\ ~Materialised(p)
    <3>1. x \in Versions /\ x.status = "approved" /\ x.edited = s[n].edited
      BY <1>2, <1>5 DEF Versions
    <3> HIDE DEF x, s, n, p, c
    <3>2. /\ t \in Seq(Versions) /\ Len(t) = Len(s) /\ DOMAIN t = DOMAIN s /\ t[n] = x
          /\ \A i \in DOMAIN s : i # n => t[i] = s[i]
      BY <1>4, <1>5, <3>1
    <3> HIDE DEF t
    <3>3. /\ row \in PhaseRows /\ row.strategies = t /\ row.status = "approved"
          /\ row.dispatched = phases[p].dispatched
      BY <1>3, <1>4, <3>2 DEF PhaseRows
    <3>4. phases'[p] = row
      BY <1>2, <2>2 DEF KickInv, Types
    <3> HIDE DEF row
    <3>5. \A i \in Nat : ~Approved(phases, p, i)
      BY <2>2 DEF Materialised, Approved
    <3>6. \A i \in Nat : Approved(phases', p, i) <=> i = n
      <4>1. \A i \in DOMAIN s : s[i].status # "approved"
        BY <2>2 DEF Materialised, s
      <4> QED
        BY <1>2, <1>5, <3>1, <3>2, <3>3, <3>4, <4>1 DEF Approved
    <3>7. \A i \in DOMAIN t : t[i].edited = (i > 1)
      <4>1. \A i \in DOMAIN s : s[i].edited = (i > 1)
        BY <1>3 DEF PhaseFits, s
      <4> QED
        BY <1>5, <3>1, <3>2, <4>1
    <3>8. PhaseFits(p, bound, phases')
      BY <1>2, <3>3, <3>4, <3>6, <3>7 DEF PhaseFits
    <3>9. Len(row.strategies) >= Len(phases[p].strategies)
      BY <1>5, <3>2, <3>3 DEF s
    <3> QED
      BY <1>0, <1>2, <2>2, <3>3, <3>5, <3>8, <3>9, PhaseMoves
  <2> QED
    BY <1>6, <2>1, <2>2
<1>9. \E d \in CallRecords : call' = [call EXCEPT ![w] = d] /\ Fits(d, bound', phases')
  <2>1. CASE Refuse(w)
    <3>1. PICK d \in CallRecords : /\ call' = [call EXCEPT ![w] = d] /\ d.pc = "report"
                                   /\ d.run \in Plans /\ d.user \in Users
      BY <1>0, <2>1, Reported DEF Refuse
    <3> QED
      BY <3>1, ReportFits
  <2>2. CASE Goto(w, "packages")
    BY <1>7, <1>8, <2>2
  <2> QED
    BY <1>6, <2>1, <2>2
<1>10. CallInv' /\ call' \in [Callers -> CallRecords]
  BY <1>0, <1>8, <1>9, CallMoves
<1> QED
  BY <1>0, <1>8, <1>10 DEF KickInv, Types

(* The phase starts: it is bound and has an approved strategy.               *)
LEMMA Started ==
  ASSUME KickInv, Tasks \in Nat, NEW w \in Callers, StartPhase(w)
  PROVE  KickInv'
<1> DEFINE c == call[w]
           p == c.phase
           ph == phases[p]
           Row(n) == [ph EXCEPT !.status = "active", !.ver = ph.ver + n,
                                !.dispatched = ph.dispatched + n]
<1>0. /\ Types /\ CallInv /\ c \in CallRecords /\ Fits(c, bound, phases) /\ c.pc = "start"
      /\ bound' = bound /\ intent' = intent
  BY DEF KickInv, Types, CallInv, StartPhase
<1>1. /\ c.run \in Plans /\ c.user \in Users /\ p \in PhaseIds /\ p[1] = c.run
      /\ bound[c.run] = p /\ \E i \in Nat : Approved(phases, p, i)
  BY <1>0 DEF Fits, OnPhase
<1>2. ph \in PhaseRows /\ ph.ver \in Nat /\ ph.dispatched \in Nat /\ project \in Nat
  BY <1>1 DEF KickInv, Types, PhaseRows
<1>3. project' \in Nat
  <2>1. PICK changed \in 0 .. 1 : project' = project + changed
    BY DEF StartPhase
  <2> QED
    BY <1>2, <2>1
<1>4. \/ phases' = phases
      \/ \E n \in 1 .. (Tasks - ph.dispatched) : phases' = [phases EXCEPT ![p] = Row(n)]
  BY DEF StartPhase
<1>5. /\ Grows /\ PhaseInv' /\ BoundInv' /\ phases' \in [PhaseIds -> PhaseRows]
      /\ bound' \in [Plans -> PhaseIds \cup {Unbound}]
  <2>1. CASE phases' = phases
    BY <1>0, <2>1, PhasesStand
  <2>2. ASSUME NEW n \in 1 .. (Tasks - ph.dispatched), phases' = [phases EXCEPT ![p] = Row(n)]
        PROVE  /\ Grows /\ PhaseInv' /\ BoundInv' /\ phases' \in [PhaseIds -> PhaseRows]
               /\ bound' \in [Plans -> PhaseIds \cup {Unbound}]
    <3> DEFINE row == Row(n)
    <3>1. n \in Nat /\ ph.ver + n \in Nat /\ ph.dispatched + n \in Nat
      BY <1>2
    <3>2. row \in PhaseRows /\ row.strategies = ph.strategies
      BY <1>2, <3>1 DEF PhaseRows
    <3>3. phases' = [phases EXCEPT ![p] = row]
      BY <2>2
    <3> HIDE DEF row
    <3> QED
      BY <1>0, <1>1, <3>2, <3>3, RowMoves
  <2> QED
    BY <1>4, <2>1, <2>2
<1>6. \E b \in BOOLEAN : Report(w, b)
  BY DEF StartPhase, Refuse
<1>7. PICK d \in CallRecords : /\ call' = [call EXCEPT ![w] = d] /\ d.pc = "report"
                               /\ d.run \in Plans /\ d.user \in Users
  BY <1>0, <1>6, Reported
<1>8. Fits(d, bound', phases')
  BY <1>7, ReportFits
<1>9. CallInv' /\ call' \in [Callers -> CallRecords]
  BY <1>0, <1>5, <1>7, <1>8, CallMoves
<1> QED
  BY <1>0, <1>3, <1>5, <1>9 DEF KickInv, Types

(* KickInv holds before any plan is released,                                *)
LEMMA InitInv == ASSUME Init PROVE KickInv
<1>1. Types
  <2>1. NoPhase \in PhaseRows /\ Idle \in CallRecords
    BY DEF NoPhase, PhaseRows, Idle, CallRecords, Pcs
  <2> QED
    BY <2>1 DEF Init, Types, IntentRows
<1>2. BoundInv
  BY DEF Init, BoundInv
<1>3. PhaseInv
  <2>1. ASSUME NEW p \in PhaseIds
        PROVE  PhaseFits(p, bound, phases)
    <3>1. /\ phases[p].strategies = <<>> /\ phases[p].dispatched = 0
          /\ phases[p].status = "absent"
      BY DEF Init, NoPhase
    <3>2. Len(phases[p].strategies) = 0 /\ DOMAIN phases[p].strategies = {}
      BY <3>1
    <3> QED
      BY <3>1, <3>2 DEF PhaseFits, Approved
  <2> QED
    BY <2>1 DEF PhaseInv
<1>4. CallInv
  <2>1. \A w \in Callers : call[w].pc = "idle"
    BY DEF Init, Idle
  <2> QED
    BY <2>1 DEF CallInv, Fits, OnPhase, OnStrategy
<1> QED
  BY <1>1, <1>2, <1>3, <1>4 DEF KickInv

(* and every step keeps it.                                                  *)
LEMMA StepInv ==
  ASSUME Tasks \in Nat, Decider \in Users, KickInv, [Next]_kickoffVars
  PROVE  KickInv'
<1>1. CASE UNCHANGED kickoffVars
  BY <1>1 DEF kickoffVars, KickInv, Types, BoundInv, PhaseInv, CallInv
<1>2. ASSUME NEW w \in Callers, Saga(w)
      PROVE  KickInv'
  BY <1>2, BeginEnd, Reads, Strategised, Created, BoundOnce, ApprovedOnce, Started DEF Saga
<1>3. CASE Next
  BY <1>2, <1>3, BeginEnd, IntentSteps, PhaseSteps DEF Next
<1> QED
  BY <1>1, <1>3

-----------------------------------------------------------------------------
(* KickInv says what is materialised, and under which staffing.              *)
LEMMA Once == ASSUME KickInv PROVE PlanMaterialisedOnce /\ StaffingApplied
<1>1. ASSUME NEW p \in PhaseIds
      PROVE  /\ Materialised(p) \/ phases[p].dispatched > 0 => bound[p[1]] = p
             /\ \A i, j \in DOMAIN phases[p].strategies :
                  /\ phases[p].strategies[i].status = "approved"
                  /\ phases[p].strategies[j].status = "approved"
                  => i = j
             /\ p[1] \in Staffed /\ phases[p].dispatched > 0 =>
                  \E i \in DOMAIN phases[p].strategies :
                    phases[p].strategies[i].status = "approved" /\ phases[p].strategies[i].edited
  <2> DEFINE s == phases[p].strategies
             A == {i \in DOMAIN s : s[i].status = "approved"}
  <2>1. PhaseFits(p, bound, phases) /\ s \in Seq(Versions)
    BY DEF KickInv, Types, PhaseInv, PhaseRows
  <2> HIDE DEF s
  <2>2. DOMAIN s = 1 .. Len(s) /\ Len(s) \in Nat /\ DOMAIN s \subseteq Nat
    BY <2>1
  <2>3. \A i \in Nat : Approved(phases, p, i) <=> i \in A
    BY DEF Approved, s
  <2>4. Materialised(p) \/ phases[p].dispatched > 0 => bound[p[1]] = p
    <3>1. Materialised(p) => Len(s) # 0
      BY <2>2 DEF Materialised, s
    <3> QED
      BY <2>1, <3>1 DEF PhaseFits, s
  <2>5. \A i, j \in A : i = j
    BY <2>1, <2>2, <2>3 DEF PhaseFits
  <2>6. ASSUME p[1] \in Staffed, phases[p].dispatched > 0
        PROVE  \E i \in DOMAIN s : s[i].status = "approved" /\ s[i].edited
    <3>1. PICK i \in Nat : Approved(phases, p, i)
      BY <2>1, <2>6 DEF PhaseFits
    <3>2. i \in DOMAIN s /\ s[i].status = "approved" /\ i > 1
      BY <2>1, <2>6, <3>1 DEF PhaseFits, Approved, s
    <3>3. s[i].edited = (i > 1)
      BY <2>1, <3>2 DEF PhaseFits, s
    <3> QED
      BY <3>2, <3>3
  <2> QED
    BY <2>4, <2>5, <2>6 DEF s
<1> QED
  BY <1>1 DEF PlanMaterialisedOnce, StaffingApplied

(* How an intent moves: released, claimed, given back, settled.              *)
LEMMA IntentMoves ==
  ASSUME KickInv, [Next]_kickoffVars, NEW r \in Plans, intent'[r] # intent[r]
  PROVE  /\ \A q \in Plans : q # r => intent'[q] = intent[q]
         /\ \/ intent[r].status = "held" /\ intent'[r].status = "pending"
            \/ intent[r].status = "pending" /\ intent'[r].status = "leased"
            \/ intent[r].status = "leased"
               /\ intent'[r].status \in {"pending", "succeeded", "refused", "failed"}
<1> DEFINE Goal == /\ \A q \in Plans : q # r => intent'[q] = intent[q]
                   /\ \/ intent[r].status = "held" /\ intent'[r].status = "pending"
                      \/ intent[r].status = "pending" /\ intent'[r].status = "leased"
                      \/ intent[r].status = "leased"
                         /\ intent'[r].status \in {"pending", "succeeded", "refused", "failed"}
<1>0. intent \in [Plans -> IntentRows]
  BY DEF KickInv, Types
<1>1. ASSUME NEW q \in Plans, startDevelopment(q)
      PROVE  Goal
  <2>1. q = r
    BY <1>0, <1>1 DEF startDevelopment
  <2> QED
    BY <1>0, <1>1, <2>1 DEF startDevelopment, IntentRows
<1>2. ASSUME NEW q \in Plans, reconcileKickoffIntents(q)
      PROVE  Goal
  BY <1>0, <1>2 DEF reconcileKickoffIntents
<1>3. ASSUME NEW w \in Callers, NEW q \in Plans, dispatchKickoffIntent(w, q)
      PROVE  Goal
  BY <1>0, <1>3 DEF dispatchKickoffIntent
<1>4. ASSUME NEW w \in Callers, Answer(w)
      PROVE  Goal
  <2>1. call[w].run \in Plans
    BY <1>4 DEF Answer, KickInv, CallInv, Fits
  <2>2. PICK q \in Plans, st \in {"succeeded", "refused", "failed"} :
          /\ intent[q].status = "leased"
          /\ intent' = [intent EXCEPT ![q] = [status |-> st, holder |-> None]]
    BY <1>4, <2>1 DEF Answer, settleKickoffIntent, reconcileConversationExecutionRetry
  <2> QED
    BY <1>0, <2>2
<1>5. ASSUME NEW w \in Callers, Saga(w), ~Answer(w)
      PROVE  intent' = intent
  BY <1>5 DEF Saga, CheckActive, FindPhase, ReadProjectVersion, CreatePhase, BindPhase,
     EnsureStrategy, DraftStrategy, Review, EditStaffingReads, EditStaffing, ApproveReads,
     ApproveStrategy, BindPackages, StartPhase
<1>6. CASE Next
  BY <1>1, <1>2, <1>3, <1>4, <1>5, <1>6 DEF Next, RetryExecution, Crash, PhaseCloses, DrainPhase
<1>7. CASE UNCHANGED kickoffVars
  BY <1>7 DEF kickoffVars
<1> QED
  BY <1>6, <1>7

(* A step of a kickoff is a step of the leased queue of intents, or none.    *)
LEMMA IntentRefines ==
  ASSUME KickInv, KickInv', [Next]_kickoffVars
  PROVE  [Intents!Next]_([r \in Plans |-> IntentState(r)])
<1> DEFINE S == {"absent", "queued", "held", "applied", "dropped"}
           work == [r \in Plans |-> IntentState(r)]
<1>0. intent \in [Plans -> IntentRows] /\ intent' \in [Plans -> IntentRows]
  BY DEF KickInv, Types
<1>1. ASSUME NEW r \in Plans
      PROVE  /\ work[r] = IntentState(r) /\ work'[r] = IntentState(r)' /\ work'[r] \in S
             /\ intent[r].status = "held" => work[r] = "absent"
             /\ intent[r].status = "pending" => work[r] = "queued"
             /\ intent[r].status = "leased" => work[r] = "held"
             /\ intent'[r].status = "pending" => work'[r] = "queued"
             /\ intent'[r].status = "leased" => work'[r] = "held"
             /\ intent'[r].status = "succeeded" => work'[r] = "applied"
             /\ intent'[r].status \in {"refused", "failed"} => work'[r] = "dropped"
             /\ intent'[r] = intent[r] => work'[r] = work[r]
  BY <1>0 DEF IntentState
<1>2. work' \in [Plans -> S]
  BY <1>1
<1> HIDE DEF work
<1>3. ASSUME NEW r \in Plans, work'[r] # work[r]
      PROVE  /\ \A q \in Plans : work'[q] # work[q] => q = r
             /\ \/ work[r] = "absent" /\ work'[r] = "queued"
                \/ work[r] = "queued" /\ work'[r] = "held"
                \/ work[r] = "held" /\ work'[r] \in {"queued", "applied", "dropped"}
  <2>1. intent'[r] # intent[r]
    BY <1>1, <1>3
  <2>2. \A q \in Plans : q # r => intent'[q] = intent[q]
    BY <2>1, IntentMoves
  <2>3. \/ intent[r].status = "held" /\ intent'[r].status = "pending"
        \/ intent[r].status = "pending" /\ intent'[r].status = "leased"
        \/ intent[r].status = "leased"
           /\ intent'[r].status \in {"pending", "succeeded", "refused", "failed"}
    BY <2>1, IntentMoves
  <2> QED
    BY <1>1, <2>2, <2>3
<1>4. Intents!Step
  BY <1>2, <1>3 DEF Intents!Step, Intents!Moved, Intents!May, Intents!WorkStates,
     Intents!Closed, work
<1> QED
  BY <1>4 DEF Intents!Next

-----------------------------------------------------------------------------
(* The phases that execute, and the callers that have looked for one and     *)
(* found none.                                                               *)
Executing == {p \in PhaseIds : Active(p)}
Past == OnPhase \cup {"find", "version", "create", "bind"}
Beyond == {w \in Callers : call[w].pc \in Past}

(* While a phase executes, every caller beyond the check may add one at most.*)
PhasesInv ==
  \/ Executing = {}
  \/ /\ IsFiniteSet(Executing)
     /\ Cardinality(Executing) + Cardinality(Beyond) <= Cardinality(Callers)

(* No step but the start of a phase lets one execute.                        *)
LEMMA Stopped ==
  ASSUME KickInv, NEW p \in PhaseIds, NEW row,
         phases' = phases \/ phases' = [phases EXCEPT ![p] = row],
         row.status # "active" \/ Active(p)
  PROVE  Executing' \subseteq Executing
BY DEF KickInv, Types, Executing, Active

(* A caller that stays where it is, on its side of the check.                *)
LEMMA Stays ==
  ASSUME NEW w \in Callers, \A x \in Callers : x # w => call'[x] = call[x],
         call'[w].pc \in Past => call[w].pc \in Past
  PROVE  Beyond' \subseteq Beyond
BY DEF Beyond

(* Nothing starts to execute and nobody passes the check; or nothing         *)
(* executes; or a caller beyond the check starts one phase.                  *)
Moves ==
  \/ Executing' \subseteq Executing /\ Beyond' \subseteq Beyond
  \/ Executing' = {}
  \/ \E w \in Beyond, p \in PhaseIds :
        Executing' \subseteq Executing \cup {p} /\ Beyond' \subseteq Beyond \ {w}

LEMMA PhasesMove == ASSUME KickInv, [Next]_kickoffVars PROVE Moves
<1>0. /\ call \in [Callers -> CallRecords] /\ phases \in [PhaseIds -> PhaseRows]
      /\ \A w \in Callers : Fits(call[w], bound, phases)
  BY DEF KickInv, Types, CallInv
<1>1. ASSUME phases' = phases
      PROVE  Executing' = Executing
  BY <1>1 DEF Executing, Active
<1>2. ASSUME call' = call
      PROVE  Beyond' = Beyond
  BY <1>2 DEF Beyond
<1>3. CASE \E r \in Plans : startDevelopment(r) \/ reconcileKickoffIntents(r)
  <2>1. phases' = phases /\ call' = call
    BY <1>3 DEF startDevelopment, reconcileKickoffIntents
  <2> QED
    BY <1>1, <1>2, <2>1 DEF Moves
<1>4. ASSUME NEW w \in Callers,
             \/ \E r \in Plans : dispatchKickoffIntent(w, r)
             \/ \E r \in Plans, u \in Users : RetryExecution(w, r, u)
             \/ Crash(w) \/ Answer(w)
      PROVE  Moves
  <2>1. /\ phases' = phases /\ \A x \in Callers : x # w => call'[x] = call[x]
        /\ call'[w].pc \in {"check", "idle"}
    <3>1. Idle \in CallRecords /\ Idle.pc = "idle"
      BY DEF Idle, CallRecords, Pcs
    <3>2. ASSUME NEW r, NEW u, NEW via, Begin(w, r, u, via)
          PROVE  call'[w].pc = "check" /\ \A x \in Callers : x # w => call'[x] = call[x]
      <4> DEFINE d == [Idle EXCEPT !.pc = "check", !.run = r, !.user = u, !.via = via]
      <4>1. d.pc = "check"
        BY <3>1 DEF CallRecords
      <4>2. call' = [call EXCEPT ![w] = d]
        BY <3>2 DEF Begin
      <4> HIDE DEF d
      <4> QED
        BY <1>0, <4>1, <4>2
    <3>3. CASE \/ \E r \in Plans : dispatchKickoffIntent(w, r)
               \/ \E r \in Plans, u \in Users : RetryExecution(w, r, u)
      BY <3>2, <3>3 DEF dispatchKickoffIntent, RetryExecution
    <3>4. CASE Crash(w) \/ Answer(w)
      <4>1. phases' = phases /\ call' = [call EXCEPT ![w] = Idle]
        BY <3>4 DEF Crash, Answer
      <4> QED
        BY <1>0, <3>1, <4>1
    <3> QED
      BY <1>4, <3>3, <3>4
  <2>2. call'[w].pc \notin Past
    BY <2>1 DEF Past, OnPhase
  <2> QED
    BY <1>1, <2>1, <2>2, Stays DEF Moves
<1>5. ASSUME NEW w \in Callers, CheckActive(w)
      PROVE  Moves
  <2>1. phases' = phases
    BY <1>5 DEF CheckActive
  <2>2. CASE Executing = {}
    BY <1>1, <2>1, <2>2 DEF Moves
  <2>3. CASE Executing # {}
    <3>1. \E b \in BOOLEAN : Report(w, b)
      BY <1>5, <2>3 DEF CheckActive, Executing
    <3>2. call'[w].pc = "report" /\ \A x \in Callers : x # w => call'[x] = call[x]
      BY <1>0, <3>1 DEF Report
    <3>3. call'[w].pc \notin Past
      BY <3>2 DEF Past, OnPhase
    <3> QED
      BY <1>1, <2>1, <3>2, <3>3, Stays DEF Moves
  <2> QED
    BY <2>2, <2>3
<1>6. ASSUME NEW w \in Callers,
             \/ FindPhase(w) \/ ReadProjectVersion(w) \/ BindPhase(w) \/ EnsureStrategy(w)
             \/ Review(w) \/ EditStaffingReads(w) \/ ApproveReads(w) \/ BindPackages(w)
      PROVE  Moves
  <2>1. phases' = phases /\ call[w].pc \in Past
    BY <1>6 DEF FindPhase, ReadProjectVersion, BindPhase, EnsureStrategy, Review,
       EditStaffingReads, ApproveReads, BindPackages, Past, OnPhase
  <2>2. \A x \in Callers : x # w => call'[x] = call[x]
    BY <1>0, <1>6 DEF FindPhase, ReadProjectVersion, BindPhase, EnsureStrategy, Review,
       EditStaffingReads, ApproveReads, BindPackages, Goto, Refuse, Report
  <2> QED
    BY <1>1, <2>1, <2>2, Stays DEF Moves
<1>7. ASSUME NEW w \in Callers,
             CreatePhase(w) \/ DraftStrategy(w) \/ EditStaffing(w) \/ ApproveStrategy(w)
      PROVE  Moves
  <2>1. call[w].pc \in Past
    BY <1>7 DEF CreatePhase, DraftStrategy, EditStaffing, ApproveStrategy, Past, OnPhase
  <2>2. \A x \in Callers : x # w => call'[x] = call[x]
    BY <1>0, <1>7 DEF CreatePhase, DraftStrategy, EditStaffing, ApproveStrategy,
       saveAwaitingApproval, Goto, Refuse, Report
  <2>3. Executing' \subseteq Executing
    <3>1. CASE CreatePhase(w)
      <4> DEFINE p == <<call[w].run, call[w].user>>
      <4>1. p \in PhaseIds
        BY <1>0, <3>1 DEF CreatePhase, Fits, PhaseIds
      <4>2. \/ phases' = phases
            \/ phases' = [phases EXCEPT ![p] = [phases[p] EXCEPT !.status = "proposed", !.ver = 1]]
        BY <3>1 DEF CreatePhase
      <4>3. [phases[p] EXCEPT !.status = "proposed", !.ver = 1].status # "active"
        BY <1>0, <4>1 DEF PhaseRows
      <4> QED
        BY <4>1, <4>2, <4>3, Stopped
    <3>2. CASE DraftStrategy(w) \/ EditStaffing(w) \/ ApproveStrategy(w)
      <4> DEFINE p == call[w].phase
      <4>1. p \in PhaseIds /\ phases[p] \in PhaseRows
        BY <1>0, <3>2 DEF DraftStrategy, EditStaffing, ApproveStrategy, Fits, OnPhase
      <4>2. /\ \A q \in PhaseIds : q # p => phases'[q] = phases[q]
            /\ phases'[p] = phases[p] \/ phases'[p].status # "active"
        <5>1. CASE DraftStrategy(w) \/ EditStaffing(w)
          <6> DEFINE Version(e) ==
                       [phases[p] EXCEPT !.status = "awaiting_approval", !.ver = phases[p].ver + 1,
                          !.strategies = Append(superseded(phases[p].strategies),
                            [status |-> "awaiting_approval", edited |-> e, by |-> None])]
          <6>1. phases' = phases \/ \E e \in BOOLEAN : phases' = [phases EXCEPT ![p] = Version(e)]
            BY <5>1 DEF DraftStrategy, EditStaffing, saveAwaitingApproval
          <6>2. \A e \in BOOLEAN : Version(e).status = "awaiting_approval"
            BY <4>1 DEF PhaseRows
          <6> HIDE DEF Version
          <6> QED
            BY <1>0, <4>1, <6>1, <6>2
        <5>2. CASE ApproveStrategy(w)
          <6> DEFINE s == phases[p].strategies[call[w].strategy]
                     Approval ==
                       [phases[p] EXCEPT !.status = "approved", !.ver = phases[p].ver + 1,
                          !.strategies[call[w].strategy] =
                             [s EXCEPT !.status = "approved", !.by = call[w].user]]
          <6>1. phases' = phases \/ phases' = [phases EXCEPT ![p] = Approval]
            BY <5>2 DEF ApproveStrategy
          <6>2. Approval.status = "approved"
            BY <4>1 DEF PhaseRows
          <6> HIDE DEF Approval
          <6> QED
            BY <1>0, <4>1, <6>1, <6>2
        <5> QED
          BY <3>2, <5>1, <5>2
      <4> QED
        BY <4>2 DEF Executing, Active
    <3> QED
      BY <1>7, <3>1, <3>2
  <2> QED
    BY <2>1, <2>2, <2>3, Stays DEF Moves
<1>8. ASSUME NEW w \in Callers, StartPhase(w)
      PROVE  Moves
  <2> DEFINE p == call[w].phase
  <2>1. w \in Beyond /\ p \in PhaseIds
    BY <1>0, <1>8 DEF StartPhase, Beyond, Past, Fits, OnPhase
  <2>2. \E b \in BOOLEAN : Report(w, b)
    BY <1>8 DEF StartPhase, Refuse
  <2>3. call'[w].pc = "report" /\ \A x \in Callers : x # w => call'[x] = call[x]
    BY <1>0, <2>2 DEF Report
  <2>4. Beyond' \subseteq Beyond \ {w}
    BY <2>3 DEF Beyond, Past, OnPhase
  <2>5. \A q \in PhaseIds : q # p => phases'[q] = phases[q]
    BY <1>0, <1>8 DEF StartPhase
  <2>6. Executing' \subseteq Executing \cup {p}
    BY <2>5 DEF Executing, Active
  <2> QED
    BY <2>1, <2>4, <2>6 DEF Moves
<1>9. ASSUME NEW p \in PhaseIds, PhaseCloses(p) \/ DrainPhase(p)
      PROVE  Moves
  <2>1. call' = call /\ \A q \in PhaseIds : q # p => phases'[q] = phases[q]
    BY <1>0, <1>9 DEF PhaseCloses, DrainPhase
  <2>2. phases'[p].status = "active" => phases[p].status = "active"
    BY <1>0, <1>9 DEF PhaseCloses, DrainPhase, PhaseRows
  <2>3. Executing' \subseteq Executing
    BY <2>1, <2>2 DEF Executing, Active
  <2> QED
    BY <1>2, <2>1, <2>3 DEF Moves
<1>10. CASE Next
  BY <1>3, <1>4, <1>5, <1>6, <1>7, <1>8, <1>9, <1>10 DEF Next, Saga
<1>11. CASE UNCHANGED kickoffVars
  BY <1>1, <1>2, <1>11 DEF kickoffVars, Moves
<1> QED
  BY <1>10, <1>11

(* Such a step keeps the phases within the callers.                          *)
LEMMA PhasesStay ==
  ASSUME IsFiniteSet(Callers), KickInv, PhasesInv, [Next]_kickoffVars
  PROVE  PhasesInv'
<1> DEFINE E == Executing
           B == Beyond
<1>1. Moves
  BY PhasesMove
<1>2. /\ B \subseteq Callers /\ B' \subseteq Callers
      /\ IsFiniteSet(B) /\ IsFiniteSet(B')
      /\ Cardinality(B) \in Nat /\ Cardinality(B') \in Nat /\ Cardinality(Callers) \in Nat
      /\ Cardinality(B) <= Cardinality(Callers)
  <2>1. B \subseteq Callers /\ B' \subseteq Callers
    BY DEF Beyond
  <2> QED
    BY <2>1, FS_Subset, FS_CardinalityType
<1>3. IsFiniteSet(E) /\ Cardinality(E) \in Nat
  BY FS_EmptySet, FS_CardinalityType DEF PhasesInv
<1>4. E = {} \/ Cardinality(E) + Cardinality(B) <= Cardinality(Callers)
  BY DEF PhasesInv
<1>5. SUFFICES \/ E' = {}
               \/ IsFiniteSet(E') /\ Cardinality(E') + Cardinality(B') <= Cardinality(Callers)
  BY DEF PhasesInv
<1> HIDE DEF E, B
<1>6. CASE E' \subseteq E /\ B' \subseteq B
  <2>1. /\ IsFiniteSet(E') /\ Cardinality(E') \in Nat
        /\ Cardinality(E') <= Cardinality(E) /\ Cardinality(B') <= Cardinality(B)
    BY <1>2, <1>3, <1>6, FS_Subset, FS_CardinalityType
  <2> QED
    BY ONLY <1>2, <1>3, <1>4, <1>6, <2>1
<1>7. ASSUME NEW w \in B, NEW p \in PhaseIds, E' \subseteq E \cup {p}, B' \subseteq B \ {w}
      PROVE  IsFiniteSet(E') /\ Cardinality(E') + Cardinality(B') <= Cardinality(Callers)
  <2>1. /\ IsFiniteSet(E \cup {p}) /\ Cardinality(E \cup {p}) \in Nat
        /\ Cardinality(E \cup {p}) <= Cardinality(E) + 1
    <3>1. /\ IsFiniteSet(E \cup {p})
          /\ Cardinality(E \cup {p}) = IF p \in E THEN Cardinality(E) ELSE Cardinality(E) + 1
      BY ONLY <1>3, FS_AddElement
    <3>2. Cardinality(E \cup {p}) \in Nat
      BY ONLY <3>1, FS_CardinalityType
    <3> QED
      BY ONLY <1>3, <3>1, <3>2
  <2>2. /\ IsFiniteSet(E') /\ Cardinality(E') \in Nat
        /\ Cardinality(E') <= Cardinality(E \cup {p})
    BY <1>7, <2>1, FS_Subset, FS_CardinalityType
  <2>3. /\ IsFiniteSet(B \ {w}) /\ Cardinality(B \ {w}) = Cardinality(B) - 1
    BY <1>2, <1>7, FS_RemoveElement
  <2>4. Cardinality(B') <= Cardinality(B) - 1
    <3>1. Cardinality(B') <= Cardinality(B \ {w})
      BY <1>7, <2>3, FS_Subset
    <3> QED
      BY <2>3, <3>1
  <2>5. E = {} => Cardinality(E) = 0
    BY FS_EmptySet
  <2> QED
    BY ONLY <1>2, <1>3, <1>4, <2>1, <2>2, <2>4, <2>5
<1> QED
  BY <1>1, <1>6, <1>7 DEF Moves, E, B

(* ... and that is what is claimed of them: a caller that is neither idle, at *)
(* the check nor reporting is beyond the check.                               *)
LEMMA PhasesWithin ==
  ASSUME IsFiniteSet(Callers), KickInv, PhasesInv
  PROVE  ExecutingPhasesBounded
<1>1. {w \in Callers : call[w].pc \notin {"idle", "check", "report"}} = Beyond
  <2>1. \A w \in Callers : call[w].pc \in Pcs
    BY DEF KickInv, Types, CallRecords
  <2> QED
    BY <2>1 DEF Beyond, Past, Pcs, OnPhase
<1> QED
  BY <1>1 DEF PhasesInv, ExecutingPhasesBounded, Executing

-----------------------------------------------------------------------------
(* KickInv is an invariant of the kickoffs of a project.                     *)
THEOREM KickoffInvariant ==
  ASSUME Tasks \in Nat, Decider \in Users
  PROVE  Spec => []KickInv
BY InitInv, StepInv, PTL DEF Spec

(* However often and by whomever a plan is kicked off (executionKickoff.ts), *)
(* its tasks are created in the one phase bound to it, under one approved    *)
(* strategy.                                                                 *)
THEOREM MaterialisedOnce ==
  ASSUME Tasks \in Nat, Decider \in Users
  PROVE  Spec => []PlanMaterialisedOnce
BY KickoffInvariant, Once, PTL

(* A person's staffing override is in force for every task that is           *)
(* dispatched, also when a retry or a second caller goes on with a kickoff.  *)
THEOREM OverrideApplied ==
  ASSUME Tasks \in Nat, Decider \in Users
  PROVE  Spec => []StaffingApplied
BY KickoffInvariant, Once, PTL

(* However kickoffs of a project overlap, are cut off and tried again        *)
(* (executionKickoff.ts getActivePhase): once a phase executes, the phases   *)
(* that do and the callers that are past the check and may start one more    *)
(* are together no more than the callers.                                    *)
THEOREM PhasesBounded ==
  ASSUME IsFiniteSet(Callers), Tasks \in Nat, Decider \in Users
  PROVE  Spec => []ExecutingPhasesBounded
<1>1. Init => PhasesInv
  BY DEF Init, PhasesInv, Executing, Active, NoPhase
<1> QED
  BY <1>1, KickoffInvariant, PhasesStay, PhasesWithin, PTL DEF Spec

(* The kickoff intents (planWorkflow.ts) implement LeasedWork: an intent is  *)
(* released once, held by one caller at a time and settled once, by a caller *)
(* that still holds it.                                                      *)
THEOREM IntentsLeased ==
  ASSUME Tasks \in Nat, Decider \in Users
  PROVE  Spec => IntentsAreLeasedWork
<1>1. Init => Intents!Init
  <2>1. ASSUME Init
        PROVE  \A r \in Plans : IntentState(r) = "absent"
    BY <2>1 DEF Init, IntentState
  <2> QED
    BY <2>1 DEF Intents!Init
<1> QED
  BY <1>1, KickoffInvariant, IntentRefines, PTL DEF Spec, IntentsAreLeasedWork, Intents!Spec
=============================================================================
