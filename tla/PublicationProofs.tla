------------------------- MODULE PublicationProofs -------------------------
(***************************************************************************)
(* TLAPS proofs about Publication, for every number of attempts and faults. *)
(***************************************************************************)
EXTENDS Publication, TLAPS

Permits == {"push permit", "force permit", "base permit"}
Writing == {"push", "force", "base"}
Places == {"idle", "working", "tip", "published", "integrated", "reported", "over"}
          \cup Permits \cup Writing

(* The type of each variable.                                                *)
Types ==
  /\ run \in [Attempts -> {"none", "live", "succeeded", "stopped"}]
  /\ stop \in [Attempts -> {"none", "open", "fenced", "reauthorized"}]
  /\ published \subseteq Attempts /\ permit \subseteq Attempts /\ green \subseteq Attempts
  /\ head \in Commits /\ base \in Commits
  /\ at \in [Attempts -> Places]
  /\ seen \in [Attempts -> Attempts \cup {Absent}]
  /\ event \in [Attempts -> {"none", "published", "integrated"}]
  /\ tree \in [Commits -> SUBSET Commits]
  /\ branch \in Attempts \cup {Absent}
  /\ guarded \in BOOLEAN
  /\ overdue \in [Attempts -> Nat]

(* A permit belongs to a guarded publisher that waits for one; nothing moves *)
(* before its attempt is scheduled; an event is left behind by a publisher   *)
(* that is done; a recorded publication has no event any more.               *)
PlaceInv ==
  \A a \in Attempts :
    /\ a \in permit => guarded /\ at[a] \in Permits
    /\ run[a] = "none" => at[a] = "idle" /\ overdue[a] = 0
    /\ event[a] # "none" => at[a] = "reported"
    /\ a \in published => at[a] = "reported" /\ event[a] = "none"

(* An attempt is scheduled when those before it have ended.                  *)
OrderInv ==
  \A a, b \in Attempts : a < b /\ run[b] # "none" => run[a] \in {"succeeded", "stopped"}

(* A publisher that lost its authority is past its last permit, or has       *)
(* written nothing since.                                                    *)
WriteInv ==
  guarded => \A a \in Attempts :
    /\ authorizedPublicationScope(a) => overdue[a] = 0
    /\ overdue[a] <= 1
    /\ overdue[a] = 1 => at[a] \notin Writing

(* What is on the branch, or was read from it, is of a scheduled attempt; a  *)
(* forced push expects the work of no later one.                             *)
BranchInv ==
  /\ branch \in Attempts => run[branch] # "none"
  /\ \A a \in Attempts :
       /\ seen[a] \in Attempts => run[seen[a]] # "none"
       /\ guarded /\ at[a] = "force" /\ seen[a] \in Attempts => seen[a] <= a

(* Commits are built on recorded publications, none of them later.           *)
TreeInv ==
  /\ \A d \in Commits : d \in tree[d] /\ \A c \in tree[d] : c <= d
  /\ \A d \in Commits : \A c \in tree[d] : c # d /\ c # 0 => c \in published
  /\ \A d \in Commits : \A c \in tree[d] : tree[c] \subseteq tree[d]

(* The base is built on the head, and an integration that is not recorded    *)
(* yet is the base: nothing can be built on it.                              *)
HeadInv ==
  /\ head # 0 => head \in published
  /\ base # 0 => run[base] # "none"
  /\ head \in tree[base]
  /\ \A a \in Attempts : at[a] = "integrated" \/ event[a] = "integrated" => base = a

PubInv == Types /\ PlaceInv /\ OrderInv /\ WriteInv /\ BranchInv /\ TreeInv /\ HeadInv

-----------------------------------------------------------------------------
(* Attempts and commits are numbers, and no attempt is the missing branch.   *)
LEMMA Numbers ==
  ASSUME MaxAttempts \in Nat
  PROVE  /\ Attempts \subseteq Nat /\ Commits \subseteq Nat
         /\ Attempts = Commits \ {0} /\ 0 \in Commits
         /\ Absent \notin Attempts
         /\ \A a \in Attempts : a > 1 => a - 1 \in Attempts
BY DEF Attempts, Commits, Absent

(* Where a publisher goes from each place.                                   *)
Moves ==
  ({"idle"} \X {"working"})
  \cup ({"working"} \X {"push permit"})
  \cup {<<"push permit", "push">>, <<"force permit", "force">>, <<"base permit", "base">>}
  \cup ({"push"} \X {"base permit", "published", "tip"})
  \cup ({"tip"} \X {"base permit", "published", "force permit"})
  \cup ({"force"} \X {"base permit", "published"})
  \cup ({"base"} \X {"integrated", "published"})
  \cup ({"published", "integrated"} \X {"reported"})
  \cup ((Permits \cup {"push", "tip", "force"}) \X {"push permit"})
  \cup ((Places \ {"idle", "reported", "over"}) \X {"over"})

(* A publication that throws ends, or starts over for an open stop.          *)
LEMMA FailsMoves ==
  ASSUME NEW a \in Attempts, Fails(a)
  PROVE  \E p \in {"over", "push permit"} : Go(a, p)
BY DEF Fails

(* The step that is taken, by name.                                          *)
Steps(a) ==
  \/ schedule(a) \/ runEnds(a) \/ requestStop(a) \/ reauthorizePublication(a)
  \/ issue(a) \/ consume(a) \/ unguarded(a) \/ permitRefused(a) \/ applyPublished(a)
  \/ committed(a) \/ fenceArrives(a) \/ push(a) \/ remoteTip(a) \/ force(a)
  \/ integrateIntoBase(a) \/ report(a) \/ runnerDies(a)

(* A step moves one publisher along these edges, and says so in its place.   *)
LEMMA PlaceSteps ==
  ASSUME MaxAttempts \in Nat, Types, PlaceInv, NEW a \in Attempts, Steps(a)
  PROVE  at' = at \/ \E p \in Places : Go(a, p) /\ <<at[a], p>> \in Moves
<1> USE DEF Places, Permits, Writing, Moves
<1>2. at[a] \in Places
  BY DEF Types
<1>3. CASE runEnds(a) \/ requestStop(a) \/ reauthorizePublication(a) \/ issue(a)
           \/ applyPublished(a)
  BY <1>3 DEF runEnds, requestStop, reauthorizePublication, issue, applyPublished, runnerVars
<1>4. CASE schedule(a)
  BY <1>4 DEF schedule, PlaceInv
<1>5. CASE consume(a) \/ unguarded(a)
  <2>1. at[a] \in Permits /\ Go(a, Guards[at[a]])
    BY <1>5 DEF consume, unguarded, PlaceInv, Guards
  <2>2. Guards[at[a]] \in Places /\ <<at[a], Guards[at[a]]>> \in Moves
    BY <2>1 DEF Guards
  <2> QED
    BY <2>1, <2>2
<1>6. CASE permitRefused(a)
  <2>1. at[a] \in Permits
    BY <1>6 DEF permitRefused, Guards
  <2>2. PICK p \in {"over", "push permit"} : Go(a, p)
    BY <1>6, FailsMoves DEF permitRefused
  <2>3. <<at[a], p>> \in Moves /\ p \in Places
    BY <2>1
  <2> QED
    BY <2>2, <2>3
<1>7. CASE committed(a)
  BY <1>7 DEF committed
<1>8. CASE fenceArrives(a)
  <2>1. at[a] \notin {"idle", "reported", "over"} /\ Go(a, "over")
    BY <1>8 DEF fenceArrives, Publishing
  <2>2. <<at[a], "over">> \in Moves
    BY <1>2, <2>1
  <2> QED
    BY <2>1, <2>2
<1>9. CASE push(a)
  BY <1>9 DEF push, OnceOnBranch
<1>10. CASE remoteTip(a)
  BY <1>10 DEF remoteTip, OnceOnBranch
<1>11. CASE force(a)
  <2>1. at[a] = "force"
    BY <1>11 DEF force
  <2>2. \E p \in {"over", "push permit", "base permit", "published"} : Go(a, p)
    BY <1>11, FailsMoves DEF force, OnceOnBranch
  <2>3. PICK p \in {"over", "push permit", "base permit", "published"} : Go(a, p)
    BY <2>2
  <2>4. <<at[a], p>> \in Moves /\ p \in Places
    BY <2>1, <2>3
  <2> QED
    BY <2>3, <2>4
<1>12. CASE integrateIntoBase(a)
  BY <1>12 DEF integrateIntoBase
<1>13. CASE report(a)
  BY <1>13 DEF report
<1>14. CASE runnerDies(a)
  <2>1. Go(a, "over") \/ (at[a] \in {"push", "tip", "force"} /\ Fails(a))
    BY <1>14 DEF runnerDies
  <2>2. Publishing(a)
    BY <1>14 DEF runnerDies
  <2>3. \E p \in {"over", "push permit"} :
          Go(a, p) /\ (p = "push permit" => at[a] \in {"push", "tip", "force"})
    BY <2>1, FailsMoves
  <2>4. PICK p \in {"over", "push permit"} :
          Go(a, p) /\ (p = "push permit" => at[a] \in {"push", "tip", "force"})
    BY <2>3
  <2>5. <<at[a], p>> \in Moves
    BY <1>2, <2>2, <2>4 DEF Publishing
  <2> QED
    BY <2>4, <2>5
<1> QED
  BY <1>3, <1>4, <1>5, <1>6, <1>7, <1>8, <1>9, <1>10, <1>11, <1>12, <1>13, <1>14
  DEF Steps

(* The revision a schedule starts from is a commit.                          *)
LEMMA RevisionTyped ==
  ASSUME MaxAttempts \in Nat, Types, NEW a \in Attempts
  PROVE  expectedRevision(a) \in Commits
BY Numbers DEF expectedRevision, Types

(* Every step keeps the type of what the server stores.                      *)
LEMMA ServerTyped ==
  ASSUME MaxAttempts \in Nat, Types, NEW a \in Attempts, Steps(a)
  PROVE  /\ run' \in [Attempts -> {"none", "live", "succeeded", "stopped"}]
         /\ stop' \in [Attempts -> {"none", "open", "fenced", "reauthorized"}]
         /\ published' \subseteq Attempts /\ permit' \subseteq Attempts
         /\ head' \in Commits
         /\ guarded' = guarded
<1>0. /\ run \in [Attempts -> {"none", "live", "succeeded", "stopped"}]
      /\ stop \in [Attempts -> {"none", "open", "fenced", "reauthorized"}]
      /\ published \subseteq Attempts /\ permit \subseteq Attempts
      /\ head \in Commits
  BY DEF Types
<1> USE DEF serverVars, runnerVars, remoteVars
<1>1. CASE schedule(a)
  BY <1>0, <1>1, Numbers DEF schedule
<1>2. CASE runEnds(a)
  BY <1>0, <1>2, Numbers DEF runEnds
<1>3. CASE requestStop(a)
  BY <1>0, <1>3, Numbers DEF requestStop
<1>4. CASE reauthorizePublication(a)
  BY <1>0, <1>4, Numbers DEF reauthorizePublication
<1>5. CASE issue(a)
  BY <1>0, <1>5, Numbers DEF issue
<1>6. CASE consume(a)
  BY <1>0, <1>6, Numbers DEF consume
<1>7. CASE unguarded(a)
  BY <1>0, <1>7, Numbers DEF unguarded
<1>8. CASE permitRefused(a)
  BY <1>0, <1>8, Numbers DEF permitRefused
<1>9. CASE applyPublished(a)
  BY <1>0, <1>9, Numbers DEF applyPublished
<1>10. CASE committed(a)
  BY <1>0, <1>10, Numbers DEF committed
<1>11. CASE fenceArrives(a)
  BY <1>0, <1>11, Numbers DEF fenceArrives
<1>12. CASE push(a)
  BY <1>0, <1>12, Numbers DEF push
<1>13. CASE remoteTip(a)
  BY <1>0, <1>13, Numbers DEF remoteTip
<1>14. CASE force(a)
  BY <1>0, <1>14, Numbers DEF force
<1>15. CASE integrateIntoBase(a)
  BY <1>0, <1>15, Numbers DEF integrateIntoBase
<1>16. CASE report(a)
  BY <1>0, <1>16, Numbers DEF report
<1>17. CASE runnerDies(a)
  BY <1>0, <1>17, Numbers DEF runnerDies
<1> QED
  BY <1>1, <1>2, <1>3, <1>4, <1>5, <1>6, <1>7, <1>8, <1>9, <1>10, <1>11, <1>12, <1>13, <1>14, <1>15, <1>16, <1>17 DEF Steps

(* ... of where the publishers are and what they left behind,                *)
LEMMA RunnerTyped ==
  ASSUME MaxAttempts \in Nat, Types, NEW a \in Attempts, Steps(a)
  PROVE  /\ green' \subseteq Attempts
         /\ seen' \in [Attempts -> Attempts \cup {Absent}]
         /\ event' \in [Attempts -> {"none", "published", "integrated"}]
<1>0. /\ green \subseteq Attempts
      /\ seen \in [Attempts -> Attempts \cup {Absent}]
      /\ event \in [Attempts -> {"none", "published", "integrated"}]
      /\ branch \in Attempts \cup {Absent}
  BY DEF Types
<1> USE DEF serverVars, runnerVars, remoteVars
<1>1. CASE schedule(a)
  BY <1>0, <1>1 DEF schedule
<1>2. CASE runEnds(a)
  BY <1>0, <1>2 DEF runEnds
<1>3. CASE requestStop(a)
  BY <1>0, <1>3 DEF requestStop
<1>4. CASE reauthorizePublication(a)
  BY <1>0, <1>4 DEF reauthorizePublication
<1>5. CASE issue(a)
  BY <1>0, <1>5 DEF issue
<1>6. CASE consume(a)
  BY <1>0, <1>6 DEF consume
<1>7. CASE unguarded(a)
  BY <1>0, <1>7 DEF unguarded
<1>8. CASE permitRefused(a)
  BY <1>0, <1>8 DEF permitRefused, Fails
<1>9. CASE applyPublished(a)
  BY <1>0, <1>9 DEF applyPublished
<1>10. CASE committed(a)
  BY <1>0, <1>10 DEF committed
<1>11. CASE fenceArrives(a)
  BY <1>0, <1>11 DEF fenceArrives
<1>12. CASE push(a)
  BY <1>0, <1>12 DEF push
<1>13. CASE remoteTip(a)
  BY <1>0, <1>13 DEF remoteTip
<1>14. CASE force(a)
  BY <1>0, <1>14 DEF force, Fails
<1>15. CASE integrateIntoBase(a)
  BY <1>0, <1>15 DEF integrateIntoBase
<1>16. CASE report(a)
  BY <1>0, <1>16 DEF report
<1>17. CASE runnerDies(a)
  BY <1>0, <1>17 DEF runnerDies, Fails
<1> QED
  BY <1>1, <1>2, <1>3, <1>4, <1>5, <1>6, <1>7, <1>8, <1>9, <1>10, <1>11, <1>12, <1>13, <1>14, <1>15, <1>16, <1>17 DEF Steps

(* ... and of the repository.                                                *)
LEMMA RemoteTyped ==
  ASSUME MaxAttempts \in Nat, Types, NEW a \in Attempts, Steps(a)
  PROVE  /\ tree' \in [Commits -> SUBSET Commits]
         /\ branch' \in Attempts \cup {Absent}
         /\ base' \in Commits
         /\ overdue' \in [Attempts -> Nat]
<1>0. /\ tree \in [Commits -> SUBSET Commits]
      /\ branch \in Attempts \cup {Absent}
      /\ base \in Commits
      /\ overdue \in [Attempts -> Nat]
      /\ a \in Commits /\ Attempts \subseteq Commits
      /\ expectedRevision(a) \in Commits
  BY Numbers, RevisionTyped DEF Types
<1> USE DEF serverVars, runnerVars, remoteVars
<1>1. CASE schedule(a)
  BY <1>0, <1>1 DEF schedule
<1>2. CASE runEnds(a)
  BY <1>0, <1>2 DEF runEnds
<1>3. CASE requestStop(a)
  BY <1>0, <1>3 DEF requestStop
<1>4. CASE reauthorizePublication(a)
  BY <1>0, <1>4 DEF reauthorizePublication
<1>5. CASE issue(a)
  BY <1>0, <1>5 DEF issue
<1>6. CASE consume(a)
  BY <1>0, <1>6 DEF consume
<1>7. CASE unguarded(a)
  BY <1>0, <1>7 DEF unguarded
<1>8. CASE permitRefused(a)
  BY <1>0, <1>8 DEF permitRefused
<1>9. CASE applyPublished(a)
  BY <1>0, <1>9 DEF applyPublished
<1>10. CASE committed(a)
  BY <1>0, <1>10 DEF committed
<1>11. CASE fenceArrives(a)
  BY <1>0, <1>11 DEF fenceArrives
<1>12. CASE push(a)
  BY <1>0, <1>12 DEF push, Writes
<1>13. CASE remoteTip(a)
  BY <1>0, <1>13 DEF remoteTip
<1>14. CASE force(a)
  BY <1>0, <1>14 DEF force, Writes
<1>15. CASE integrateIntoBase(a)
  BY <1>0, <1>15 DEF integrateIntoBase, Writes
<1>16. CASE report(a)
  BY <1>0, <1>16 DEF report
<1>17. CASE runnerDies(a)
  BY <1>0, <1>17 DEF runnerDies
<1> QED
  BY <1>1, <1>2, <1>3, <1>4, <1>5, <1>6, <1>7, <1>8, <1>9, <1>10, <1>11, <1>12, <1>13, <1>14, <1>15, <1>16, <1>17 DEF Steps

(* Every step keeps the types.                                               *)
LEMMA Typed ==
  ASSUME MaxAttempts \in Nat, Types, PlaceInv, NEW a \in Attempts, Steps(a)
  PROVE  Types'
<1>1. at' \in [Attempts -> Places]
  BY PlaceSteps DEF Types, Go
<1>2. guarded' \in BOOLEAN
  BY ServerTyped DEF Types
<1> QED
  BY <1>1, <1>2, ServerTyped, RunnerTyped, RemoteTyped DEF Types

-----------------------------------------------------------------------------
(* Permits, places and events go together as PlaceInv says.                  *)
LEMMA PlaceKept ==
  ASSUME MaxAttempts \in Nat, Types, PlaceInv, NEW a \in Attempts, Steps(a),
         NEW b \in Attempts
  PROVE  /\ b \in permit' => guarded' /\ at'[b] \in Permits
         /\ run'[b] = "none" => at'[b] = "idle" /\ overdue'[b] = 0
         /\ event'[b] # "none" => at'[b] = "reported"
         /\ b \in published' => at'[b] = "reported" /\ event'[b] = "none"
<1>0. /\ run \in [Attempts -> {"none", "live", "succeeded", "stopped"}]
      /\ event \in [Attempts -> {"none", "published", "integrated"}]
      /\ at \in [Attempts -> Places]
      /\ overdue \in [Attempts -> Nat]
      /\ \A c \in Attempts :
           /\ c \in permit => guarded /\ at[c] \in Permits
           /\ run[c] = "none" => at[c] = "idle" /\ overdue[c] = 0
           /\ event[c] # "none" => at[c] = "reported"
           /\ c \in published => at[c] = "reported" /\ event[c] = "none"
  BY DEF Types, PlaceInv
<1> USE DEF serverVars, runnerVars, remoteVars, Permits, Go
<1>1. CASE schedule(a)
  BY <1>0, <1>1 DEF schedule
<1>2. CASE runEnds(a)
  BY <1>0, <1>2 DEF runEnds
<1>3. CASE requestStop(a)
  BY <1>0, <1>3 DEF requestStop
<1>4. CASE reauthorizePublication(a)
  BY <1>0, <1>4 DEF reauthorizePublication
<1>5. CASE issue(a)
  BY <1>0, <1>5 DEF issue
<1>6. CASE consume(a)
  BY <1>0, <1>6 DEF consume, Guards
<1>7. CASE unguarded(a)
  BY <1>0, <1>7 DEF unguarded, Guards
<1>8. CASE permitRefused(a)
  BY <1>0, <1>8 DEF permitRefused, Fails, Guards
<1>9. CASE applyPublished(a)
  BY <1>0, <1>9 DEF applyPublished
<1>10. CASE committed(a)
  BY <1>0, <1>10 DEF committed
<1>11. CASE fenceArrives(a)
  BY <1>0, <1>11 DEF fenceArrives, Publishing
<1>12. CASE push(a)
  BY <1>0, <1>12 DEF push, Writes
<1>13. CASE remoteTip(a)
  BY <1>0, <1>13 DEF remoteTip
<1>14. CASE force(a)
  BY <1>0, <1>14 DEF force, Fails, Writes
<1>15. CASE integrateIntoBase(a)
  BY <1>0, <1>15 DEF integrateIntoBase, Writes
<1>16. CASE report(a)
  BY <1>0, <1>16 DEF report
<1>17. CASE runnerDies(a)
  BY <1>0, <1>17 DEF runnerDies, Fails, Publishing
<1> QED
  BY <1>1, <1>2, <1>3, <1>4, <1>5, <1>6, <1>7, <1>8, <1>9, <1>10, <1>11, <1>12, <1>13, <1>14, <1>15, <1>16, <1>17 DEF Steps

(* An attempt is scheduled behind the end of the one before it, so of all.   *)
LEMMA OrderKept ==
  ASSUME MaxAttempts \in Nat, Types, OrderInv, NEW a \in Attempts, Steps(a)
  PROVE  OrderInv'
<1>0. run \in [Attempts -> {"none", "live", "succeeded", "stopped"}]
  BY DEF Types
<1>1. CASE schedule(a)
  <2> SUFFICES ASSUME NEW c \in Attempts, NEW d \in Attempts, c < d, run'[d] # "none"
               PROVE  run'[c] \in {"succeeded", "stopped"}
    BY DEF OrderInv
  <2>1. CASE d # a
    BY <1>0, <1>1, <2>1 DEF schedule, OrderInv
  <2>2. CASE d = a
    <3>1. a > 1 /\ a - 1 \in Attempts /\ run[a - 1] \in {"succeeded", "stopped"} /\ c <= a - 1
      BY <1>1, <2>2, Numbers DEF schedule
    <3>2. run[c] \in {"succeeded", "stopped"}
      BY <3>1, Numbers DEF OrderInv
    <3> QED
      BY <1>0, <1>1, <2>2, <3>2, Numbers DEF schedule
  <2> QED
    BY <2>1, <2>2
<1>2. CASE runEnds(a)
  BY <1>0, <1>2 DEF runEnds, OrderInv
<1>3. CASE run' = run
  BY <1>3 DEF OrderInv
<1> QED
  BY <1>1, <1>2, <1>3 DEF Steps, requestStop, reauthorizePublication, issue, consume,
     unguarded, permitRefused, applyPublished, committed, fenceArrives, push, remoteTip,
     force, integrateIntoBase, report, runnerDies, serverVars

(* A write without authority spends the permit that was consumed before.     *)
LEMMA WriteKept ==
  ASSUME MaxAttempts \in Nat, Types, PlaceInv, WriteInv, NEW a \in Attempts, Steps(a),
         guarded, NEW b \in Attempts
  PROVE  /\ run'[b] = "live" /\ stop'[b] # "fenced" => overdue'[b] = 0
         /\ overdue'[b] <= 1
         /\ overdue'[b] = 1 => at'[b] \notin Writing
<1>0. /\ run \in [Attempts -> {"none", "live", "succeeded", "stopped"}]
      /\ stop \in [Attempts -> {"none", "open", "fenced", "reauthorized"}]
      /\ at \in [Attempts -> Places]
      /\ overdue \in [Attempts -> Nat]
      /\ run[b] = "none" => overdue[b] = 0
      /\ run[b] = "live" /\ stop[b] # "fenced" => overdue[b] = 0
      /\ overdue[b] <= 1
      /\ overdue[b] = 1 => at[b] \notin Writing
  BY DEF Types, PlaceInv, WriteInv, authorizedPublicationScope
<1> USE DEF serverVars, runnerVars, remoteVars, Writing, Go, authorizedPublicationScope
<1>1. CASE schedule(a)
  BY <1>0, <1>1 DEF schedule
<1>2. CASE runEnds(a)
  BY <1>0, <1>2 DEF runEnds
<1>3. CASE requestStop(a)
  BY <1>0, <1>3 DEF requestStop
<1>4. CASE reauthorizePublication(a)
  BY <1>0, <1>4 DEF reauthorizePublication
<1>5. CASE issue(a)
  BY <1>0, <1>5 DEF issue
<1>6. CASE consume(a)
  BY <1>0, <1>6 DEF consume
<1>7. CASE unguarded(a)
  BY <1>0, <1>7 DEF unguarded
<1>8. CASE permitRefused(a)
  BY <1>0, <1>8 DEF permitRefused, Fails
<1>9. CASE applyPublished(a)
  BY <1>0, <1>9 DEF applyPublished
<1>10. CASE committed(a)
  BY <1>0, <1>10 DEF committed
<1>11. CASE fenceArrives(a)
  BY <1>0, <1>11 DEF fenceArrives
<1>12. CASE push(a)
  <2>1. /\ at[a] = "push" /\ run' = run /\ stop' = stop
        /\ overdue' = overdue \/ Writes(a)
        /\ \E p \in Places \ Writing : Go(a, p)
    BY <1>0, <1>12 DEF push, OnceOnBranch, Places, Permits
  <2>2. overdue[b] \in {0, 1} /\ (b = a => overdue[b] = 0)
    BY <1>0, <2>1
  <2>3. overdue'[b] \in {0, 1} /\ (b # a => overdue'[b] = overdue[b])
    BY <1>0, <2>1, <2>2 DEF Writes
  <2>4. at'[b] \in Writing => at'[b] = at[b] /\ b # a
    BY <1>0, <2>1
  <2>5. run[b] = "live" /\ stop[b] # "fenced" => overdue'[b] = 0
    BY <1>0, <2>1, <2>2 DEF Writes
  <2> QED
    BY <1>0, <2>1, <2>2, <2>3, <2>4, <2>5
<1>13. CASE remoteTip(a)
  BY <1>0, <1>13 DEF remoteTip, OnceOnBranch
<1>14. CASE force(a)
  <2>1. /\ at[a] = "force" /\ run' = run /\ stop' = stop
        /\ overdue' = overdue \/ Writes(a)
        /\ \E p \in Places \ Writing : Go(a, p)
    BY <1>0, <1>14 DEF force, OnceOnBranch, Places, Permits, Fails
  <2>2. overdue[b] \in {0, 1} /\ (b = a => overdue[b] = 0)
    BY <1>0, <2>1
  <2>3. overdue'[b] \in {0, 1} /\ (b # a => overdue'[b] = overdue[b])
    BY <1>0, <2>1, <2>2 DEF Writes
  <2>4. at'[b] \in Writing => at'[b] = at[b] /\ b # a
    BY <1>0, <2>1
  <2>5. run[b] = "live" /\ stop[b] # "fenced" => overdue'[b] = 0
    BY <1>0, <2>1, <2>2 DEF Writes
  <2> QED
    BY <1>0, <2>1, <2>2, <2>3, <2>4, <2>5
<1>15. CASE integrateIntoBase(a)
  BY <1>0, <1>15 DEF integrateIntoBase, Writes
<1>16. CASE report(a)
  BY <1>0, <1>16 DEF report
<1>17. CASE runnerDies(a)
  BY <1>0, <1>17 DEF runnerDies, Fails
<1> QED
  BY <1>1, <1>2, <1>3, <1>4, <1>5, <1>6, <1>7, <1>8, <1>9, <1>10, <1>11, <1>12, <1>13, <1>14, <1>15, <1>16, <1>17 DEF Steps

(* The branch and what was read of it stay the work of scheduled attempts.   *)
LEMMA BranchKept ==
  ASSUME MaxAttempts \in Nat, Types, PlaceInv, OrderInv, BranchInv,
         NEW a \in Attempts, Steps(a)
  PROVE  BranchInv'
<1>0. /\ run \in [Attempts -> {"none", "live", "succeeded", "stopped"}]
      /\ at \in [Attempts -> Places]
      /\ seen \in [Attempts -> Attempts \cup {Absent}]
      /\ branch \in Attempts \cup {Absent} /\ Absent \notin Attempts
      /\ run[a] = "none" => at[a] = "idle"
      /\ branch \in Attempts => run[branch] # "none"
      /\ \A c \in Attempts :
           /\ seen[c] \in Attempts => run[seen[c]] # "none"
           /\ guarded /\ at[c] = "force" /\ seen[c] \in Attempts => seen[c] <= c
  BY Numbers DEF Types, PlaceInv, BranchInv
<1> USE DEF serverVars, runnerVars, remoteVars, Go, BranchInv
<1>1. CASE schedule(a)
  BY <1>0, <1>1 DEF schedule
<1>2. CASE runEnds(a)
  BY <1>0, <1>2 DEF runEnds
<1>3. CASE requestStop(a)
  BY <1>0, <1>3 DEF requestStop
<1>4. CASE reauthorizePublication(a)
  BY <1>0, <1>4 DEF reauthorizePublication
<1>5. CASE issue(a)
  BY <1>0, <1>5 DEF issue
<1>6. CASE consume(a)
  <2>1. /\ run' = run /\ seen' = seen /\ branch' = branch /\ guarded' = guarded
        /\ run[a] = "live"
        /\ \A c \in Attempts : c # a => at'[c] = at[c]
    BY <1>0, <1>6 DEF consume, authorizedPublicationScope
  <2>2. seen[a] \in Attempts => seen[a] <= a
    BY <1>0, <2>1, Numbers DEF OrderInv
  <2> QED
    BY <1>0, <2>1, <2>2
<1>7. CASE unguarded(a)
  BY <1>0, <1>7 DEF unguarded, Guards
<1>8. CASE permitRefused(a)
  BY <1>0, <1>8 DEF permitRefused, Fails
<1>9. CASE applyPublished(a)
  BY <1>0, <1>9 DEF applyPublished
<1>10. CASE committed(a)
  BY <1>0, <1>10 DEF committed
<1>11. CASE fenceArrives(a)
  BY <1>0, <1>11 DEF fenceArrives
<1>12. CASE push(a)
  BY <1>0, <1>12 DEF push, OnceOnBranch
<1>13. CASE remoteTip(a)
  BY <1>0, <1>13 DEF remoteTip, OnceOnBranch
<1>14. CASE force(a)
  BY <1>0, <1>14 DEF force, Fails, OnceOnBranch
<1>15. CASE integrateIntoBase(a)
  BY <1>0, <1>15 DEF integrateIntoBase
<1>16. CASE report(a)
  BY <1>0, <1>16 DEF report
<1>17. CASE runnerDies(a)
  BY <1>0, <1>17 DEF runnerDies, Fails
<1> QED
  BY <1>1, <1>2, <1>3, <1>4, <1>5, <1>6, <1>7, <1>8, <1>9, <1>10, <1>11, <1>12, <1>13, <1>14, <1>15, <1>16, <1>17 DEF Steps

(* A retry starts from earlier, recorded work, and nothing is built on an    *)
(* attempt that is not scheduled yet.                                        *)
LEMMA Rooted ==
  ASSUME MaxAttempts \in Nat, PubInv, NEW a \in Attempts, run[a] = "none"
  PROVE  /\ expectedRevision(a) \in Commits /\ expectedRevision(a) < a
         /\ expectedRevision(a) # 0 => expectedRevision(a) \in published
         /\ \A d \in Commits : a \in tree[d] => d = a
         /\ a # head /\ a # base
<1>1. a \notin published /\ a # 0 /\ a \in Commits
  BY Numbers DEF PubInv, PlaceInv
<1>2. head # 0 => head \in Attempts /\ run[head] # "none"
  BY Numbers DEF PubInv, PlaceInv, HeadInv, Types
<1>3. head < a
  <2>1. CASE head = 0
    BY <2>1, Numbers
  <2>2. CASE head # 0
    <3>1. ~(a < head)
      BY <1>2, <2>2 DEF PubInv, OrderInv
    <3>2. head # a
      BY <1>2, <2>2
    <3> QED
      BY <1>2, <2>2, <3>1, <3>2, Numbers
  <2> QED
    BY <2>1, <2>2
<1>4. expectedRevision(a) = head
      \/ (expectedRevision(a) = a - 1 /\ a > 1 /\ a - 1 \in published)
  BY DEF expectedRevision
<1>5. \A d \in Commits : a \in tree[d] => d = a
  BY <1>1 DEF PubInv, TreeInv
<1>6. a # base
  BY <1>1 DEF PubInv, HeadInv
<1> QED
  BY <1>3, <1>4, <1>5, <1>6, Numbers, RevisionTyped DEF PubInv, HeadInv

(* What commits are built on stays recorded, earlier work.                   *)
LEMMA TreeKept ==
  ASSUME MaxAttempts \in Nat, PubInv, NEW a \in Attempts, Steps(a)
  PROVE  TreeInv'
<1>0. TreeInv /\ tree \in [Commits -> SUBSET Commits] /\ a \in Commits
  BY Numbers DEF PubInv, Types
<1>1. CASE schedule(a)
  <2> DEFINE e == expectedRevision(a)
  <2>1. /\ e \in Commits /\ e < a
        /\ e # 0 => e \in published
        /\ \A d \in Commits : a \in tree[d] => d = a
    BY <1>1, Rooted DEF schedule
  <2>2. /\ tree' = [tree EXCEPT ![a] = {a} \union tree[e]]
        /\ published' = published
    BY <1>1 DEF schedule
  <2> HIDE DEF e
  <2>3. tree'[a] = {a} \union tree[e] /\ \A d \in Commits \ {a} : tree'[d] = tree[d]
    BY <1>0, <2>1, <2>2
  <2>4. \A c \in tree[e] : c \in Commits /\ c <= e /\ c < a
    BY <1>0, <2>1, Numbers DEF TreeInv
  <2>5. ASSUME NEW d \in Commits
        PROVE  /\ d \in tree'[d] /\ \A c \in tree'[d] : c <= d
               /\ \A c \in tree'[d] : c # d /\ c # 0 => c \in published
    <3>1. CASE d = a
      BY <1>0, <2>1, <2>3, <2>4, <3>1, Numbers DEF TreeInv
    <3>2. CASE d # a
      BY <1>0, <2>3, <3>2 DEF TreeInv
    <3> QED
      BY <3>1, <3>2
  <2>6. ASSUME NEW d \in Commits, NEW c \in tree'[d]
        PROVE  tree'[c] \subseteq tree'[d]
    <3>1. CASE d = a /\ c = a
      BY <3>1
    <3>2. CASE d = a /\ c # a
      <4>1. c \in tree[e]
        BY <2>3, <3>2
      <4>2. tree'[c] = tree[c] /\ tree[c] \subseteq tree[e]
        BY <1>0, <2>1, <2>3, <2>4, <3>2, <4>1 DEF TreeInv
      <4> QED
        BY <2>3, <3>2, <4>2
    <3>3. CASE d # a
      <4>1. c \in tree[d] /\ c \in Commits /\ c # a
        BY <1>0, <2>1, <2>3, <3>3
      <4> QED
        BY <1>0, <2>3, <3>3, <4>1 DEF TreeInv
    <3> QED
      BY <3>1, <3>2, <3>3
  <2> QED
    BY <2>2, <2>5, <2>6 DEF TreeInv
<1>2. CASE tree' = tree /\ published \subseteq published'
  BY <1>0, <1>2 DEF TreeInv
<1> QED
  BY <1>1, <1>2 DEF Steps, runEnds, requestStop, reauthorizePublication, issue, consume,
     unguarded, permitRefused, applyPublished, committed, fenceArrives, push, remoteTip,
     force, integrateIntoBase, report, runnerDies, serverVars, remoteVars

(* The base stays built on the head, and the pending integration the base.   *)
LEMMA HeadKept ==
  ASSUME MaxAttempts \in Nat, PubInv, NEW a \in Attempts, Steps(a)
  PROVE  HeadInv'
<1>0. /\ run \in [Attempts -> {"none", "live", "succeeded", "stopped"}]
      /\ event \in [Attempts -> {"none", "published", "integrated"}]
      /\ at \in [Attempts -> Places]
      /\ tree \in [Commits -> SUBSET Commits]
      /\ head \in Commits /\ base \in Commits /\ a \in Commits /\ a # 0
      /\ published \subseteq Attempts
      /\ head # 0 => head \in published
      /\ base # 0 => run[base] # "none"
      /\ head \in tree[base]
      /\ \A c \in Attempts : at[c] = "integrated" \/ event[c] = "integrated" => base = c
      /\ base # 0 => base \in Attempts
  BY Numbers DEF PubInv, Types, HeadInv
<1> USE DEF serverVars, runnerVars, remoteVars, Go, HeadInv
<1>1. CASE schedule(a)
  <2>1. a # head /\ a # base
    BY <1>1, Rooted DEF schedule
  <2> QED
    BY <1>0, <1>1, <2>1 DEF schedule
<1>2. CASE runEnds(a)
  BY <1>0, <1>2 DEF runEnds
<1>3. CASE requestStop(a)
  BY <1>0, <1>3 DEF requestStop
<1>4. CASE reauthorizePublication(a)
  BY <1>0, <1>4 DEF reauthorizePublication
<1>5. CASE issue(a)
  BY <1>0, <1>5 DEF issue
<1>6. CASE consume(a)
  <2>1. at[a] \in Permits
    BY <1>6 DEF consume, PubInv, PlaceInv
  <2>2. Guards[at[a]] # "integrated"
    BY <2>1 DEF Guards, Permits
  <2> HIDE DEF HeadInv
  <2>3. \A c \in Attempts : at'[c] = "integrated" => at[c] = "integrated"
    BY <1>0, <1>6, <2>2 DEF consume
  <2> QED
    BY <1>0, <1>6, <2>3 DEF consume, HeadInv
<1>7. CASE unguarded(a)
  BY <1>0, <1>7 DEF unguarded, Guards
<1>8. CASE permitRefused(a)
  BY <1>0, <1>8 DEF permitRefused, Fails
<1>9. CASE applyPublished(a)
  <2>1. /\ run' = run /\ at' = at /\ tree' = tree /\ base' = base
        /\ event' = [event EXCEPT ![a] = "none"]
        /\ published' = published \union {a}
    BY <1>9 DEF applyPublished
  <2>2. head' # 0 => head' \in published'
    BY <1>0, <1>9 DEF applyPublished
  <2>3. head' \in tree'[base']
    <3>1. CASE event[a] = "integrated"
      BY <1>0, <1>9, <2>1, <3>1 DEF applyPublished, PubInv, TreeInv
    <3>2. CASE event[a] # "integrated"
      BY <1>0, <1>9, <2>1, <3>2 DEF applyPublished
    <3> QED
      BY <3>1, <3>2
  <2>4. \A c \in Attempts : event'[c] = "integrated" => event[c] = "integrated"
    BY <1>0, <2>1
  <2> QED
    BY <1>0, <2>1, <2>2, <2>3, <2>4
<1>10. CASE committed(a)
  BY <1>0, <1>10 DEF committed
<1>11. CASE fenceArrives(a)
  BY <1>0, <1>11 DEF fenceArrives
<1>12. CASE push(a)
  BY <1>0, <1>12 DEF push, OnceOnBranch
<1>13. CASE remoteTip(a)
  BY <1>0, <1>13 DEF remoteTip, OnceOnBranch
<1>14. CASE force(a)
  BY <1>0, <1>14 DEF force, Fails, OnceOnBranch
<1>15. CASE integrateIntoBase(a)
  <2>1. /\ run' = run /\ event' = event /\ tree' = tree /\ head' = head
        /\ published' = published
        /\ at[a] = "base"
        /\ \A c \in Attempts \ {a} : at'[c] = at[c]
    BY <1>0, <1>15 DEF integrateIntoBase
  <2>2. run[a] # "none" /\ event[a] = "none"
    BY <2>1 DEF PubInv, PlaceInv
  <2>3. CASE base \in tree[a]
    <3>1. base' = a
      BY <1>15, <2>3 DEF integrateIntoBase
    <3>2. tree[base] \subseteq tree[a]
      BY <1>0, <2>3 DEF PubInv, TreeInv
    <3>3. ASSUME NEW c \in Attempts, at[c] = "integrated" \/ event[c] = "integrated"
          PROVE  FALSE
      <4>1. base = c /\ c # a /\ c # 0
        BY <1>0, <2>1, <2>2, <3>3, Numbers
      <4>2. c \in published
        BY <1>0, <2>3, <4>1 DEF PubInv, TreeInv
      <4> QED
        BY <3>3, <4>2 DEF PubInv, PlaceInv
    <3> QED
      BY <1>0, <2>1, <2>2, <3>1, <3>2, <3>3
  <2>4. CASE base \notin tree[a]
    BY <1>0, <1>15, <2>4 DEF integrateIntoBase
  <2> QED
    BY <2>3, <2>4
<1>16. CASE report(a)
  BY <1>0, <1>16 DEF report
<1>17. CASE runnerDies(a)
  BY <1>0, <1>17 DEF runnerDies, Fails
<1> QED
  BY <1>1, <1>2, <1>3, <1>4, <1>5, <1>6, <1>7, <1>8, <1>9, <1>10, <1>11, <1>12, <1>13, <1>14, <1>15, <1>16, <1>17 DEF Steps

(* PubInv holds when the task is created,                                    *)
LEMMA InitInv ==
  ASSUME MaxAttempts \in Nat, Init
  PROVE  PubInv
<1>1. Types
  BY Numbers DEF Init, Types, Places
<1>2. PlaceInv /\ OrderInv /\ WriteInv
  BY <1>1 DEF Init, PlaceInv, OrderInv, WriteInv
<1>3. BranchInv
  BY Numbers DEF Init, BranchInv
<1>4. TreeInv
  BY Numbers DEF Init, TreeInv
<1>5. HeadInv
  BY Numbers DEF Init, HeadInv
<1> QED
  BY <1>1, <1>2, <1>3, <1>4, <1>5 DEF PubInv

(* and every step keeps it.                                                  *)
LEMMA StepInv ==
  ASSUME MaxAttempts \in Nat, PubInv, [Next]_vars
  PROVE  PubInv'
<1>1. CASE UNCHANGED vars
  BY <1>1 DEF PubInv, Types, PlaceInv, OrderInv, WriteInv, BranchInv, TreeInv, HeadInv,
     authorizedPublicationScope, vars, serverVars, runnerVars, remoteVars
<1>2. CASE Next
  <2>1. PICK a \in Attempts : Steps(a)
    BY <1>2 DEF Next, Steps
  <2>2. Types /\ PlaceInv /\ OrderInv /\ WriteInv /\ BranchInv
    BY DEF PubInv
  <2>3. Types'
    BY <2>1, <2>2, Typed
  <2>4. PlaceInv'
    BY <2>1, <2>2, PlaceKept DEF PlaceInv
  <2>5. OrderInv'
    BY <2>1, <2>2, OrderKept
  <2>6. WriteInv'
    <3>1. guarded' = guarded
      BY <2>1, <2>2, ServerTyped
    <3> QED
      BY <2>1, <2>2, <3>1, WriteKept DEF WriteInv, authorizedPublicationScope
  <2>7. BranchInv'
    BY <2>1, <2>2, BranchKept
  <2>8. TreeInv' /\ HeadInv'
    BY <2>1, TreeKept, HeadKept
  <2> QED
    BY <2>3, <2>4, <2>5, <2>6, <2>7, <2>8 DEF PubInv
<1> QED
  BY <1>1, <1>2

-----------------------------------------------------------------------------
(* A step of the branch moves it to no earlier attempt: an ordinary push     *)
(* is of work built on the tip, a forced one holds a permit its run could    *)
(* get only while no later attempt was scheduled.                            *)
LEMMA BranchStep ==
  ASSUME MaxAttempts \in Nat, PubInv, [Next]_vars
  PROVE  NewerWorkStep
<1> SUFFICES ASSUME guarded, branch \in Attempts
             PROVE  branch' >= branch
  BY DEF NewerWorkStep
<1>1. branch \in Nat /\ Absent \notin Attempts
  BY Numbers
<1>2. CASE branch' = branch
  BY <1>1, <1>2
<1>3. ASSUME NEW a \in Attempts, push(a), branch' # branch
      PROVE  branch' >= branch
  <2>1. branch \in tree[a] /\ branch' = a /\ a \in Commits
    BY <1>1, <1>3, Numbers DEF push
  <2> QED
    BY <1>1, <2>1, Numbers DEF PubInv, TreeInv
<1>4. ASSUME NEW a \in Attempts, force(a), branch' # branch
      PROVE  branch' >= branch
  <2>1. branch = seen[a] /\ branch' = a /\ at[a] = "force"
    BY <1>4 DEF force
  <2> QED
    BY <1>1, <2>1, Numbers DEF PubInv, BranchInv
<1> QED
  BY <1>2, <1>3, <1>4 DEF Next, schedule, runEnds, requestStop, reauthorizePublication,
     issue, consume, unguarded, permitRefused, applyPublished, committed, fenceArrives,
     remoteTip, integrateIntoBase, report, runnerDies, remoteVars, vars

(* A step of the head moves it to a commit built on it: a pending            *)
(* integration is the base, and the base is built on the head.               *)
LEMMA HeadForward ==
  ASSUME MaxAttempts \in Nat, PubInv, [Next]_vars
  PROVE  HeadStep
<1>0. /\ head \in Commits /\ head \in tree[head]
      /\ tree \in [Commits -> SUBSET Commits]
  BY DEF PubInv, Types, TreeInv
<1>1. ASSUME NEW a \in Attempts, schedule(a)
      PROVE  HeadStep
  <2>1. a # head /\ a \in Commits
    BY <1>1, Rooted, Numbers DEF schedule
  <2> QED
    BY <1>0, <1>1, <2>1 DEF schedule, HeadStep
<1>2. ASSUME NEW a \in Attempts, applyPublished(a)
      PROVE  HeadStep
  <2>1. event[a] = "integrated" => base = a
    BY DEF PubInv, HeadInv
  <2> QED
    BY <1>0, <1>2, <2>1 DEF applyPublished, remoteVars, HeadStep, PubInv, HeadInv
<1>3. CASE head' = head /\ tree' = tree
  BY <1>0, <1>3 DEF HeadStep
<1> QED
  BY <1>1, <1>2, <1>3 DEF Next, runEnds, requestStop, reauthorizePublication,
     issue, consume, unguarded, permitRefused, committed, fenceArrives, push,
     remoteTip, force, integrateIntoBase, report, runnerDies, remoteVars, serverVars, vars

(* PubInv is an invariant of the publication of a task.                      *)
THEOREM PublicationInvariant ==
  ASSUME MaxAttempts \in Nat
  PROVE  Spec => []PubInv
BY InitInv, StepInv, PTL DEF Spec

(* A run whose authority was withdrawn while its runner was publishing       *)
(* (authorizedPublicationScope, publicationPermits.ts) writes to the remote  *)
(* at most once more, for every number of attempts and faults.               *)
THEOREM StoppedWritesOnce ==
  ASSUME MaxAttempts \in Nat
  PROVE  Spec => []StoppedRunWritesOnce
<1>1. PubInv => StoppedRunWritesOnce
  BY DEF PubInv, WriteInv, StoppedRunWritesOnce
<1> QED
  BY <1>1, PublicationInvariant, PTL

(* The commit of an attempt on the task's branch is never replaced by that   *)
(* of an earlier attempt (GitPublisher.push and its forced retry).           *)
THEOREM NewerStands ==
  ASSUME MaxAttempts \in Nat
  PROVE  Spec => NewerWorkStands
BY PublicationInvariant, BranchStep, PTL DEF Spec, NewerWorkStands

(* The observed head only moves to work built on it, in whatever order the   *)
(* run_published events of the attempts arrive.                              *)
THEOREM HeadForwards ==
  ASSUME MaxAttempts \in Nat
  PROVE  Spec => HeadMovesForward
BY PublicationInvariant, HeadForward, PTL DEF Spec, HeadMovesForward
=============================================================================
