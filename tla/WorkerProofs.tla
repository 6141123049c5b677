---------------------------- MODULE WorkerProofs ----------------------------
(***************************************************************************)
(* TLAPS proofs about the work that a server process leases in order to    *)
(* call a model, and about what the calls cost: the jobs of a debate       *)
(* (Debates), the planning run (PlanningRuns), the turns of the project    *)
(* manager (ConversationTurns), for any number of processes, actors,       *)
(* rounds, attempts, conversations, decisions and faults, and any budget.  *)
(* First the sums over finite sets that the theorems on money need.        *)
(***************************************************************************)
EXTENDS Debates, Integers, Sequences, FiniteSetTheorems, WellFoundedInduction, TLAPS

-----------------------------------------------------------------------------
(* Sums over finite sets                                                     *)

(* The sum of what f gives for the elements of s.                            *)
Sum(f, s) == MapThenSumSet(LAMBDA x : f[x], s)

First(s) == CHOOSE x \in s : TRUE
(* g adds up f over the subsets of s, element by element.                    *)
AddsUp(f, s, g) ==
  g = [u \in SUBSET s |-> IF u = {} THEN 0 ELSE f[First(u)] + g[u \ {First(u)}]]

(* Induction over finite sets, of a set of sets.                             *)
LEMMA SetsBelow ==
  ASSUME NEW S, IsFiniteSet(S), NEW P,
         \A s \in SUBSET S : (\A x \in s : s \ {x} \in P) => s \in P
  PROVE  \A s \in SUBSET S : s \in P
<1> DEFINE T == {s \in SUBSET S : s \notin P}
           R == StrictSubsetOrdering(S)
<1> SUFFICES ASSUME T # {}
             PROVE  FALSE
  OBVIOUS
<1>1. T \subseteq FiniteSubsetsOf(S)
  BY FS_Subset DEF FiniteSubsetsOf
<1>2. PICK s \in T : \A u \in T : <<u, s>> \notin R
  <2>1. IsWellFoundedOn(R, FiniteSubsetsOf(S))
    BY FS_StrictSubsetOrderingWellFounded
  <2> HIDE DEF T, R
  <2> QED
    BY <1>1, <2>1, WFMin
<1>3. ASSUME NEW x \in s
      PROVE  s \ {x} \in P
  <2>1. <<s \ {x}, s>> \in R
    BY <1>3 DEF StrictSubsetOrdering
  <2> QED
    BY <1>2, <2>1
<1> QED
  BY <1>2, <1>3

(* Such functions agree where they are both defined.                         *)
LEMMA SumUnique ==
  ASSUME NEW S, IsFiniteSet(S), NEW f, NEW s \in SUBSET S, NEW u \in SUBSET S,
         NEW g, AddsUp(f, s, g), NEW h, AddsUp(f, u, h)
  PROVE  \A v \in SUBSET s : v \in SUBSET u => g[v] = h[v]
<1> DEFINE P == {v \in SUBSET S : v \in SUBSET s /\ v \in SUBSET u => g[v] = h[v]}
<1>1. ASSUME NEW v \in SUBSET S, \A x \in v : v \ {x} \in P
      PROVE  v \in P
  <2> SUFFICES ASSUME v \in SUBSET s, v \in SUBSET u
               PROVE  g[v] = h[v]
    OBVIOUS
  <2>1. CASE v = {}
    BY <2>1 DEF AddsUp
  <2>2. CASE v # {}
    <3>1. First(v) \in v
      BY <2>2 DEF First
    <3>2. g[v \ {First(v)}] = h[v \ {First(v)}]
      BY <1>1, <3>1
    <3>3. g[v] = f[First(v)] + g[v \ {First(v)}] /\ h[v] = f[First(v)] + h[v \ {First(v)}]
      BY <2>2 DEF AddsUp
    <3> QED
      BY <3>2, <3>3
  <2> QED
    BY <2>1, <2>2
<1>2. \A v \in SUBSET S : v \in P
  <2> HIDE DEF P
  <2> QED
    BY <1>1, SetsBelow
<1> QED
  BY <1>2

(* There is one for every finite set.                                        *)
LEMMA SumExists ==
  ASSUME NEW S, IsFiniteSet(S), NEW f
  PROVE  \A s \in SUBSET S : \E g : AddsUp(f, s, g)
<1> DEFINE P == {s \in SUBSET S : \E g : AddsUp(f, s, g)}
           Up(s) == CHOOSE g : AddsUp(f, s, g)
<1>1. ASSUME NEW s \in SUBSET S, \A x \in s : s \ {x} \in P
      PROVE  s \in P
  <2>1. ASSUME NEW v \in SUBSET s, v # s
        PROVE  AddsUp(f, v, Up(v))
    <3>1. PICK x \in s : v \in SUBSET (s \ {x})
      BY <2>1
    <3>2. PICK g : AddsUp(f, s \ {x}, g)
      BY <1>1, <3>1
    <3>3. PICK h : h = [u \in SUBSET v |-> g[u]]
      OBVIOUS
    <3>4. AddsUp(f, v, h)
      <4>1. h = [u \in SUBSET v |-> h[u]]
        BY <3>3
      <4>2. ASSUME NEW u \in SUBSET v
            PROVE  h[u] = IF u = {} THEN 0 ELSE f[First(u)] + h[u \ {First(u)}]
        BY <3>1, <3>2, <3>3 DEF AddsUp
      <4> QED
        BY <4>1, <4>2 DEF AddsUp
    <3> QED
      BY <3>4
  <2> DEFINE W(v) == Up(v)[v]
             g == [u \in SUBSET s |-> IF u = {} THEN 0 ELSE f[First(u)] + W(u \ {First(u)})]
  <2>2. ASSUME NEW u \in SUBSET s, u # {}
        PROVE  g[u \ {First(u)}] = W(u \ {First(u)})
    <3> DEFINE v == u \ {First(u)}
    <3>1. First(u) \in u
      BY <2>2 DEF First
    <3>2. v \in SUBSET s /\ v # s
      BY <3>1
    <3>3. AddsUp(f, v, Up(v))
      BY <2>1, <3>2
    <3>4. CASE v = {}
      <4>1. Up(v)[v] = 0
        BY <3>3, <3>4 DEF AddsUp
      <4> QED
        BY <3>2, <3>4, <4>1
    <3>5. CASE v # {}
      <4> DEFINE w == v \ {First(v)}
      <4>1. First(v) \in v
        BY <3>5 DEF First
      <4>2. w \in SUBSET v /\ w \in SUBSET s /\ w # s
        BY <3>2, <4>1
      <4>3. AddsUp(f, w, Up(w))
        BY <2>1, <4>2
      <4>4. Up(v)[w] = Up(w)[w]
        <5> HIDE DEF Up, v, w
        <5>1. v \in SUBSET S /\ w \in SUBSET S
          BY <3>2, <4>2
        <5> QED
          BY <3>3, <4>2, <4>3, <5>1, SumUnique
      <4>5. Up(v)[v] = f[First(v)] + Up(v)[w]
        <5> HIDE DEF Up
        <5> QED
          BY <3>3, <3>5 DEF AddsUp
      <4>6. g[v] = f[First(v)] + W(w)
        BY <3>2, <3>5
      <4> HIDE DEF g, Up, v, w
      <4> QED
        BY <4>4, <4>5, <4>6 DEF v
    <3> QED
      BY <3>4, <3>5
  <2>3. AddsUp(f, s, g)
    <3>1. \A u \in SUBSET s : g[u] = IF u = {} THEN 0 ELSE f[First(u)] + g[u \ {First(u)}]
      <4> HIDE DEF Up
      <4> QED
        BY <2>2
    <3>2. g = [u \in SUBSET s |-> g[u]]
      OBVIOUS
    <3> HIDE DEF g
    <3> QED
      BY <3>1, <3>2 DEF AddsUp
  <2> QED
    BY <2>3
<1>2. \A s \in SUBSET S : s \in P
  <2> HIDE DEF P
  <2> QED
    BY <1>1, SetsBelow
<1> QED
  BY <1>2

(* What the library's fold computes.                                         *)
LEMMA SumFolds ==
  ASSUME NEW f, NEW s
  PROVE  Sum(f, s) = (CHOOSE g : AddsUp(f, s, g))[s]
BY DEF Sum, MapThenSumSet, MapThenFoldSet, AddsUp, First

(* It adds the elements one at a time,                                       *)
LEMMA SumSteps ==
  ASSUME NEW S, IsFiniteSet(S), NEW f
  PROVE  /\ Sum(f, {}) = 0
         /\ \A s \in SUBSET S : s # {} => Sum(f, s) = f[First(s)] + Sum(f, s \ {First(s)})
<1> DEFINE Up(s) == CHOOSE g : AddsUp(f, s, g)
<1>1. \A s \in SUBSET S : AddsUp(f, s, Up(s)) /\ Sum(f, s) = Up(s)[s]
  BY SumExists, SumFolds
<1>2. Sum(f, {}) = 0
  <2> HIDE DEF Up
  <2> QED
    BY <1>1 DEF AddsUp
<1>3. ASSUME NEW s \in SUBSET S, s # {}
      PROVE  Sum(f, s) = f[First(s)] + Sum(f, s \ {First(s)})
  <2>1. PICK u : u = s \ {First(s)}
    OBVIOUS
  <2>2. u \in SUBSET s /\ u \in SUBSET S
    BY <2>1
  <2> HIDE DEF Up
  <2>3. Up(s)[u] = Up(u)[u]
    BY <1>1, <2>2, SumUnique
  <2>4. Up(s)[s] = f[First(s)] + Up(s)[u]
    BY <1>1, <1>3, <2>1 DEF AddsUp
  <2> QED
    BY <1>1, <2>1, <2>2, <2>3, <2>4
<1> QED
  BY <1>2, <1>3

(* A sum of naturals is one.                                                 *)
LEMMA SumIsNat ==
  ASSUME NEW S, IsFiniteSet(S), NEW f, \A x \in S : f[x] \in Nat
  PROVE  \A s \in SUBSET S : Sum(f, s) \in Nat
<1> DEFINE P == {s \in SUBSET S : Sum(f, s) \in Nat}
<1>1. ASSUME NEW s \in SUBSET S, \A x \in s : s \ {x} \in P
      PROVE  s \in P
  <2>1. CASE s = {}
    BY <2>1, SumSteps
  <2>2. CASE s # {}
    <3>1. First(s) \in s
      BY <2>2 DEF First
    <3>2. Sum(f, s \ {First(s)}) \in Nat
      BY <1>1, <3>1
    <3>3. Sum(f, s) = f[First(s)] + Sum(f, s \ {First(s)})
      BY <2>2, SumSteps
    <3> QED
      BY <3>1, <3>2, <3>3
  <2> QED
    BY <2>1, <2>2
<1>2. \A s \in SUBSET S : s \in P
  <2> HIDE DEF P
  <2> QED
    BY <1>1, SetsBelow
<1> QED
  BY <1>2

(* and in any order.                                                         *)
LEMMA SumPicks ==
  ASSUME NEW S, IsFiniteSet(S), NEW f, \A x \in S : f[x] \in Nat
  PROVE  \A s \in SUBSET S : \A x \in s :
           Sum(f, s) = f[x] + Sum(f, s \ {x}) /\ Sum(f, s \ {x}) \in Nat
<1> DEFINE P == {s \in SUBSET S : \A x \in s : Sum(f, s) = f[x] + Sum(f, s \ {x})}
<1>0. \A s \in SUBSET S : Sum(f, s) \in Nat
  BY SumIsNat
<1>1. ASSUME NEW s \in SUBSET S, \A x \in s : s \ {x} \in P
      PROVE  s \in P
  <2> SUFFICES ASSUME NEW x \in s
               PROVE  Sum(f, s) = f[x] + Sum(f, s \ {x})
    OBVIOUS
  <2>1. PICK y : y = First(s)
    OBVIOUS
  <2>2. y \in s /\ Sum(f, s) = f[y] + Sum(f, s \ {y})
    <3>1. First(s) \in s
      BY DEF First
    <3> QED
      BY <2>1, <3>1, SumSteps
  <2>3. CASE x = y
    BY <2>2, <2>3
  <2>4. CASE x # y
    <3>1. Sum(f, s \ {y}) = f[x] + Sum(f, (s \ {y}) \ {x})
      BY <1>1, <2>2, <2>4
    <3>2. Sum(f, s \ {x}) = f[y] + Sum(f, (s \ {x}) \ {y})
      BY <1>1, <2>2, <2>4
    <3>3. (s \ {y}) \ {x} = (s \ {x}) \ {y}
      OBVIOUS
    <3>4. Sum(f, (s \ {x}) \ {y}) \in Nat /\ f[x] \in Nat /\ f[y] \in Nat
      BY <1>0, <2>2
    <3>5. PICK m : m = Sum(f, (s \ {x}) \ {y})
      OBVIOUS
    <3>6. Sum(f, s \ {y}) = f[x] + m /\ Sum(f, s \ {x}) = f[y] + m /\ m \in Nat
      BY <3>1, <3>2, <3>3, <3>4, <3>5
    <3> QED
      BY <2>2, <3>4, <3>6
  <2> QED
    BY <2>3, <2>4
<1>2. \A s \in SUBSET S : s \in P
  <2> HIDE DEF P
  <2> QED
    BY <1>1, SetsBelow
<1> QED
  BY <1>0, <1>2

(* Larger terms have a larger sum, and equal terms the same.                 *)
LEMMA SumGrows ==
  ASSUME NEW S, IsFiniteSet(S), NEW f, NEW h,
         \A x \in S : f[x] \in Nat /\ h[x] \in Nat /\ f[x] <= h[x]
  PROVE  Sum(f, S) <= Sum(h, S)
<1> DEFINE P == {s \in SUBSET S : Sum(f, s) <= Sum(h, s)}
<1>0. \A s \in SUBSET S : Sum(f, s) \in Nat /\ Sum(h, s) \in Nat
  BY SumIsNat
<1>1. ASSUME NEW s \in SUBSET S, \A x \in s : s \ {x} \in P
      PROVE  s \in P
  <2>1. CASE s = {}
    BY <2>1, SumSteps
  <2>2. CASE s # {}
    <3>1. PICK x \in s : TRUE
      BY <2>2
    <3>2. Sum(f, s) = f[x] + Sum(f, s \ {x}) /\ Sum(h, s) = h[x] + Sum(h, s \ {x})
      BY <3>1, SumPicks
    <3>3. Sum(f, s \ {x}) <= Sum(h, s \ {x})
      BY <1>1, <3>1
    <3>4. Sum(f, s \ {x}) \in Nat /\ Sum(h, s \ {x}) \in Nat
      BY <1>0
    <3> QED
      BY <3>2, <3>3, <3>4
  <2> QED
    BY <2>1, <2>2
<1>2. \A s \in SUBSET S : s \in P
  <2> HIDE DEF P
  <2> QED
    BY <1>1, SetsBelow
<1> QED
  BY <1>2

(* and equal terms the same.                                                 *)
LEMMA SumSame ==
  ASSUME NEW S, IsFiniteSet(S), NEW f, NEW h, \A x \in S : f[x] = h[x]
  PROVE  Sum(f, S) = Sum(h, S)
<1> DEFINE P == {s \in SUBSET S : Sum(f, s) = Sum(h, s)}
<1>1. ASSUME NEW s \in SUBSET S, \A x \in s : s \ {x} \in P
      PROVE  s \in P
  <2>1. CASE s = {}
    BY <2>1, SumSteps
  <2>2. CASE s # {}
    <3>1. First(s) \in s
      BY <2>2 DEF First
    <3>2. /\ Sum(f, s) = f[First(s)] + Sum(f, s \ {First(s)})
          /\ Sum(h, s) = h[First(s)] + Sum(h, s \ {First(s)})
      BY <2>2, SumSteps
    <3>3. Sum(f, s \ {First(s)}) = Sum(h, s \ {First(s)}) /\ f[First(s)] = h[First(s)]
      BY <1>1, <3>1
    <3> QED
      BY <3>2, <3>3
  <2> QED
    BY <2>1, <2>2
<1>2. \A s \in SUBSET S : s \in P
  <2> HIDE DEF P
  <2> QED
    BY <1>1, SetsBelow
<1> QED
  BY <1>2

(* Of nothing, nothing.                                                      *)
LEMMA SumOfZeros ==
  ASSUME NEW S, IsFiniteSet(S), NEW f, \A x \in S : f[x] = 0
  PROVE  Sum(f, S) = 0
<1> DEFINE P == {s \in SUBSET S : Sum(f, s) = 0}
<1>1. ASSUME NEW s \in SUBSET S, \A x \in s : s \ {x} \in P
      PROVE  s \in P
  <2>1. CASE s = {}
    BY <2>1, SumSteps
  <2>2. CASE s # {}
    <3>1. First(s) \in s
      BY <2>2 DEF First
    <3>2. Sum(f, s) = f[First(s)] + Sum(f, s \ {First(s)})
      BY <2>2, SumSteps
    <3>3. Sum(f, s \ {First(s)}) = 0 /\ f[First(s)] = 0
      BY <1>1, <3>1
    <3> QED
      BY <3>2, <3>3
  <2> QED
    BY <2>1, <2>2
<1>2. \A s \in SUBSET S : s \in P
  <2> HIDE DEF P
  <2> QED
    BY <1>1, SetsBelow
<1> QED
  BY <1>2

(* The sum of two sums.                                                      *)
LEMMA SumOfBoth ==
  ASSUME NEW S, IsFiniteSet(S), NEW f, NEW h, NEW g,
         \A x \in S : f[x] \in Nat /\ h[x] \in Nat /\ g[x] = f[x] + h[x]
  PROVE  Sum(g, S) = Sum(f, S) + Sum(h, S)
<1> DEFINE P == {s \in SUBSET S : Sum(g, s) = Sum(f, s) + Sum(h, s)}
<1>0. /\ \A x \in S : g[x] \in Nat
      /\ \A s \in SUBSET S : Sum(f, s) \in Nat /\ Sum(h, s) \in Nat
  BY SumIsNat
<1>1. ASSUME NEW s \in SUBSET S, \A x \in s : s \ {x} \in P
      PROVE  s \in P
  <2>1. CASE s = {}
    BY <2>1, SumSteps
  <2>2. CASE s # {}
    <3>1. PICK x \in s : TRUE
      BY <2>2
    <3>2. /\ Sum(f, s) = f[x] + Sum(f, s \ {x}) /\ Sum(h, s) = h[x] + Sum(h, s \ {x})
          /\ Sum(g, s) = g[x] + Sum(g, s \ {x})
      BY <1>0, <3>1, SumPicks
    <3>3. Sum(g, s \ {x}) = Sum(f, s \ {x}) + Sum(h, s \ {x})
      BY <1>1, <3>1
    <3>4. Sum(f, s \ {x}) \in Nat /\ Sum(h, s \ {x}) \in Nat
      BY <1>0
    <3> QED
      BY <3>2, <3>3, <3>4
  <2> QED
    BY <2>1, <2>2
<1>2. \A s \in SUBSET S : s \in P
  <2> HIDE DEF P
  <2> QED
    BY <1>1, SetsBelow
<1> QED
  BY <1>2

(* The sum over a subset is one over the set with zeros outside of it.       *)
LEMMA SumInside ==
  ASSUME NEW S, IsFiniteSet(S), NEW s \in SUBSET S, NEW f, NEW g,
         \A x \in S : f[x] \in Nat /\ g[x] = IF x \in s THEN f[x] ELSE 0
  PROVE  Sum(g, S) = Sum(f, s)
<1> DEFINE P == {u \in SUBSET S : Sum(g, u) = Sum(f, u \cap s)}
<1>1. ASSUME NEW u \in SUBSET S, \A x \in u : u \ {x} \in P
      PROVE  u \in P
  <2>1. CASE u = {}
    <3>1. u \cap s = {}
      BY <2>1
    <3> QED
      BY <2>1, <3>1, SumSteps
  <2>2. CASE u # {}
    <3>1. PICK x \in u : TRUE
      BY <2>2
    <3>2. Sum(g, u) = g[x] + Sum(g, u \ {x}) /\ Sum(g, u \ {x}) \in Nat
      BY <3>1, SumPicks
    <3>3. Sum(g, u \ {x}) = Sum(f, (u \ {x}) \cap s)
      BY <1>1, <3>1
    <3>4. CASE x \in s
      <4>1. (u \ {x}) \cap s = (u \cap s) \ {x} /\ u \cap s \in SUBSET S /\ x \in u \cap s
        BY <3>1, <3>4
      <4>2. Sum(f, u \cap s) = f[x] + Sum(f, (u \cap s) \ {x})
        BY <4>1, SumPicks
      <4>3. g[x] = f[x]
        BY <3>4
      <4> QED
        BY <3>2, <3>3, <4>1, <4>2, <4>3
    <3>5. CASE x \notin s
      <4>1. (u \ {x}) \cap s = u \cap s /\ g[x] = 0
        BY <3>1, <3>5
      <4>2. Sum(g, u) = Sum(g, u \ {x})
        BY <3>2, <4>1
      <4> QED
        BY <3>3, <4>1, <4>2
    <3> QED
      BY <3>4, <3>5
  <2> QED
    BY <2>1, <2>2
<1>2. \A u \in SUBSET S : u \in P
  <2> HIDE DEF P
  <2> QED
    BY <1>1, SetsBelow
<1>3. S \cap s = s
  OBVIOUS
<1> QED
  BY <1>2, <1>3

(* What a sum becomes when one term changes.                                 *)
LEMMA SumChanges ==
  ASSUME NEW S, IsFiniteSet(S), NEW f, NEW h, NEW x \in S,
         \A y \in S : f[y] \in Nat /\ h[y] \in Nat /\ (y # x => f[y] = h[y])
  PROVE  Sum(h, S) + f[x] = Sum(f, S) + h[x]
<1>1. IsFiniteSet(S \ {x})
  BY FS_RemoveElement
<1>2. PICK s : s = S \ {x}
  OBVIOUS
<1>3. Sum(f, s) = Sum(h, s)
  BY <1>1, <1>2, SumSame
<1>4. /\ Sum(f, S) = f[x] + Sum(f, s) /\ Sum(f, s) \in Nat
      /\ Sum(h, S) = h[x] + Sum(h, s) /\ Sum(h, s) \in Nat
  BY <1>2, SumPicks
<1> QED
  BY <1>3, <1>4

-----------------------------------------------------------------------------
(* The jobs of a debate                                                      *)

OpenJob == {"queued", "leased"}
ClosedJob == {"succeeded", "failed", "dead_letter", "cancelled"}
StoppedTurn == {"failed", "expired"}

(* A turn and an attempt; amounts, numbers and lease details may be anything. *)
IsDebateTurn(x) ==
  x \in [actor : {x.actor}, round : {x.round}, att : {x.att},
         st : StoppedTurn \cup {"queued", "running", "completed", "cancelled"}]
IsDebateAttempt(x) ==
  x \in [turn : {x.turn}, number : {x.number}, job : OpenJob \cup ClosedJob, by : {x.by},
         late : {x.late}, res : {"active", "settled", "retained", "released"},
         paid : {x.paid}, usage : {x.usage}, charged : {x.charged}]

Listed(s) == s \in Seq({s[i] : i \in DOMAIN s})

(* The rows of a run.                                                        *)
IsRun(d) ==
  /\ d \in [state : {d.state}, synth : {d.synth}, stopAfter : {d.stopAfter}, last : {d.last},
            output : {d.output}, commands : {d.commands}, turns : {d.turns}, atts : {d.atts},
            threw : BOOLEAN]
  /\ Listed(d.turns) /\ Listed(d.atts)
  /\ \A t \in DOMAIN d.turns : IsDebateTurn(d.turns[t])
  /\ \A a \in DOMAIN d.atts : IsDebateAttempt(d.atts[a]) /\ d.atts[a].turn \in DOMAIN d.turns

Busy(d, a) == a \in DOMAIN d.atts /\ d.atts[a].job \in OpenJob
Stuck(d, t) == t \in DOMAIN d.turns /\ d.turns[t].st \in StoppedTurn
Unpaid(d) == \E a \in DOMAIN d.atts : d.atts[a].res = "retained"

(* One job at most is open, one turn at most has stopped, not both; a charge *)
(* nobody knows keeps the run paused with no job open.                       *)
Orderly(d) ==
  /\ \A a, b \in DOMAIN d.atts : Busy(d, a) /\ Busy(d, b) => a = b
  /\ \A t, u \in DOMAIN d.turns : Stuck(d, t) /\ Stuck(d, u) => t = u
  /\ \A a \in DOMAIN d.atts, t \in DOMAIN d.turns : ~ (Busy(d, a) /\ Stuck(d, t))
  /\ Unpaid(d) => d.state = "paused" /\ \A a \in DOMAIN d.atts : ~ Busy(d, a)
  /\ d.state = "none" => d.atts = <<>>

(* A worker in the middle of a tick has an attempt of the run in hand.       *)
Ticks ==
  /\ tick = [w \in Workers |-> tick[w]]
  /\ \A w \in Workers :
       /\ tick[w] \in [pc : {tick[w].pc}, att : {tick[w].att}, kind : {tick[w].kind}]
       /\ tick[w].pc # "idle" => tick[w].att \in DOMAIN debate.atts

DebateInv == IsRun(debate) /\ Orderly(debate) /\ ~ debate.threw /\ Ticks

(* What one transaction does to the jobs of a run: it opens one at most, and *)
(* moves an open one.                                                        *)
Goes(from, to) ==
  \/ to = from
  \/ from = "queued" /\ to \in {"leased"} \cup (ClosedJob \ {"succeeded"})
  \/ from = "leased" /\ to \in ClosedJob
JobsMove(d, e) ==
  /\ Len(e.atts) \in {Len(d.atts), Len(d.atts) + 1}
  /\ \A a \in 1 .. Len(d.atts) : Goes(d.atts[a].job, e.atts[a].job)
  /\ \A a \in 1 .. Len(e.atts) : a > Len(d.atts) => e.atts[a].job = "queued"

(* A row of a table is replaced.                                             *)
LEMMA RowReplaced ==
  ASSUME NEW s, Listed(s), NEW i \in DOMAIN s, NEW x
  PROVE  LET t == [s EXCEPT ![i] = x]
         IN  /\ Listed(t) /\ DOMAIN t = DOMAIN s /\ Len(t) = Len(s)
             /\ t[i] = x /\ \A j \in DOMAIN s : j # i => t[j] = s[j]
<1> DEFINE t == [s EXCEPT ![i] = x]
           Before == {s[j] : j \in DOMAIN s}
           Rows == {t[j] : j \in DOMAIN t}
<1>1. s \in Seq(Before)
  BY DEF Listed
<1>2. /\ DOMAIN s = 1 .. Len(s) /\ Len(s) \in Nat /\ DOMAIN t = 1 .. Len(s)
      /\ t[i] = x /\ \A j \in DOMAIN s : j # i => t[j] = s[j]
  BY <1>1
<1>3. t \in [1 .. Len(s) -> Rows]
  BY <1>2
<1>4. t \in Seq(Rows) /\ Len(t) = Len(s)
  <2> HIDE DEF Rows, t
  <2> QED
    BY <1>2, <1>3
<1> QED
  BY <1>2, <1>4 DEF Listed

(* The rows of a table are rewritten one by one.                             *)
LEMMA RowsRewritten ==
  ASSUME NEW s, Listed(s), NEW t, t = [i \in DOMAIN s |-> t[i]]
  PROVE  Listed(t) /\ DOMAIN t = DOMAIN s /\ Len(t) = Len(s)
<1> DEFINE Before == {s[j] : j \in DOMAIN s}
           Rows == {t[j] : j \in DOMAIN t}
<1>1. s \in Seq(Before)
  BY DEF Listed
<1>2. DOMAIN s = 1 .. Len(s) /\ Len(s) \in Nat /\ DOMAIN t = DOMAIN s
  BY <1>1
<1>3. t \in [1 .. Len(s) -> Rows]
  BY <1>2
<1>4. t \in Seq(Rows) /\ Len(t) = Len(s)
  <2> HIDE DEF Rows
  <2> QED
    BY <1>2, <1>3
<1> QED
  BY <1>2, <1>4 DEF Listed

(* A row is added at the end of a table.                                     *)
LEMMA RowAdded ==
  ASSUME NEW s, Listed(s), NEW x
  PROVE  LET t == Append(s, x)
         IN  /\ Listed(t) /\ DOMAIN s = 1 .. Len(s) /\ Len(s) \in Nat
             /\ DOMAIN t = 1 .. Len(s) + 1 /\ Len(t) = Len(s) + 1
             /\ t[Len(s) + 1] = x /\ \A j \in DOMAIN s : t[j] = s[j]
<1> DEFINE t == Append(s, x)
           Before == {s[j] : j \in DOMAIN s} \cup {x}
           Rows == {t[j] : j \in DOMAIN t}
<1>1. s \in Seq(Before) /\ x \in Before
  <2>1. s \in Seq({s[j] : j \in DOMAIN s})
    BY DEF Listed
  <2>2. DOMAIN s = 1 .. Len(s) /\ Len(s) \in Nat
    BY <2>1
  <2>3. s \in [1 .. Len(s) -> Before]
    BY <2>1, <2>2
  <2> HIDE DEF Before
  <2>4. s \in Seq(Before)
    BY <2>2, <2>3
  <2> QED
    BY <2>4 DEF Before
<1>2. /\ DOMAIN s = 1 .. Len(s) /\ Len(s) \in Nat
      /\ t \in Seq(Before) /\ Len(t) = Len(s) + 1 /\ DOMAIN t = 1 .. Len(s) + 1
      /\ t[Len(s) + 1] = x /\ \A j \in DOMAIN s : t[j] = s[j]
  <2> HIDE DEF Before
  <2> QED
    BY <1>1
<1>3. t \in [1 .. Len(t) -> Rows]
  <2>1. DOMAIN t = 1 .. Len(t)
    BY <1>2
  <2>2. t = [j \in 1 .. Len(t) |-> t[j]]
    <3> HIDE DEF t, Before
    <3> QED
      BY <1>2
  <2> HIDE DEF t
  <2> QED
    BY <2>1, <2>2
<1>4. t \in Seq(Rows)
  <2>1. Len(t) \in Nat
    BY <1>2
  <2> HIDE DEF Rows, t
  <2> QED
    BY <2>1, <1>3
<1> QED
  BY <1>2, <1>4 DEF Listed

(* What an attempt counts for in the budget of an actor, or of the run, and  *)
(* what all of them come to.                                                 *)
Share(d, one, actor, a) ==
  IF one => d.turns[d.atts[a].turn].actor = actor THEN Committed(d.atts[a]) ELSE 0
Bill(d, one, actor) == Sum([a \in DOMAIN d.atts |-> Share(d, one, actor, a)], DOMAIN d.atts)
Cap(one) == IF one THEN ActorBudget ELSE MaxCost
Actors == {Synthesizer} \cup 0 .. RoundSize

(* No charge exceeds that of a turn, and no budget is exceeded.              *)
AmountsFit(d) ==
  /\ TurnCharge \in Nat /\ MaxCost \in Nat /\ ActorBudget \in Nat /\ TurnCharge <= ActorBudget
  /\ \A a \in DOMAIN d.atts :
       d.atts[a].paid \in 0 .. TurnCharge /\ d.atts[a].charged \in 0 .. TurnCharge
Solvent(d) == AmountsFit(d) /\ \A one \in BOOLEAN, actor \in Actors : Bill(d, one, actor) <= Cap(one)

(* An open job has its reservation.                                          *)
Backed(d) == \A a \in DOMAIN d.atts : d.atts[a].job \in OpenJob => d.atts[a].res = "active"

(* What a transaction does to the money.                                     *)
Pays(d, e) == Solvent(d) /\ Backed(d) => Solvent(e) /\ Backed(e)

(* The budgets an attempt of an actor counts in have room for one turn.      *)
Room(d, actor) ==
  \A one \in BOOLEAN, k \in Actors :
    (one => actor = k) => Bill(d, one, k) + TurnCharge <= Cap(one)

(* The terms of a bill are amounts.                                          *)
LEMMA SharesAreNat ==
  ASSUME NEW d, IsRun(d), AmountsFit(d)
  PROVE  /\ IsFiniteSet(DOMAIN d.atts) /\ DOMAIN d.atts = 1 .. Len(d.atts) /\ Len(d.atts) \in Nat
         /\ \A a \in DOMAIN d.atts : Committed(d.atts[a]) \in 0 .. TurnCharge
         /\ \A one, actor : \A a \in DOMAIN d.atts : Share(d, one, actor, a) \in Nat
<1>1. DOMAIN d.atts = 1 .. Len(d.atts) /\ Len(d.atts) \in Nat
  BY RowAdded DEF IsRun
<1>2. IsFiniteSet(DOMAIN d.atts)
  BY <1>1, FS_Interval
<1>3. \A a \in DOMAIN d.atts : Committed(d.atts[a]) \in 0 .. TurnCharge
  BY DEF AmountsFit, Committed
<1> QED
  BY <1>1, <1>2, <1>3 DEF Share, AmountsFit

(* A bill is what the code adds up.                                          *)
LEMMA CommittedSum ==
  ASSUME NEW d, NEW s \in SUBSET DOMAIN d.atts, NEW f,
         \A a \in DOMAIN d.atts : f[a] = Committed(d.atts[a])
  PROVE  CommittedOf(d, s) = Sum(f, s)
<1>1. ASSUME NEW g
      PROVE  AddsUp(f, s, g) <=>
               g = [u \in SUBSET s |-> IF u = {} THEN 0
                                       ELSE Committed(d.atts[First(u)]) + g[u \ {First(u)}]]
  <2>1. \A u \in SUBSET s : u # {} => First(u) \in DOMAIN d.atts
    BY DEF First
  <2>2. \A u \in SUBSET s :
          (IF u = {} THEN 0 ELSE Committed(d.atts[First(u)]) + g[u \ {First(u)}]) =
          (IF u = {} THEN 0 ELSE f[First(u)] + g[u \ {First(u)}])
    BY <2>1
  <2>3. [u \in SUBSET s |-> IF u = {} THEN 0 ELSE Committed(d.atts[First(u)]) + g[u \ {First(u)}]]
        = [u \in SUBSET s |-> IF u = {} THEN 0 ELSE f[First(u)] + g[u \ {First(u)}]]
    BY <2>2
  <2> QED
    BY <2>3 DEF AddsUp
<1>2. (CHOOSE g : AddsUp(f, s, g)) =
        CHOOSE g : g = [u \in SUBSET s |-> IF u = {} THEN 0
                                           ELSE Committed(d.atts[First(u)]) + g[u \ {First(u)}]]
  BY <1>1
<1> QED
  BY <1>2, SumFolds DEF CommittedOf, MapThenSumSet, MapThenFoldSet, First

(* Of the run, and of one actor.                                             *)
LEMMA BillsAreCommitted ==
  ASSUME NEW d, IsRun(d), AmountsFit(d), NEW actor
  PROVE  /\ CommittedCost(d) = Bill(d, FALSE, actor)
         /\ CommittedOf(d, OfActor(d, actor)) = Bill(d, TRUE, actor)
<1>1. /\ IsFiniteSet(DOMAIN d.atts) /\ DOMAIN d.atts = 1 .. Len(d.atts)
      /\ \A a \in DOMAIN d.atts : Committed(d.atts[a]) \in Nat
  BY SharesAreNat DEF AmountsFit
<1>2. PICK f : f = [a \in DOMAIN d.atts |-> Committed(d.atts[a])]
  OBVIOUS
<1>3. PICK g : g = [a \in DOMAIN d.atts |-> Share(d, FALSE, actor, a)]
  OBVIOUS
<1>4. PICK h : h = [a \in DOMAIN d.atts |-> Share(d, TRUE, actor, a)]
  OBVIOUS
<1>5. PICK s : s = OfActor(d, actor)
  OBVIOUS
<1>6. s \in SUBSET DOMAIN d.atts
      /\ \A a \in DOMAIN d.atts : a \in s <=> d.turns[d.atts[a].turn].actor = actor
  BY <1>1, <1>5 DEF OfActor, Attempts
<1>7. CommittedCost(d) = Sum(f, DOMAIN d.atts)
  BY <1>1, <1>2, CommittedSum DEF CommittedCost, Attempts
<1>8. CommittedOf(d, s) = Sum(f, s)
  BY <1>2, <1>6, CommittedSum
<1>9. Sum(g, DOMAIN d.atts) = Sum(f, DOMAIN d.atts)
  <2>1. \A a \in DOMAIN d.atts : g[a] = f[a]
    BY <1>2, <1>3 DEF Share
  <2> QED
    BY <1>1, <2>1, SumSame
<1>10. Sum(h, DOMAIN d.atts) = Sum(f, s)
  <2>1. \A a \in DOMAIN d.atts : f[a] \in Nat /\ h[a] = IF a \in s THEN f[a] ELSE 0
    BY <1>1, <1>2, <1>4, <1>6 DEF Share
  <2> QED
    BY <1>1, <1>6, <2>1, SumInside
<1> QED
  BY <1>3, <1>4, <1>5, <1>7, <1>8, <1>9, <1>10 DEF Bill

(* A turn within the budgets has room.                                       *)
LEMMA RoomWithin ==
  ASSUME NEW d, IsRun(d), AmountsFit(d), NEW actor, WithinBudget(d, actor)
  PROVE  Room(d, actor)
<1>1. \A k : CommittedCost(d) = Bill(d, FALSE, k) /\ CommittedOf(d, OfActor(d, k)) = Bill(d, TRUE, k)
  BY BillsAreCommitted
<1> QED
  BY <1>1 DEF Room, WithinBudget, Cap

(* The attempts of d cost as much or less at e.                              *)
Fewer(d, e) ==
  /\ DOMAIN e.atts = DOMAIN d.atts
  /\ \A a \in DOMAIN d.atts :
       /\ e.turns[e.atts[a].turn].actor = d.turns[d.atts[a].turn].actor
       /\ Committed(e.atts[a]) <= Committed(d.atts[a])
       /\ e.atts[a].paid \in 0 .. TurnCharge /\ e.atts[a].charged \in 0 .. TurnCharge

(* Then the bills are no higher.                                             *)
LEMMA SolventLess ==
  ASSUME NEW d, IsRun(d), Solvent(d), NEW e, IsRun(e), Fewer(d, e)
  PROVE  Solvent(e)
<1>1. AmountsFit(d) /\ AmountsFit(e)
  BY DEF Solvent, AmountsFit, Fewer
<1>2. ASSUME NEW one \in BOOLEAN, NEW actor \in Actors
      PROVE  Bill(e, one, actor) <= Cap(one)
  <2>1. PICK f : f = [a \in DOMAIN d.atts |-> Share(d, one, actor, a)]
    OBVIOUS
  <2>2. PICK g : g = [a \in DOMAIN e.atts |-> Share(e, one, actor, a)]
    OBVIOUS
  <2>3. IsFiniteSet(DOMAIN d.atts) /\ DOMAIN e.atts = DOMAIN d.atts
    BY <1>1, SharesAreNat DEF Fewer
  <2>4. \A a \in DOMAIN d.atts : f[a] \in Nat /\ g[a] \in Nat
    BY <1>1, <2>1, <2>2, <2>3, SharesAreNat
  <2>5. \A a \in DOMAIN d.atts : g[a] <= f[a]
    BY <2>1, <2>2, <2>3, <2>4 DEF Share, Fewer
  <2>6. Sum(g, DOMAIN d.atts) <= Sum(f, DOMAIN d.atts)
        /\ Sum(g, DOMAIN d.atts) \in Nat /\ Sum(f, DOMAIN d.atts) \in Nat
    BY <2>3, <2>4, <2>5, SumGrows, SumIsNat
  <2>7. Sum(f, DOMAIN d.atts) <= Cap(one) /\ Cap(one) \in Nat
    BY <2>1 DEF Solvent, Bill, AmountsFit, Cap
  <2> QED
    BY <2>2, <2>3, <2>6, <2>7 DEF Bill
<1> QED
  BY <1>1, <1>2 DEF Solvent

(* One attempt more, of an actor whose budgets have room.                    *)
LEMMA SolventMore ==
  ASSUME NEW d, IsRun(d), Solvent(d), NEW actor, Room(d, actor), NEW e, IsRun(e),
         NEW n, n = Len(d.atts) + 1, DOMAIN e.atts = 1 .. n,
         \A a \in DOMAIN d.atts : e.atts[a] = d.atts[a],
         \A a \in DOMAIN d.atts : e.turns[d.atts[a].turn].actor = d.turns[d.atts[a].turn].actor,
         e.turns[e.atts[n].turn].actor = actor, e.atts[n].res = "active",
         e.atts[n].paid = 0, e.atts[n].charged = 0
  PROVE  Solvent(e)
<1>1. AmountsFit(d) /\ DOMAIN d.atts = 1 .. Len(d.atts) /\ Len(d.atts) \in Nat
  BY SharesAreNat DEF Solvent
<1>2. AmountsFit(e)
  BY <1>1 DEF AmountsFit
<1>3. /\ n \in DOMAIN e.atts /\ DOMAIN e.atts \ {n} = DOMAIN d.atts
      /\ IsFiniteSet(DOMAIN d.atts) /\ IsFiniteSet(DOMAIN e.atts)
  BY <1>1, <1>2, SharesAreNat
<1>4. ASSUME NEW one \in BOOLEAN, NEW k \in Actors
      PROVE  Bill(e, one, k) <= Cap(one)
  <2>1. PICK f : f = [a \in DOMAIN d.atts |-> Share(d, one, k, a)]
    OBVIOUS
  <2>2. PICK g : g = [a \in DOMAIN e.atts |-> Share(e, one, k, a)]
    OBVIOUS
  <2>3. \A a \in DOMAIN d.atts : f[a] \in Nat /\ g[a] = f[a]
    BY <1>1, <1>3, <2>1, <2>2, SharesAreNat DEF Share
  <2>4. g[n] = IF one => actor = k THEN TurnCharge ELSE 0
    BY <1>3, <2>2 DEF Share, Committed
  <2>5. TurnCharge \in Nat /\ Cap(one) \in Nat
    BY <1>1 DEF AmountsFit, Cap
  <2>6. \A a \in DOMAIN e.atts : g[a] \in Nat
    BY <1>3, <2>3, <2>4, <2>5
  <2>7. Sum(g, DOMAIN e.atts) = g[n] + Sum(g, DOMAIN d.atts)
    <3>1. PICK r : r = DOMAIN e.atts
      OBVIOUS
    <3>2. IsFiniteSet(r) /\ n \in r /\ (\A a \in r : g[a] \in Nat) /\ r \in SUBSET r
      BY <1>3, <2>6, <3>1
    <3>3. Sum(g, r) = g[n] + Sum(g, r \ {n})
      BY ONLY <3>2, SumPicks
    <3> QED
      BY <1>3, <3>1, <3>3
  <2>8. Sum(g, DOMAIN d.atts) = Sum(f, DOMAIN d.atts) /\ Sum(f, DOMAIN d.atts) \in Nat
    BY <1>3, <2>3, SumSame, SumIsNat
  <2>9. /\ Sum(f, DOMAIN d.atts) <= Cap(one)
        /\ (one => actor = k) => Sum(f, DOMAIN d.atts) + TurnCharge <= Cap(one)
    BY <2>1 DEF Solvent, Room, Bill
  <2>10. Bill(e, one, k) = g[n] + Sum(f, DOMAIN d.atts)
    BY <2>2, <2>7, <2>8 DEF Bill
  <2> QED
    BY <2>4, <2>5, <2>8, <2>9, <2>10
<1> QED
  BY <1>2, <1>4 DEF Solvent

(* A reservation that is released makes room for the next attempt.           *)
LEMMA RoomReleased ==
  ASSUME NEW d, IsRun(d), Solvent(d), NEW e, IsRun(e), Fewer(d, e), NEW a \in DOMAIN d.atts,
         d.atts[a].res = "active", e.atts[a].res = "released",
         \A b \in DOMAIN d.atts : b # a => Committed(e.atts[b]) = Committed(d.atts[b])
  PROVE  Room(e, d.turns[d.atts[a].turn].actor)
<1> DEFINE actor == d.turns[d.atts[a].turn].actor
<1>1. AmountsFit(d) /\ AmountsFit(e) /\ DOMAIN e.atts = DOMAIN d.atts /\ IsFiniteSet(DOMAIN d.atts)
  BY SharesAreNat DEF Solvent, AmountsFit, Fewer
<1>2. ASSUME NEW one \in BOOLEAN, NEW k \in Actors, one => actor = k
      PROVE  Bill(e, one, k) + TurnCharge <= Cap(one)
  <2>1. PICK f : f = [b \in DOMAIN d.atts |-> Share(d, one, k, b)]
    OBVIOUS
  <2>2. PICK g : g = [b \in DOMAIN e.atts |-> Share(e, one, k, b)]
    OBVIOUS
  <2>3. \A b \in DOMAIN d.atts : f[b] \in Nat /\ g[b] \in Nat
    BY <1>1, <2>1, <2>2, SharesAreNat
  <2>4. \A b \in DOMAIN d.atts : b # a => f[b] = g[b]
    BY <1>1, <2>1, <2>2 DEF Share, Fewer
  <2>5. f[a] = TurnCharge
    BY <1>2, <2>1 DEF Share, Committed
  <2>6. g[a] = 0
    BY <1>1, <2>2 DEF Share, Committed
  <2>7. Sum(g, DOMAIN d.atts) + f[a] = Sum(f, DOMAIN d.atts) + g[a]
        /\ Sum(g, DOMAIN d.atts) \in Nat /\ Sum(f, DOMAIN d.atts) \in Nat
    <3>1. PICK r : r = DOMAIN d.atts
      OBVIOUS
    <3>2. IsFiniteSet(r) /\ a \in r /\ r \in SUBSET r
          /\ \A b \in r : f[b] \in Nat /\ g[b] \in Nat /\ (b # a => f[b] = g[b])
      BY <1>1, <2>3, <2>4, <3>1
    <3>3. Sum(g, r) + f[a] = Sum(f, r) + g[a]
      BY ONLY <3>2, SumChanges
    <3>4. Sum(g, r) \in Nat /\ Sum(f, r) \in Nat
      BY ONLY <3>2, SumIsNat
    <3> QED
      BY <3>1, <3>3, <3>4
  <2>8. Sum(f, DOMAIN d.atts) <= Cap(one) /\ Bill(e, one, k) = Sum(g, DOMAIN d.atts)
    BY <1>1, <2>1, <2>2 DEF Solvent, Bill
  <2> QED
    BY <2>5, <2>6, <2>7, <2>8
<1> QED
  BY <1>2 DEF Room

(* The rows of turns and attempts are the same.                              *)
Alike(d, e) ==
  IsRun(e) /\ e.turns = d.turns /\ e.atts = d.atts /\ (d.threw => e.threw)

(* So the money is.                                                          *)
LEMMA AlikeSolvent ==
  ASSUME NEW d, NEW e, Alike(d, e)
  PROVE  (Solvent(d) => Solvent(e)) /\ (Backed(d) => Backed(e))
BY DEF Alike, Solvent, AmountsFit, Bill, Share, Backed

(* The fields of the run row that change alone.                              *)
WithState(d, x) == [d EXCEPT !.state = x]
WithStop(d, x) == [d EXCEPT !.stopAfter = x]
WithLast(d, x) == [d EXCEPT !.last = x]
WithOutput(d, x) == [d EXCEPT !.output = x]
WithCommands(d, x) == [d EXCEPT !.commands = x]
RolledBack(d) == [d EXCEPT !.threw = TRUE]

(* Such a change leaves the turns and attempts alone.                        *)
LEMMA FieldSet ==
  ASSUME NEW d, IsRun(d), NEW x
  PROVE  /\ Alike(d, WithState(d, x)) /\ WithState(d, x).state = x
         /\ WithState(d, x).threw = d.threw
         /\ Alike(d, WithStop(d, x)) /\ WithStop(d, x).state = d.state
         /\ WithStop(d, x).threw = d.threw
         /\ Alike(d, WithLast(d, x)) /\ WithLast(d, x).state = d.state
         /\ WithLast(d, x).threw = d.threw
         /\ Alike(d, WithOutput(d, x)) /\ WithOutput(d, x).state = d.state
         /\ Alike(d, WithCommands(d, x)) /\ WithCommands(d, x).state = d.state
         /\ WithCommands(d, x).threw = d.threw
         /\ Alike(d, RolledBack(d)) /\ RolledBack(d).threw
<1> DEFINE Rec(e) ==
      e \in [state : {e.state}, synth : {e.synth}, stopAfter : {e.stopAfter}, last : {e.last},
             output : {e.output}, commands : {e.commands}, turns : {e.turns}, atts : {e.atts},
             threw : BOOLEAN]
<1>1. Rec(d)
  BY DEF IsRun
<1>2. ASSUME NEW e, Rec(e), e.turns = d.turns, e.atts = d.atts, e.threw = d.threw \/ e.threw
      PROVE  Alike(d, e)
  BY <1>2 DEF Alike, IsRun
<1> HIDE DEF Rec
<1>3. PICK e : e = [d EXCEPT !.state = x]
  OBVIOUS
<1>4. Rec(e) /\ e.turns = d.turns /\ e.atts = d.atts /\ e.threw = d.threw /\ e.state = x
  BY <1>1, <1>3 DEF Rec
<1>5. PICK f : f = [d EXCEPT !.stopAfter = x]
  OBVIOUS
<1>6. /\ Rec(f) /\ f.turns = d.turns /\ f.atts = d.atts /\ f.threw = d.threw
      /\ f.state = d.state
  BY <1>1, <1>5 DEF Rec
<1>7. PICK g : g = [d EXCEPT !.last = x]
  OBVIOUS
<1>8. /\ Rec(g) /\ g.turns = d.turns /\ g.atts = d.atts /\ g.threw = d.threw
      /\ g.state = d.state
  BY <1>1, <1>7 DEF Rec
<1>9. PICK h : h = [d EXCEPT !.output = x]
  OBVIOUS
<1>10. /\ Rec(h) /\ h.turns = d.turns /\ h.atts = d.atts /\ h.threw = d.threw
       /\ h.state = d.state
  BY <1>1, <1>9 DEF Rec
<1>11. PICK k : k = [d EXCEPT !.commands = x]
  OBVIOUS
<1>12. /\ Rec(k) /\ k.turns = d.turns /\ k.atts = d.atts /\ k.threw = d.threw
       /\ k.state = d.state
  BY <1>1, <1>11 DEF Rec
<1>13. PICK m : m = [d EXCEPT !.threw = TRUE]
  OBVIOUS
<1>14. Rec(m) /\ m.turns = d.turns /\ m.atts = d.atts /\ m.threw
  BY <1>1, <1>13 DEF Rec
<1> QED
  BY <1>2, <1>3, <1>4, <1>5, <1>6, <1>7, <1>8, <1>9, <1>10, <1>11, <1>12, <1>13, <1>14
     DEF WithState, WithStop, WithLast, WithOutput, WithCommands, RolledBack

(* A transition arrives or is rolled back.                                   *)
LEMMA RunTransits ==
  ASSUME NEW d, IsRun(d), NEW to
  PROVE  LET e == transitionRunState(d, to)
         IN  Alike(d, e) /\ (~ e.threw => e.state = to)
<1>1. CASE d.state = to
  <2>1. transitionRunState(d, to) = d
    BY <1>1 DEF transitionRunState
  <2> QED
    BY <1>1, <2>1 DEF Alike
<1>2. CASE d.state # to /\ to \in RunTransitions[d.state]
  <2>1. transitionRunState(d, to) = WithState(d, to)
    BY <1>2 DEF transitionRunState, WithState
  <2> QED
    BY <2>1, FieldSet
<1>3. CASE d.state # to /\ to \notin RunTransitions[d.state]
  <2>1. transitionRunState(d, to) = RolledBack(d)
    BY <1>3 DEF transitionRunState, Throw, RolledBack
  <2> QED
    BY <2>1, FieldSet
<1> QED
  BY <1>1, <1>2, <1>3

(* The final output is what was said last, unless there is one already.      *)
LEMMA OutputInserted ==
  ASSUME NEW d, IsRun(d)
  PROVE  Alike(d, InsertFinalOutput(d)) /\ InsertFinalOutput(d).state = d.state
<1>1. PICK x : x = IF d.output = "none" THEN d.last ELSE d.output
  OBVIOUS
<1>2. InsertFinalOutput(d) = WithOutput(d, x)
  BY <1>1 DEF InsertFinalOutput, WithOutput
<1> QED
  BY <1>2, FieldSet

(* The end of a run, or the pause that an open charge makes of it, leaves    *)
(* the turns and attempts alone (worker.ts completeRun).                     *)
LEMMA RunCompletes ==
  ASSUME NEW d, IsRun(d)
  PROVE  LET e == completeRun(d)
         IN  Alike(d, e) /\ (~ e.threw => e.state \in {"paused", "completed"})
<1>1. completeRun(d) \in {transitionRunState(d, "paused"), transitionRunState(d, "completed")}
  BY DEF completeRun
<1> QED
  BY <1>1, RunTransits

(* Such changes compose.                                                     *)
LEMMA AlikeThen ==
  ASSUME NEW d, NEW e, NEW f, Alike(d, e), Alike(e, f)
  PROVE  Alike(d, f)
BY DEF Alike

(* A run that has nothing open, nothing stopped and nothing unpaid.          *)
Clear(d) ==
  /\ IsRun(d) /\ ~ Unpaid(d)
  /\ \A a \in DOMAIN d.atts : ~ Busy(d, a)
  /\ \A t \in DOMAIN d.turns : ~ Stuck(d, t)

(* The attempts of e are those of d and at most a new, queued one.           *)
Adds(d, e) ==
  /\ Len(e.atts) \in {Len(d.atts), Len(d.atts) + 1}
  /\ \A a \in DOMAIN d.atts : a \in DOMAIN e.atts /\ e.atts[a] = d.atts[a]
  /\ \A a \in DOMAIN e.atts : a \notin DOMAIN d.atts =>
       a = Len(d.atts) + 1 /\ e.atts[a].job = "queued" /\ e.atts[a].res = "active"

(* What is scheduled when a run is clear: at most one attempt.               *)
After(d, e) ==
  /\ IsRun(e) /\ Adds(d, e) /\ (d.threw => e.threw) /\ (Solvent(d) => Solvent(e))
  /\ \A t \in DOMAIN e.turns : ~ Stuck(e, t)
  /\ ~ e.threw /\ d.state # "none" => e.state # "none"

(* Nothing is added when the attempts stay.                                  *)
LEMMA SameAdds ==
  ASSUME NEW d, NEW e, e.atts = d.atts
  PROVE  Adds(d, e)
BY DEF Adds

(* A clear run stays clear under a change of the run row.                    *)
LEMMA ClearAlike ==
  ASSUME NEW d, NEW e, Clear(d), Alike(d, e)
  PROVE  Clear(e)
BY DEF Clear, Alike, Busy, Stuck, Unpaid

(* Such a change may follow a clear run,                                     *)
LEMMA AlikeAfter ==
  ASSUME NEW d, NEW e, Clear(d), Alike(d, e), ~ e.threw => e.state # "none"
  PROVE  After(d, e)
BY SameAdds, AlikeSolvent DEF After, Alike, Clear, Busy, Stuck

(* and what was scheduled after it.                                          *)
LEMMA AfterAlike ==
  ASSUME NEW d, NEW e, NEW f, After(d, e), Alike(e, f),
         ~ f.threw /\ d.state # "none" => f.state # "none"
  PROVE  After(d, f)
BY AlikeSolvent DEF After, Alike, Stuck, Adds

(* Such a run is orderly.                                                    *)
LEMMA AfterOrderly ==
  ASSUME NEW d, NEW e, Clear(d), After(d, e), ~ e.threw, d.state # "none"
  PROVE  IsRun(e) /\ Orderly(e) /\ Backed(e)
<1>1. \A a \in DOMAIN e.atts : Busy(e, a) => a = Len(d.atts) + 1
  BY DEF After, Adds, Clear, Busy
<1>2. ~ Unpaid(e)
  BY DEF After, Adds, Clear, Unpaid
<1>3. e.state # "none" /\ \A t \in DOMAIN e.turns : ~ Stuck(e, t)
  BY DEF After
<1>4. Backed(e)
  BY DEF After, Adds, Clear, Backed, Busy
<1> QED
  BY <1>1, <1>2, <1>3, <1>4 DEF Orderly, After

(* A turn that is scheduled is queued, and so is its attempt.                *)
LEMMA TurnScheduled ==
  ASSUME NEW d, Clear(d), NEW actor, NEW round, d.state # "none"
  PROVE  After(d, scheduleTurn(d, actor, round))
<1>1. IsRun(d) /\ Listed(d.atts) /\ Listed(d.turns)
  BY DEF Clear, IsRun
<1>2. After(d, completeRun(transitionRunState(InsertFinalOutput(d), "finalizing")))
  <2> DEFINE x == InsertFinalOutput(d)
             y == transitionRunState(x, "finalizing")
             z == completeRun(y)
  <2>1. Alike(d, x)
    BY <1>1, OutputInserted
  <2>2. Alike(x, y)
    BY <2>1, RunTransits DEF Alike
  <2>3. Alike(y, z) /\ (~ z.threw => z.state # "none")
    BY <2>2, RunCompletes DEF Alike
  <2> HIDE DEF x, y, z
  <2>4. Alike(d, z)
    BY <2>1, <2>2, <2>3, AlikeThen
  <2>5. After(d, z)
    BY <2>3, <2>4, AlikeAfter
  <2> QED
    BY <2>5 DEF x, y, z
<1> DEFINE Scheduled == [d EXCEPT !.turns = Append(@, Turn(actor, round, Len(d.atts) + 1)),
                                  !.atts = Append(@, Attempt(Len(d.turns) + 1, 1))]
<1>0. /\ scheduleTurn(d, actor, round)
             \in {completeRun(transitionRunState(InsertFinalOutput(d), "finalizing")), Scheduled}
      /\ WithinBudget(d, actor)
           \/ scheduleTurn(d, actor, round)
                = completeRun(transitionRunState(InsertFinalOutput(d), "finalizing"))
  BY DEF scheduleTurn
<1>3. PICK x : x = Turn(actor, round, Len(d.atts) + 1)
  OBVIOUS
<1>4. PICK y : y = Attempt(Len(d.turns) + 1, 1)
  OBVIOUS
<1>5. /\ IsDebateTurn(x) /\ x.st = "queued"
      /\ IsDebateAttempt(y) /\ y.turn = Len(d.turns) + 1 /\ y.job = "queued" /\ y.res = "active"
      /\ x.actor = actor /\ y.paid = 0 /\ y.charged = 0
  BY <1>3, <1>4 DEF Turn, Attempt, IsDebateTurn, IsDebateAttempt, OpenJob
<1>6. PICK e : e = [d EXCEPT !.turns = Append(d.turns, x), !.atts = Append(d.atts, y)]
  OBVIOUS
<1>7. /\ e \in [state : {e.state}, synth : {e.synth}, stopAfter : {e.stopAfter},
                last : {e.last}, output : {e.output}, commands : {e.commands},
                turns : {e.turns}, atts : {e.atts}, threw : BOOLEAN]
      /\ e.turns = Append(d.turns, x) /\ e.atts = Append(d.atts, y)
      /\ e.state = d.state /\ e.threw = d.threw
  BY <1>1, <1>6 DEF IsRun
<1>8. ASSUME WithinBudget(d, actor)
      PROVE  After(d, e)
  <2>1. /\ Listed(e.turns) /\ DOMAIN d.turns = 1 .. Len(d.turns) /\ Len(d.turns) \in Nat
        /\ DOMAIN e.turns = 1 .. Len(d.turns) + 1
        /\ e.turns[Len(d.turns) + 1] = x /\ \A t \in DOMAIN d.turns : e.turns[t] = d.turns[t]
    BY <1>1, <1>7, RowAdded
  <2>2. /\ Listed(e.atts) /\ DOMAIN d.atts = 1 .. Len(d.atts) /\ Len(d.atts) \in Nat
        /\ DOMAIN e.atts = 1 .. Len(d.atts) + 1 /\ Len(e.atts) = Len(d.atts) + 1
        /\ e.atts[Len(d.atts) + 1] = y /\ \A a \in DOMAIN d.atts : e.atts[a] = d.atts[a]
    BY <1>1, <1>7, RowAdded
  <2>3. \A t \in DOMAIN e.turns : IsDebateTurn(e.turns[t]) /\ ~ Stuck(e, t)
    BY <1>1, <1>5, <2>1 DEF IsRun, Clear, Stuck, StoppedTurn
  <2>4. \A a \in DOMAIN e.atts : IsDebateAttempt(e.atts[a]) /\ e.atts[a].turn \in DOMAIN e.turns
    BY <1>1, <1>5, <2>1, <2>2 DEF IsRun
  <2>5. IsRun(e)
    BY <1>7, <2>1, <2>2, <2>3, <2>4 DEF IsRun
  <2>6. Adds(d, e)
    BY <1>5, <2>2 DEF Adds
  <2>7. ASSUME Solvent(d)
        PROVE  Solvent(e)
    <3>1. Room(d, actor)
      BY <1>1, <1>8, <2>7, RoomWithin DEF Solvent
    <3>2. PICK n : n = Len(d.atts) + 1
      OBVIOUS
    <3>3. \A a \in DOMAIN d.atts : e.turns[d.atts[a].turn].actor = d.turns[d.atts[a].turn].actor
      BY <1>1, <2>1 DEF IsRun
    <3>4. e.turns[e.atts[n].turn].actor = actor
      BY <1>5, <2>1, <2>2, <3>2
    <3>5. /\ DOMAIN e.atts = 1 .. n /\ \A a \in DOMAIN d.atts : e.atts[a] = d.atts[a]
          /\ e.atts[n].res = "active" /\ e.atts[n].paid = 0 /\ e.atts[n].charged = 0
      BY <1>5, <2>2, <3>2
    <3> QED
      BY ONLY <1>1, <2>5, <2>7, <3>1, <3>2, <3>3, <3>4, <3>5, SolventMore
  <2> QED
    BY <1>7, <2>3, <2>5, <2>6, <2>7 DEF After
<1>9. Scheduled = e
  BY <1>3, <1>4, <1>6
<1> HIDE DEF Scheduled
<1> QED
  BY <1>0, <1>2, <1>8, <1>9

(* After a turn the run goes on, or to its end.                              *)
LEMMA RunAdvances ==
  ASSUME NEW d, Clear(d), NEW t, NEW passed, NEW semantic, d.state # "none"
  PROVE  After(d, advance(d, t, passed, semantic))
<1>1. IsRun(d)
  BY DEF Clear
<1> DEFINE final == transitionRunState(d, "finalizing")
<1>2. /\ Alike(d, final) /\ Clear(final)
      /\ ~ final.threw => final.state # "none"
  BY <1>1, RunTransits, ClearAlike
<1>3. After(d, completeRun(d))
  BY <1>1, RunCompletes, AlikeAfter
<1>4. \A actor, round : After(d, scheduleTurn(d, actor, round))
  BY TurnScheduled
<1>5. \A actor, round : After(d, scheduleTurn(final, actor, round))
  <2> SUFFICES ASSUME NEW actor, NEW round
               PROVE  After(d, scheduleTurn(final, actor, round))
    OBVIOUS
  <2> DEFINE e == scheduleTurn(final, actor, round)
  <2> HIDE DEF final
  <2>1. CASE final.state # "none"
    <3>1. After(final, e)
      BY <1>2, <2>1, TurnScheduled
    <3> HIDE DEF e
    <3>2. After(d, e)
      BY <1>2, <2>1, <3>1, AlikeSolvent DEF After, Alike, Adds
    <3> QED
      BY <3>2 DEF e
  <2>2. CASE final.threw /\ final.state = "none"
    <3>1. final.state = d.state
      BY <1>1, <2>2 DEF final, transitionRunState, Throw
    <3> QED
      BY <2>2, <3>1
  <2> QED
    BY <1>2, <2>1, <2>2
<1>6. After(d, completeRun(InsertFinalOutput(final)))
  <2> DEFINE x == InsertFinalOutput(final)
             y == completeRun(x)
  <2> HIDE DEF final
  <2>1. Alike(final, x)
    BY <1>2, OutputInserted DEF Clear
  <2>2. Alike(x, y) /\ (~ y.threw => y.state # "none")
    BY <2>1, RunCompletes DEF Alike
  <2> HIDE DEF x, y
  <2>3. Alike(d, y)
    BY <1>2, <2>1, <2>2, AlikeThen
  <2>4. After(d, y)
    BY <2>2, <2>3, AlikeAfter
  <2> QED
    BY <2>4 DEF x, y
<1>7. \E actor, round :
        advance(d, t, passed, semantic)
          \in {completeRun(d), scheduleTurn(d, actor, round),
               scheduleTurn(final, actor, round), completeRun(InsertFinalOutput(final))}
  <2> DEFINE a == d.turns[t].actor
             r == d.turns[t].round
             e == advance(d, t, passed, semantic)
  <2>1. \/ e = completeRun(d) \/ e = scheduleTurn(d, a + 1, r)
        \/ e = scheduleTurn(d, 1, r + 1) \/ e = scheduleTurn(final, Synthesizer, r)
        \/ e = completeRun(InsertFinalOutput(final))
    BY DEF advance
  <2> HIDE DEF a, r, e, final
  <2> QED
    BY <2>1 DEF e
<1> QED
  <2> HIDE DEF final
  <2> QED
    BY <1>3, <1>4, <1>5, <1>6, <1>7

TurnStates == StoppedTurn \cup {"queued", "running", "completed", "cancelled"}

(* One attempt is replaced.                                                  *)
WithAttempt(d, a, x) == [d EXCEPT !.atts = [d.atts EXCEPT ![a] = x]]

(* Its row has the new value, and nothing else changes.                      *)
LEMMA AttemptSet ==
  ASSUME NEW d, IsRun(d), NEW a \in DOMAIN d.atts, NEW x, IsDebateAttempt(x),
         x.turn \in DOMAIN d.turns
  PROVE  LET e == WithAttempt(d, a, x)
         IN  /\ IsRun(e) /\ e.state = d.state /\ e.threw = d.threw /\ e.turns = d.turns
             /\ DOMAIN e.atts = DOMAIN d.atts /\ Len(e.atts) = Len(d.atts)
             /\ e.atts[a] = x /\ \A b \in DOMAIN d.atts : b # a => e.atts[b] = d.atts[b]
<1>1. PICK e : e = WithAttempt(d, a, x)
  OBVIOUS
<1>2. /\ e \in [state : {e.state}, synth : {e.synth}, stopAfter : {e.stopAfter},
                last : {e.last}, output : {e.output}, commands : {e.commands},
                turns : {e.turns}, atts : {e.atts}, threw : BOOLEAN]
      /\ e.turns = d.turns /\ e.atts = [d.atts EXCEPT ![a] = x]
      /\ e.state = d.state /\ e.threw = d.threw
  BY <1>1 DEF IsRun, WithAttempt
<1>3. /\ Listed(e.atts) /\ DOMAIN e.atts = DOMAIN d.atts /\ Len(e.atts) = Len(d.atts)
      /\ e.atts[a] = x /\ \A b \in DOMAIN d.atts : b # a => e.atts[b] = d.atts[b]
  <2>1. Listed(d.atts)
    BY DEF IsRun
  <2> QED
    BY <1>2, <2>1, RowReplaced
<1>4. IsRun(e)
  BY <1>2, <1>3 DEF IsRun
<1> QED
  BY <1>1, <1>2, <1>3, <1>4

(* One turn is replaced.                                                     *)
WithTurn(d, t, x) == [d EXCEPT !.turns = [d.turns EXCEPT ![t] = x]]

(* Its row has the new value, and nothing else changes.                      *)
LEMMA TurnSet ==
  ASSUME NEW d, IsRun(d), NEW t \in DOMAIN d.turns, NEW x, IsDebateTurn(x)
  PROVE  LET e == WithTurn(d, t, x)
         IN  /\ IsRun(e) /\ e.state = d.state /\ e.threw = d.threw /\ e.atts = d.atts
             /\ DOMAIN e.turns = DOMAIN d.turns
             /\ e.turns[t] = x /\ \A u \in DOMAIN d.turns : u # t => e.turns[u] = d.turns[u]
<1>1. PICK e : e = WithTurn(d, t, x)
  OBVIOUS
<1>2. /\ e \in [state : {e.state}, synth : {e.synth}, stopAfter : {e.stopAfter},
                last : {e.last}, output : {e.output}, commands : {e.commands},
                turns : {e.turns}, atts : {e.atts}, threw : BOOLEAN]
      /\ e.atts = d.atts /\ e.turns = [d.turns EXCEPT ![t] = x]
      /\ e.state = d.state /\ e.threw = d.threw
  BY <1>1 DEF IsRun, WithTurn
<1>3. /\ Listed(e.turns) /\ DOMAIN e.turns = DOMAIN d.turns
      /\ e.turns[t] = x /\ \A u \in DOMAIN d.turns : u # t => e.turns[u] = d.turns[u]
  <2>1. Listed(d.turns)
    BY DEF IsRun
  <2> QED
    BY <1>2, <2>1, RowReplaced
<1>4. IsRun(e)
  BY <1>2, <1>3 DEF IsRun
<1> QED
  BY <1>1, <1>2, <1>3, <1>4

(* The end of an attempt: its row, its turn's row and no other.              *)
LEMMA Closes ==
  ASSUME NEW d, IsRun(d), NEW a \in DOMAIN d.atts, NEW jobState \in ClosedJob,
         NEW turnState \in TurnStates, NEW res \in {"settled", "released", "retained"}, NEW paid
  PROVE  LET e == Close(d, a, jobState, turnState, res, paid)
             t == d.atts[a].turn
         IN  /\ IsRun(e) /\ e.state = d.state /\ e.threw = d.threw
             /\ DOMAIN e.atts = DOMAIN d.atts /\ Len(e.atts) = Len(d.atts)
             /\ \A b \in DOMAIN d.atts : b # a => e.atts[b] = d.atts[b]
             /\ e.atts[a].job = jobState /\ e.atts[a].turn = t
             /\ e.atts[a].res = IF d.atts[a].res = "active" THEN res ELSE d.atts[a].res
             /\ e.atts[a].paid = IF d.atts[a].res = "active" THEN paid ELSE d.atts[a].paid
             /\ e.atts[a].charged = d.atts[a].charged /\ e.turns[t].actor = d.turns[t].actor
             /\ t \in DOMAIN d.turns /\ DOMAIN e.turns = DOMAIN d.turns
             /\ \A u \in DOMAIN d.turns : u # t => e.turns[u] = d.turns[u]
             /\ e.turns[t].st = turnState
<1> DEFINE t == d.atts[a].turn
<1>1. IsDebateAttempt(d.atts[a]) /\ t \in DOMAIN d.turns /\ IsDebateTurn(d.turns[t])
  BY DEF IsRun
<1>2. PICK r : r = IF d.atts[a].res = "active" THEN res ELSE d.atts[a].res
  OBVIOUS
<1>3. PICK p : p = IF d.atts[a].res = "active" THEN paid ELSE d.atts[a].paid
  OBVIOUS
<1>4. PICK x : x = [d.atts[a] EXCEPT !.job = jobState, !.by = Nobody, !.late = FALSE,
                                     !.res = r, !.paid = p]
  OBVIOUS
<1>5. PICK y : y = [d.turns[t] EXCEPT !.st = turnState]
  OBVIOUS
<1>6. /\ IsDebateAttempt(x) /\ x.job = jobState /\ x.turn = t /\ x.res = r
      /\ x.paid = p /\ x.charged = d.atts[a].charged
  BY <1>1, <1>2, <1>4 DEF IsDebateAttempt
<1>7. IsDebateTurn(y) /\ y.st = turnState /\ y.actor = d.turns[t].actor
  BY <1>1, <1>5 DEF IsDebateTurn, TurnStates
<1>8. Close(d, a, jobState, turnState, res, paid) = WithTurn(WithAttempt(d, a, x), t, y)
  <2>1. PICK e : e = WithAttempt(d, a, x)
    OBVIOUS
  <2>2. e.turns = d.turns
    BY <1>1, <1>6, <2>1, AttemptSet
  <2>3. Close(d, a, jobState, turnState, res, paid)
          = [d EXCEPT !.atts = [d.atts EXCEPT ![a] = x], !.turns = [d.turns EXCEPT ![t] = y]]
    BY <1>2, <1>3, <1>4, <1>5 DEF Close
  <2>4. @ = [e EXCEPT !.turns = [e.turns EXCEPT ![t] = y]]
    BY <2>1, <2>2 DEF WithAttempt
  <2> QED
    BY <2>1, <2>3, <2>4 DEF WithTurn
<1>9. PICK e : e = WithAttempt(d, a, x)
  OBVIOUS
<1>10. /\ IsRun(e) /\ e.state = d.state /\ e.threw = d.threw /\ e.turns = d.turns
       /\ DOMAIN e.atts = DOMAIN d.atts /\ Len(e.atts) = Len(d.atts)
       /\ e.atts[a] = x /\ \A b \in DOMAIN d.atts : b # a => e.atts[b] = d.atts[b]
  BY <1>1, <1>6, <1>9, AttemptSet
<1>11. PICK f : f = WithTurn(e, t, y)
  OBVIOUS
<1>12. /\ IsRun(f) /\ f.state = e.state /\ f.threw = e.threw /\ f.atts = e.atts
       /\ DOMAIN f.turns = DOMAIN e.turns
       /\ f.turns[t] = y /\ \A u \in DOMAIN e.turns : u # t => f.turns[u] = e.turns[u]
  BY <1>1, <1>7, <1>10, <1>11, TurnSet
<1> QED
  BY <1>1, <1>2, <1>3, <1>6, <1>7, <1>8, <1>9, <1>10, <1>11, <1>12

(* It costs what was reserved or less.                                       *)
LEMMA ClosesFewer ==
  ASSUME NEW d, IsRun(d), NEW a \in DOMAIN d.atts, NEW jobState \in ClosedJob,
         NEW turnState \in TurnStates, NEW res \in {"settled", "released", "retained"},
         AmountsFit(d), NEW paid \in 0 .. TurnCharge
  PROVE  Fewer(d, Close(d, a, jobState, turnState, res, paid))
<1>1. PICK e : e = Close(d, a, jobState, turnState, res, paid)
  OBVIOUS
<1>2. PICK t : t = d.atts[a].turn
  OBVIOUS
<1>3. /\ DOMAIN e.atts = DOMAIN d.atts
      /\ \A b \in DOMAIN d.atts : b # a => e.atts[b] = d.atts[b]
      /\ e.atts[a].turn = t
      /\ e.atts[a].res = IF d.atts[a].res = "active" THEN res ELSE d.atts[a].res
      /\ e.atts[a].paid = IF d.atts[a].res = "active" THEN paid ELSE d.atts[a].paid
      /\ e.atts[a].charged = d.atts[a].charged /\ e.turns[t].actor = d.turns[t].actor
      /\ \A u \in DOMAIN d.turns : u # t => e.turns[u] = d.turns[u]
  BY <1>1, <1>2, Closes
<1>4. \A b \in DOMAIN d.atts : /\ Committed(d.atts[b]) \in 0 .. TurnCharge
                              /\ d.atts[b].turn \in DOMAIN d.turns
  BY SharesAreNat DEF IsRun
<1>5. Committed(e.atts[a]) <= Committed(d.atts[a])
  BY <1>3 DEF Committed, AmountsFit
<1>6. \A b \in DOMAIN d.atts :
        e.turns[e.atts[b].turn].actor = d.turns[d.atts[b].turn].actor
  BY <1>2, <1>3, <1>4
<1>7. \A b \in DOMAIN d.atts : /\ Committed(e.atts[b]) <= Committed(d.atts[b])
                              /\ e.atts[b].paid \in 0 .. TurnCharge
                              /\ e.atts[b].charged \in 0 .. TurnCharge
  BY <1>3, <1>4, <1>5 DEF AmountsFit
<1> QED
  BY <1>1, <1>3, <1>6, <1>7 DEF Fewer

(* So no budget is exceeded.                                                 *)
LEMMA ClosesSolvent ==
  ASSUME NEW d, IsRun(d), NEW a \in DOMAIN d.atts, NEW jobState \in ClosedJob,
         NEW turnState \in TurnStates, NEW res \in {"settled", "released", "retained"},
         Solvent(d), NEW paid \in 0 .. TurnCharge
  PROVE  Solvent(Close(d, a, jobState, turnState, res, paid))
<1>1. PICK e : e = Close(d, a, jobState, turnState, res, paid)
  OBVIOUS
<1>2. IsRun(e) /\ Fewer(d, e)
  BY <1>1, Closes, ClosesFewer DEF Solvent
<1> QED
  BY <1>1, <1>2, SolventLess

(* What a transaction commits, when it does not throw.                       *)
Result(d, e) ==
  ~ e.threw => IsRun(e) /\ Orderly(e) /\ JobsMove(d, e) /\ Pays(d, e)

(* And when it closes the attempt it was about, also one that was paid.      *)
Settled(d, e) ==
  ~ e.threw => /\ IsRun(e) /\ Orderly(e) /\ JobsMove(d, e)
               /\ Solvent(d) => Solvent(e) /\ Backed(e)

(* It is what a transaction commits.                                         *)
LEMMA SettledResult ==
  ASSUME NEW d, NEW e, Settled(d, e)
  PROVE  Result(d, e)
BY DEF Settled, Result, Pays

(* The jobs of d at e, but for attempt a, which was leased and is closed.    *)
Ended(d, e, a) ==
  /\ DOMAIN e.atts = DOMAIN d.atts /\ Len(e.atts) = Len(d.atts)
  /\ \A b \in DOMAIN d.atts : b # a => e.atts[b].job = d.atts[b].job
  /\ d.atts[a].job = "leased" /\ e.atts[a].job \in ClosedJob

(* That is a move of the jobs, also when a new one is queued with it.        *)
LEMMA EndedMoves ==
  ASSUME NEW d, IsRun(d), NEW a \in DOMAIN d.atts, NEW e, Ended(d, e, a),
         NEW f, Adds(e, f), IsRun(f)
  PROVE  JobsMove(d, f)
<1>1. /\ DOMAIN d.atts = 1 .. Len(d.atts) /\ Len(d.atts) \in Nat
      /\ DOMAIN f.atts = 1 .. Len(f.atts)
  BY RowAdded DEF IsRun
<1>2. ASSUME NEW b \in 1 .. Len(d.atts)
      PROVE  Goes(d.atts[b].job, f.atts[b].job)
  BY <1>1, <1>2 DEF Ended, Adds, Goes
<1>3. Len(f.atts) \in {Len(d.atts), Len(d.atts) + 1}
  BY <1>1 DEF Ended, Adds
<1>4. \A b \in 1 .. Len(f.atts) : b > Len(d.atts) => f.atts[b].job = "queued"
  BY <1>1 DEF Ended, Adds
<1> QED
  BY <1>2, <1>3, <1>4 DEF JobsMove

(* A lease in hand: nothing stopped, nothing unpaid, no other job open.      *)
LEMMA LeaseAlone ==
  ASSUME NEW d, IsRun(d), Orderly(d), NEW a \in DOMAIN d.atts, d.atts[a].job = "leased"
  PROVE  /\ \A b \in DOMAIN d.atts : b # a => ~ Busy(d, b)
         /\ \A t \in DOMAIN d.turns : ~ Stuck(d, t)
         /\ ~ Unpaid(d) /\ d.state # "none"
<1>1. Busy(d, a)
  BY DEF Busy, OpenJob
<1>2. d.atts # <<>>
  OBVIOUS
<1> QED
  BY <1>1, <1>2 DEF Orderly

(* A call that ends without stopping its turn leaves the run clear.          *)
LEMMA ClosesClear ==
  ASSUME NEW d, IsRun(d), Orderly(d), NEW a \in DOMAIN d.atts, d.atts[a].job = "leased",
         NEW jobState \in ClosedJob, NEW turnState \in TurnStates \ StoppedTurn,
         NEW res \in {"settled", "released"}, NEW paid,
         Solvent(d) => paid \in 0 .. TurnCharge
  PROVE  LET e == Close(d, a, jobState, turnState, res, paid)
         IN  /\ Clear(e) /\ e.state = d.state /\ e.threw = d.threw /\ Ended(d, e, a)
             /\ Solvent(d) => Solvent(e)
<1>1. PICK e : e = Close(d, a, jobState, turnState, res, paid)
  OBVIOUS
<1>2. /\ IsRun(e) /\ e.state = d.state /\ e.threw = d.threw
      /\ DOMAIN e.atts = DOMAIN d.atts /\ Len(e.atts) = Len(d.atts)
      /\ \A b \in DOMAIN d.atts : b # a => e.atts[b] = d.atts[b]
      /\ e.atts[a].job = jobState
      /\ e.atts[a].res = IF d.atts[a].res = "active" THEN res ELSE d.atts[a].res
      /\ d.atts[a].turn \in DOMAIN d.turns /\ DOMAIN e.turns = DOMAIN d.turns
      /\ \A u \in DOMAIN d.turns : u # d.atts[a].turn => e.turns[u] = d.turns[u]
      /\ e.turns[d.atts[a].turn].st = turnState
  BY <1>1, Closes
<1>3. Ended(d, e, a)
  BY <1>2 DEF Ended
<1>4. \A b \in DOMAIN e.atts : ~ Busy(e, b)
  BY <1>2, LeaseAlone DEF Busy, OpenJob, ClosedJob
<1>5. \A t \in DOMAIN e.turns : ~ Stuck(e, t)
  BY <1>2, LeaseAlone DEF Stuck
<1>6. ~ Unpaid(e)
  BY <1>2, LeaseAlone DEF Unpaid
<1>7. Solvent(d) => Solvent(e)
  BY <1>1, ClosesSolvent
<1> QED
  BY <1>1, <1>2, <1>3, <1>4, <1>5, <1>6, <1>7 DEF Clear

(* A call that stops its turn pauses the run, also when nobody knows its     *)
(* charge.                                                                   *)
LEMMA ClosesPaused ==
  ASSUME NEW d, IsRun(d), Orderly(d), NEW a \in DOMAIN d.atts, d.atts[a].job = "leased",
         NEW jobState \in ClosedJob, NEW turnState \in TurnStates,
         NEW res \in {"settled", "released", "retained"}, NEW paid,
         Solvent(d) => paid \in 0 .. TurnCharge
  PROVE  LET f == transitionRunState(Close(d, a, jobState, turnState, res, paid), "paused")
         IN  Settled(d, f) /\ (d.threw => f.threw)
<1>1. PICK e : e = Close(d, a, jobState, turnState, res, paid)
  OBVIOUS
<1>2. /\ IsRun(e) /\ e.state = d.state /\ e.threw = d.threw
      /\ DOMAIN e.atts = DOMAIN d.atts /\ Len(e.atts) = Len(d.atts)
      /\ \A b \in DOMAIN d.atts : b # a => e.atts[b] = d.atts[b]
      /\ e.atts[a].job = jobState
      /\ d.atts[a].turn \in DOMAIN d.turns /\ DOMAIN e.turns = DOMAIN d.turns
      /\ \A u \in DOMAIN d.turns : u # d.atts[a].turn => e.turns[u] = d.turns[u]
      /\ e.turns[d.atts[a].turn].st = turnState
  BY <1>1, Closes
<1>3. Ended(d, e, a)
  BY <1>2 DEF Ended
<1>4. \A b \in DOMAIN e.atts : ~ Busy(e, b)
  BY <1>2, LeaseAlone DEF Busy, OpenJob, ClosedJob
<1>5. \A t \in DOMAIN e.turns : Stuck(e, t) => t = d.atts[a].turn
  BY <1>2, LeaseAlone DEF Stuck
<1>6. PICK f : f = transitionRunState(e, "paused")
  OBVIOUS
<1>7. Alike(e, f) /\ (~ f.threw => f.state = "paused")
  BY <1>2, <1>6, RunTransits
<1>8. ~ f.threw => Orderly(f)
  BY <1>4, <1>5, <1>7 DEF Alike, Orderly, Busy, Stuck
<1>9. JobsMove(d, f)
  BY <1>3, <1>7, SameAdds, EndedMoves DEF Alike
<1>10. Solvent(d) => Solvent(f)
  <2>1. Solvent(d) => Solvent(e)
    BY <1>1, ClosesSolvent
  <2> QED
    BY <1>7, <2>1, AlikeSolvent
<1>11. Backed(f)
  BY <1>4, <1>7 DEF Backed, Busy, Alike
<1> QED
  BY <1>1, <1>2, <1>6, <1>7, <1>8, <1>9, <1>10, <1>11 DEF Settled, Alike

(* The jobs of e are those of d.                                             *)
Kept(d, e) ==
  /\ DOMAIN e.atts = DOMAIN d.atts /\ Len(e.atts) = Len(d.atts)
  /\ \A b \in DOMAIN d.atts : e.atts[b].job = d.atts[b].job

(* A job is added to those that are there.                                   *)
LEMMA KeptMoves ==
  ASSUME NEW d, IsRun(d), NEW e, Kept(d, e), NEW f, Adds(e, f), IsRun(f)
  PROVE  JobsMove(d, f)
<1>1. /\ DOMAIN d.atts = 1 .. Len(d.atts) /\ Len(d.atts) \in Nat
      /\ DOMAIN f.atts = 1 .. Len(f.atts)
  BY RowAdded DEF IsRun
<1>2. ASSUME NEW b \in 1 .. Len(d.atts)
      PROVE  Goes(d.atts[b].job, f.atts[b].job)
  BY <1>1, <1>2 DEF Kept, Adds, Goes
<1>3. Len(f.atts) \in {Len(d.atts), Len(d.atts) + 1}
  BY <1>1 DEF Kept, Adds
<1>4. \A b \in 1 .. Len(f.atts) : b > Len(d.atts) => f.atts[b].job = "queued"
  BY <1>1 DEF Kept, Adds
<1> QED
  BY <1>2, <1>3, <1>4 DEF JobsMove

(* What follows the end of a call that leaves the run clear.                 *)
LEMMA Follows ==
  ASSUME NEW d, IsRun(d), NEW a \in DOMAIN d.atts, NEW x, Clear(x), Ended(d, x, a),
         x.state # "none", Solvent(d) => Solvent(x), NEW e, After(x, e)
  PROVE  Settled(d, e)
<1>1. ~ e.threw => IsRun(e) /\ Orderly(e) /\ Backed(e) /\ (Solvent(d) => Solvent(e))
  BY AfterOrderly DEF After
<1>2. IsRun(e) => JobsMove(d, e)
  BY EndedMoves DEF After
<1> QED
  BY <1>1, <1>2 DEF Settled

(* A transition after such an end.                                           *)
LEMMA ClearTransits ==
  ASSUME NEW x, Clear(x), NEW to, to # "none"
  PROVE  After(x, transitionRunState(x, to))
<1>1. PICK e : e = transitionRunState(x, to)
  OBVIOUS
<1>2. Alike(x, e) /\ (~ e.threw => e.state = to)
  BY <1>1, RunTransits DEF Clear
<1>3. After(x, e)
  BY <1>2, AlikeAfter
<1> QED
  BY <1>1, <1>3

(* A transaction that has thrown goes on to throw.                           *)
HasThrown(d) == "threw" \in DOMAIN d /\ d.threw

(* It schedules nothing that would be committed.                             *)
LEMMA TurnThrown ==
  ASSUME NEW d, IsRun(d), d.threw, NEW actor, NEW round
  PROVE  HasThrown(scheduleTurn(d, actor, round))
<1>1. HasThrown(completeRun(transitionRunState(InsertFinalOutput(d), "finalizing")))
  <2> DEFINE x == InsertFinalOutput(d)
             y == transitionRunState(x, "finalizing")
             z == completeRun(y)
  <2>1. Alike(d, x)
    BY OutputInserted
  <2>2. Alike(x, y)
    BY <2>1, RunTransits DEF Alike
  <2>3. Alike(y, z)
    BY <2>2, RunCompletes DEF Alike
  <2> HIDE DEF x, y, z
  <2>4. HasThrown(z)
    BY <2>1, <2>2, <2>3 DEF Alike, IsRun, HasThrown
  <2> QED
    BY <2>4 DEF x, y, z
<1>2. PICK s : s = Append(d.turns, Turn(actor, round, Len(d.atts) + 1))
  OBVIOUS
<1>3. PICK r : r = Append(d.atts, Attempt(Len(d.turns) + 1, 1))
  OBVIOUS
<1>4. PICK e : e = [d EXCEPT !.turns = s, !.atts = r]
  OBVIOUS
<1>5. HasThrown(e)
  BY <1>4 DEF IsRun, HasThrown
<1>6. scheduleTurn(d, actor, round)
        \in {completeRun(transitionRunState(InsertFinalOutput(d), "finalizing")), e}
  BY <1>2, <1>3, <1>4 DEF scheduleTurn
<1> QED
  BY <1>1, <1>5, <1>6

(* And does not advance the run.                                             *)
LEMMA AdvanceThrown ==
  ASSUME NEW d, IsRun(d), d.threw, NEW t, NEW passed, NEW semantic
  PROVE  HasThrown(advance(d, t, passed, semantic))
<1>1. PICK final : final = transitionRunState(d, "finalizing")
  OBVIOUS
<1>2. IsRun(final) /\ final.threw
  BY <1>1, RunTransits DEF Alike
<1>3. PICK x : x = InsertFinalOutput(final)
  OBVIOUS
<1>4. IsRun(x) /\ x.threw
  BY <1>2, <1>3, OutputInserted DEF Alike
<1>5. HasThrown(completeRun(d)) /\ HasThrown(completeRun(x))
  BY <1>4, RunCompletes DEF Alike, IsRun, HasThrown
<1>6. \A actor, round : /\ HasThrown(scheduleTurn(d, actor, round))
                        /\ HasThrown(scheduleTurn(final, actor, round))
  BY <1>2, TurnThrown
<1> DEFINE n == d.turns[t].actor
           r == d.turns[t].round
           e == advance(d, t, passed, semantic)
<1>7. \/ e = completeRun(d) \/ e = scheduleTurn(d, n + 1, r)
      \/ e = scheduleTurn(d, 1, r + 1) \/ e = scheduleTurn(final, Synthesizer, r)
      \/ e = completeRun(x)
  BY <1>1, <1>3 DEF advance
<1> HIDE DEF n, r, e
<1>8. HasThrown(e)
  BY <1>5, <1>6, <1>7
<1> QED
  BY <1>8 DEF e

(* The output of a turn is stored: the run is clear of the call.             *)
LEMMA TurnStored ==
  ASSUME NEW d, IsRun(d), Orderly(d), NEW a \in DOMAIN d.atts, d.atts[a].job = "leased"
  PROVE  LET e == storeTurn(d, a)
         IN  /\ Clear(e) /\ e.state = d.state /\ e.threw = d.threw /\ Ended(d, e, a)
             /\ Solvent(d) => Solvent(e)
<1>1. PICK n : n = d.atts[a].charged
  OBVIOUS
<1>2. PICK c : c = Close(d, a, "succeeded", "completed", "settled", n)
  OBVIOUS
<1>3. /\ Clear(c) /\ c.state = d.state /\ c.threw = d.threw /\ Ended(d, c, a)
      /\ Solvent(d) => Solvent(c)
  <2>1. Solvent(d) => n \in 0 .. TurnCharge
    BY <1>1 DEF Solvent, AmountsFit
  <2>2. "succeeded" \in ClosedJob /\ "completed" \in TurnStates \ StoppedTurn
    BY DEF ClosedJob, TurnStates, StoppedTurn
  <2> QED
    BY <1>2, <2>1, <2>2, ClosesClear
<1>4. /\ IsRun(c) /\ a \in DOMAIN c.atts /\ IsDebateAttempt(c.atts[a])
      /\ c.atts[a].turn \in DOMAIN c.turns
  BY <1>3 DEF Clear, Ended, IsRun
<1>5. PICK x : x = [c.atts[a] EXCEPT !.usage = n]
  OBVIOUS
<1>6. /\ IsDebateAttempt(x) /\ x.turn = c.atts[a].turn /\ x.job = c.atts[a].job
      /\ x.res = c.atts[a].res /\ x.paid = c.atts[a].paid /\ x.charged = c.atts[a].charged
  BY <1>4, <1>5 DEF IsDebateAttempt
<1>7. PICK f : f = WithAttempt(c, a, x)
  OBVIOUS
<1>8. /\ IsRun(f) /\ f.state = c.state /\ f.threw = c.threw /\ f.turns = c.turns
      /\ DOMAIN f.atts = DOMAIN c.atts /\ Len(f.atts) = Len(c.atts)
      /\ f.atts[a] = x /\ \A b \in DOMAIN c.atts : b # a => f.atts[b] = c.atts[b]
  BY <1>4, <1>6, <1>7, AttemptSet
<1>9. Clear(f) /\ Ended(d, f, a)
  <2>1. Clear(f)
    BY <1>3, <1>6, <1>8 DEF Clear, Busy, Stuck, Unpaid
  <2>2. Ended(d, f, a)
    BY <1>3, <1>4, <1>6, <1>8 DEF Ended
  <2> QED
    BY <2>1, <2>2
<1>10. PICK e : e = WithLast(f, "agent")
  OBVIOUS
<1>11. Alike(f, e) /\ e.state = f.state /\ e.threw = f.threw
  BY <1>8, <1>10, FieldSet
<1>12. Clear(e) /\ Ended(d, e, a)
  <2>1. Clear(e)
    BY <1>9, <1>11, ClearAlike
  <2>2. Ended(d, e, a)
    BY <1>9, <1>11 DEF Alike, Ended
  <2> QED
    BY <2>1, <2>2
<1>14. Solvent(d) => Solvent(e)
  <2> SUFFICES ASSUME Solvent(d)
               PROVE  Solvent(f)
    BY <1>11, AlikeSolvent
  <2>1. Solvent(c) /\ IsRun(c)
    BY <1>3, <1>4
  <2>2. \A b \in DOMAIN c.atts : Committed(f.atts[b]) = Committed(c.atts[b])
    BY <1>6, <1>8 DEF Committed
  <2>3. \A b \in DOMAIN c.atts : Committed(c.atts[b]) \in 0 .. TurnCharge
    BY <2>1, SharesAreNat DEF Solvent
  <2>4. \A b \in DOMAIN c.atts : /\ c.atts[b].paid \in 0 .. TurnCharge
                                /\ c.atts[b].charged \in 0 .. TurnCharge
    BY <2>1 DEF Solvent, AmountsFit
  <2>5. \A b \in DOMAIN c.atts : /\ f.atts[b].turn = c.atts[b].turn
                                /\ f.atts[b].paid = c.atts[b].paid
                                /\ f.atts[b].charged = c.atts[b].charged
    BY <1>6, <1>8
  <2>6. Fewer(c, f)
    BY <1>8, <2>2, <2>3, <2>4, <2>5 DEF Fewer
  <2> QED
    BY <1>8, <2>1, <2>6, SolventLess
<1>13. storeTurn(d, a) = e
  BY <1>1, <1>2, <1>5, <1>7, <1>10 DEF storeTurn, WithAttempt, WithLast
<1> QED
  BY <1>1, <1>2, <1>3, <1>8, <1>11, <1>12, <1>13, <1>14

(* A transition does not undo a throw.                                       *)
LEMMA Thrown ==
  ASSUME NEW d, HasThrown(d), NEW to
  PROVE  transitionRunState(d, to).threw
BY DEF HasThrown, transitionRunState, Throw

(* The outcome of a call whose turn completed (worker.ts complete): stored    *)
(* and followed by the next turn, by the end of the run, or thrown away.     *)
LEMMA Completes ==
  ASSUME NEW d, IsRun(d), Orderly(d), NEW a \in DOMAIN d.atts, NEW w, NEW passed, NEW semantic
  PROVE  Result(d, complete(d, w, a, passed, semantic))
<1> DEFINE t == d.atts[a].turn
           e == complete(d, w, a, passed, semantic)
<1>1. RolledBack(d).threw /\ IsRun(RolledBack(d))
  BY FieldSet DEF Alike
<1>2. ASSUME ~ Holds(d, w, a)
      PROVE  Result(d, e)
  <2>1. e = RolledBack(d)
    BY <1>2 DEF complete, Throw, RolledBack
  <2> HIDE DEF e
  <2> QED
    BY <1>1, <2>1 DEF Result
<1>3. ASSUME Holds(d, w, a)
      PROVE  Result(d, e)
  <2>1. d.atts[a].job = "leased" /\ d.state # "none"
    BY <1>3, LeaseAlone DEF Holds
  <2>2. PICK stored : stored = storeTurn(d, a)
    OBVIOUS
  <2>3. /\ Clear(stored) /\ stored.state = d.state /\ Ended(d, stored, a)
        /\ Solvent(d) => Solvent(stored)
    BY <2>1, <2>2, TurnStored
  <2>4. PICK written : written = storeOutput(d, a)
    OBVIOUS
  <2>5. PICK dropped : dropped = dropQueued(written)
    OBVIOUS
  <2>6. PICK next : next = advance(written, t, passed, semantic)
    OBVIOUS
  <2>7. e = IF d.state = "cancelling" THEN transitionRunState(dropped, "cancelled")
            ELSE IF d.state = "pausing" /\ next.state \notin Terminal
                 THEN transitionRunState(next, "paused")
            ELSE next
    BY <1>3, <2>4, <2>5, <2>6 DEF complete
  <2> HIDE DEF e
  <2>8. CASE written = Throw(d)
    <3>1. IsRun(written) /\ written.threw
      BY <1>1, <2>8 DEF Throw, RolledBack
    <3>2. HasThrown(next)
      BY <2>6, <3>1, AdvanceThrown
    <3>3. HasThrown(dropped)
      BY <2>5, <3>1 DEF IsRun, HasThrown, dropQueued
    <3>4. /\ transitionRunState(dropped, "cancelled").threw
          /\ transitionRunState(next, "paused").threw
      BY <3>2, <3>3, Thrown
    <3>5. e.threw
      BY <2>7, <3>2, <3>4 DEF HasThrown
    <3> QED
      BY <3>5 DEF Result
  <2>9. CASE written # Throw(d)
    <3>1. Alike(stored, written) /\ written.state = d.state
      <4>1. Alike(stored, stored)
        BY <2>3 DEF Alike, Clear
      <4>2. IsRun(stored)
        BY <2>3 DEF Clear
      <4> QED
        BY <2>2, <2>3, <2>4, <2>9, <4>1, <4>2, OutputInserted DEF storeOutput
    <3>2. Clear(written) /\ Ended(d, written, a) /\ written.state # "none"
      BY <2>1, <2>3, <3>1, ClearAlike DEF Ended, Alike
    <3>3. Alike(written, dropped) /\ dropped.state = written.state
      <4>1. \A b \in DOMAIN written.atts : written.atts[b].job # "queued"
        BY <3>2 DEF Clear, Busy, OpenJob
      <4>2. Listed(written.atts)
        BY <3>2 DEF Clear, IsRun
      <4>3. written.atts = [b \in DOMAIN written.atts |-> written.atts[b]]
        BY <4>2 DEF Listed
      <4>4. dropped = [written EXCEPT !.atts = written.atts]
        BY <2>5, <4>1, <4>3 DEF dropQueued
      <4> QED
        BY <3>2, <4>4 DEF Alike, Clear, IsRun
    <3>4. Clear(dropped) /\ Ended(d, dropped, a) /\ dropped.state # "none"
      BY <3>2, <3>3, ClearAlike DEF Ended, Alike
    <3>5. After(written, next)
      BY <2>6, <3>2, RunAdvances
    <3>9. Solvent(d) => Solvent(written) /\ Solvent(dropped)
      BY <2>3, <3>1, <3>3, AlikeSolvent
    <3>6. Result(d, next)
      BY <3>2, <3>5, <3>9, Follows, SettledResult
    <3>7. Result(d, transitionRunState(dropped, "cancelled"))
      BY <3>4, <3>9, ClearTransits, Follows, SettledResult
    <3>8. Result(d, transitionRunState(next, "paused"))
      <4>1. PICK f : f = transitionRunState(next, "paused")
        OBVIOUS
      <4>2. Alike(next, f) /\ (~ f.threw => f.state = "paused")
        BY <3>5, <4>1, RunTransits DEF After
      <4>3. After(written, f)
        BY <3>5, <4>2, AfterAlike
      <4>4. Result(d, f)
        BY <3>2, <3>9, <4>3, Follows, SettledResult
      <4> QED
        BY <4>1, <4>4
    <3> QED
      BY <2>7, <3>6, <3>7, <3>8
  <2> QED
    BY <2>8, <2>9
<1> QED
  BY <1>2, <1>3

(* A turn is tried again: its attempt is the one open job, and nothing is    *)
(* stopped any more.                                                         *)
LEMMA AttemptAdded ==
  ASSUME NEW d, IsRun(d), ~ Unpaid(d), \A b \in DOMAIN d.atts : ~ Busy(d, b), d.state # "none",
         NEW t \in DOMAIN d.turns, \A u \in DOMAIN d.turns : Stuck(d, u) => u = t, NEW n
  PROVE  LET e == AddAttempt(d, t, n)
         IN  /\ IsRun(e) /\ Orderly(e) /\ Adds(d, e) /\ ~ Unpaid(e)
             /\ e.state = d.state /\ e.threw = d.threw /\ Backed(e)
             /\ Solvent(d) /\ Room(d, d.turns[t].actor) => Solvent(e)
<1>1. Listed(d.atts) /\ IsDebateTurn(d.turns[t])
  BY DEF IsRun
<1>2. PICK y : y = Attempt(t, n)
  OBVIOUS
<1>3. PICK x : x = [d.turns[t] EXCEPT !.att = Len(d.atts) + 1, !.st = "queued"]
  OBVIOUS
<1>4. /\ IsDebateTurn(x) /\ x.st = "queued" /\ x.actor = d.turns[t].actor
      /\ IsDebateAttempt(y) /\ y.turn = t /\ y.job = "queued" /\ y.res = "active"
      /\ y.paid = 0 /\ y.charged = 0
  BY <1>1, <1>2, <1>3 DEF Attempt, IsDebateTurn, IsDebateAttempt, OpenJob
<1>5. PICK f : f = WithTurn(d, t, x)
  OBVIOUS
<1>6. /\ IsRun(f) /\ f.state = d.state /\ f.threw = d.threw /\ f.atts = d.atts
      /\ DOMAIN f.turns = DOMAIN d.turns
      /\ f.turns[t] = x /\ \A u \in DOMAIN d.turns : u # t => f.turns[u] = d.turns[u]
  BY <1>4, <1>5, TurnSet
<1>7. PICK e : e = [f EXCEPT !.atts = Append(f.atts, y)]
  OBVIOUS
<1>8. /\ e \in [state : {e.state}, synth : {e.synth}, stopAfter : {e.stopAfter},
                last : {e.last}, output : {e.output}, commands : {e.commands},
                turns : {e.turns}, atts : {e.atts}, threw : BOOLEAN]
      /\ e.turns = f.turns /\ e.atts = Append(d.atts, y)
      /\ e.state = d.state /\ e.threw = d.threw
  BY <1>6, <1>7 DEF IsRun
<1>9. /\ Listed(e.atts) /\ DOMAIN d.atts = 1 .. Len(d.atts) /\ Len(d.atts) \in Nat
      /\ DOMAIN e.atts = 1 .. Len(d.atts) + 1 /\ Len(e.atts) = Len(d.atts) + 1
      /\ e.atts[Len(d.atts) + 1] = y /\ \A a \in DOMAIN d.atts : e.atts[a] = d.atts[a]
  BY <1>1, <1>8, RowAdded
<1>10. IsRun(e)
  <2>1. \A a \in DOMAIN e.atts : IsDebateAttempt(e.atts[a]) /\ e.atts[a].turn \in DOMAIN e.turns
    BY <1>4, <1>6, <1>8, <1>9 DEF IsRun
  <2> QED
    BY <1>6, <1>8, <1>9, <2>1 DEF IsRun
<1>11. Adds(d, e)
  BY <1>4, <1>9 DEF Adds
<1>12. ~ Unpaid(e)
  BY <1>4, <1>9 DEF Unpaid
<1>13. Orderly(e)
  <2>1. \A a \in DOMAIN e.atts : Busy(e, a) => a = Len(d.atts) + 1
    BY <1>9 DEF Busy
  <2>2. \A u \in DOMAIN e.turns : ~ Stuck(e, u)
    BY <1>4, <1>6, <1>8 DEF Stuck, StoppedTurn
  <2> QED
    BY <1>8, <1>12, <2>1, <2>2 DEF Orderly
<1>14. AddAttempt(d, t, n) = e
  BY <1>2, <1>3, <1>5, <1>6, <1>7 DEF AddAttempt, WithTurn, IsRun
<1>15. Backed(e)
  BY <1>4, <1>9 DEF Backed, Busy
<1>16. ASSUME Solvent(d), Room(d, d.turns[t].actor)
       PROVE  Solvent(e)
  <2>1. PICK m : m = Len(d.atts) + 1
    OBVIOUS
  <2>2. PICK actor : actor = d.turns[t].actor
    OBVIOUS
  <2>3. \A a \in DOMAIN d.atts : e.turns[d.atts[a].turn].actor = d.turns[d.atts[a].turn].actor
    BY <1>4, <1>6, <1>8 DEF IsRun
  <2>4. e.turns[e.atts[m].turn].actor = actor
    BY <1>4, <1>6, <1>8, <1>9, <2>1, <2>2
  <2>5. /\ DOMAIN e.atts = 1 .. m /\ \A a \in DOMAIN d.atts : e.atts[a] = d.atts[a]
        /\ e.atts[m].res = "active" /\ e.atts[m].paid = 0 /\ e.atts[m].charged = 0
    BY <1>4, <1>9, <2>1
  <2>6. IsRun(d) /\ Room(d, actor)
    BY <1>16, <2>2
  <2> QED
    BY ONLY <1>10, <1>16, <2>1, <2>3, <2>4, <2>5, <2>6, SolventMore
<1> QED
  BY <1>8, <1>10, <1>11, <1>12, <1>13, <1>14, <1>15, <1>16

(* A refused call is retried (worker.ts queueReplacementAttempt).            *)
LEMMA Retries ==
  ASSUME NEW d, IsRun(d), Orderly(d), NEW a \in DOMAIN d.atts, d.atts[a].job = "leased", NEW n
  PROVE  Result(d, AddAttempt(Close(d, a, "failed", "failed", "released", 0),
                                d.atts[a].turn, n))
<1>1. PICK c : c = Close(d, a, "failed", "failed", "released", 0)
  OBVIOUS
<1>2. /\ IsRun(c) /\ c.state = d.state
      /\ DOMAIN c.atts = DOMAIN d.atts /\ Len(c.atts) = Len(d.atts)
      /\ \A b \in DOMAIN d.atts : b # a => c.atts[b] = d.atts[b]
      /\ c.atts[a].job = "failed"
      /\ c.atts[a].res = IF d.atts[a].res = "active" THEN "released" ELSE d.atts[a].res
      /\ c.turns[d.atts[a].turn].actor = d.turns[d.atts[a].turn].actor
      /\ d.atts[a].turn \in DOMAIN d.turns /\ DOMAIN c.turns = DOMAIN d.turns
      /\ \A u \in DOMAIN d.turns : u # d.atts[a].turn => c.turns[u] = d.turns[u]
  <2>1. "failed" \in ClosedJob /\ "failed" \in TurnStates
    BY DEF ClosedJob, TurnStates, StoppedTurn
  <2> QED
    BY <1>1, <2>1, Closes
<1>3. Ended(d, c, a)
  BY <1>2 DEF Ended, ClosedJob
<1>4. \A b \in DOMAIN c.atts : ~ Busy(c, b)
  BY <1>2, LeaseAlone DEF Busy, OpenJob
<1>5. \A u \in DOMAIN c.turns : Stuck(c, u) => u = d.atts[a].turn
  BY <1>2, LeaseAlone DEF Stuck
<1>6. ~ Unpaid(c) /\ c.state # "none"
  BY <1>2, LeaseAlone DEF Unpaid
<1>7. PICK e : e = AddAttempt(c, d.atts[a].turn, n)
  OBVIOUS
<1>8. /\ IsRun(e) /\ Orderly(e) /\ Adds(c, e) /\ Backed(e)
      /\ Solvent(c) /\ Room(c, c.turns[d.atts[a].turn].actor) => Solvent(e)
  BY <1>2, <1>4, <1>5, <1>6, <1>7, AttemptAdded
<1>9. JobsMove(d, e)
  BY <1>3, <1>8, EndedMoves
<1>10. ASSUME Solvent(d), Backed(d)
       PROVE  Solvent(e)
  <2>1. "failed" \in ClosedJob /\ "failed" \in TurnStates /\ 0 \in 0 .. TurnCharge
    BY <1>10 DEF ClosedJob, TurnStates, StoppedTurn, Solvent, AmountsFit
  <2>2. Fewer(d, c) /\ Solvent(c)
    BY <1>1, <1>10, <2>1, ClosesFewer, ClosesSolvent DEF Solvent
  <2>3. d.atts[a].res = "active" /\ c.atts[a].res = "released"
    BY <1>2, <1>10 DEF Backed, OpenJob
  <2>4. \A b \in DOMAIN d.atts : b # a => Committed(c.atts[b]) = Committed(d.atts[b])
    BY <1>2
  <2>5. Room(c, d.turns[d.atts[a].turn].actor)
    BY <1>2, <1>10, <2>2, <2>3, <2>4, RoomReleased
  <2> QED
    BY <1>2, <1>8, <2>2, <2>5
<1> QED
  BY <1>1, <1>7, <1>8, <1>9, <1>10 DEF Result, Pays

(* The cancelled run after its last call, charged or not.                    *)
LEMMA ClosesCancelled ==
  ASSUME NEW d, IsRun(d), Orderly(d), NEW a \in DOMAIN d.atts, d.atts[a].job = "leased",
         NEW jobState \in ClosedJob, NEW res \in {"settled", "released"}, NEW paid,
         Solvent(d) => paid \in 0 .. TurnCharge, NEW to, to # "none"
  PROVE  Settled(d, transitionRunState(Close(d, a, jobState, "cancelled", res, paid), to))
<1>1. PICK c : c = Close(d, a, jobState, "cancelled", res, paid)
  OBVIOUS
<1>2. Clear(c) /\ Ended(d, c, a) /\ c.state # "none" /\ (Solvent(d) => Solvent(c))
  <2>1. "cancelled" \in TurnStates \ StoppedTurn
    BY DEF TurnStates, StoppedTurn
  <2>2. Clear(c) /\ Ended(d, c, a) /\ c.state = d.state /\ (Solvent(d) => Solvent(c))
    BY <1>1, <2>1, ClosesClear
  <2> QED
    BY <2>2, LeaseAlone
<1>3. PICK e : e = transitionRunState(c, to)
  OBVIOUS
<1>4. After(c, e)
  BY <1>2, <1>3, ClearTransits
<1>5. Settled(d, e)
  BY <1>2, <1>4, Follows
<1> QED
  BY <1>1, <1>3, <1>5

(* The usage of an answer that is of no use is recorded.                     *)
Recorded(d, a) ==
  [d EXCEPT !.atts[a] = [@ EXCEPT !.res = "settled", !.paid = d.atts[a].charged,
                                  !.usage = d.atts[a].charged]]

(* The attempt stays leased, and is paid.                                    *)
LEMMA UsageRecorded ==
  ASSUME NEW d, IsRun(d), Orderly(d), NEW a \in DOMAIN d.atts, d.atts[a].job = "leased"
  PROVE  LET e == Recorded(d, a)
         IN  /\ IsRun(e) /\ Orderly(e) /\ Kept(d, e) /\ e.state = d.state
             /\ a \in DOMAIN e.atts /\ e.atts[a].job = "leased"
             /\ Solvent(d) /\ Backed(d) => Solvent(e)
<1>1. IsDebateAttempt(d.atts[a]) /\ d.atts[a].turn \in DOMAIN d.turns
  BY DEF IsRun
<1>2. PICK n : n = d.atts[a].charged
  OBVIOUS
<1>3. PICK x : x = [d.atts[a] EXCEPT !.res = "settled", !.paid = n, !.usage = n]
  OBVIOUS
<1>4. /\ IsDebateAttempt(x) /\ x.turn = d.atts[a].turn /\ x.job = d.atts[a].job
      /\ x.res = "settled" /\ x.paid = n /\ x.charged = n
  BY <1>1, <1>2, <1>3 DEF IsDebateAttempt
<1>5. PICK e : e = WithAttempt(d, a, x)
  OBVIOUS
<1>6. /\ IsRun(e) /\ e.state = d.state /\ e.turns = d.turns
      /\ DOMAIN e.atts = DOMAIN d.atts /\ Len(e.atts) = Len(d.atts)
      /\ e.atts[a] = x /\ \A b \in DOMAIN d.atts : b # a => e.atts[b] = d.atts[b]
  BY <1>1, <1>4, <1>5, AttemptSet
<1>7. Kept(d, e)
  BY <1>4, <1>6 DEF Kept
<1>8. Orderly(e)
  <2>1. ~ Unpaid(e) /\ e.state # "none"
    BY <1>4, <1>6, LeaseAlone DEF Unpaid
  <2>2. \A b \in DOMAIN e.atts : Busy(e, b) <=> Busy(d, b)
    BY <1>4, <1>6 DEF Busy
  <2>3. \A t \in DOMAIN e.turns : Stuck(e, t) <=> Stuck(d, t)
    BY <1>6 DEF Stuck
  <2> QED
    BY <1>6, <2>1, <2>2, <2>3 DEF Orderly
<1>9. Recorded(d, a) = e
  BY <1>2, <1>3, <1>5 DEF Recorded, WithAttempt
<1>10. ASSUME Solvent(d), Backed(d)
       PROVE  Solvent(e)
  <2>1. d.atts[a].res = "active" /\ n \in 0 .. TurnCharge
    BY <1>2, <1>10 DEF Backed, OpenJob, Solvent, AmountsFit
  <2>2. Committed(e.atts[a]) = n /\ Committed(d.atts[a]) = TurnCharge
    BY <1>4, <1>6, <2>1 DEF Committed
  <2>3. \A b \in DOMAIN d.atts : /\ Committed(d.atts[b]) \in 0 .. TurnCharge
                                /\ d.atts[b].paid \in 0 .. TurnCharge
                                /\ d.atts[b].charged \in 0 .. TurnCharge
    BY <1>10, SharesAreNat DEF Solvent, AmountsFit
  <2>4. \A b \in DOMAIN d.atts : Committed(e.atts[b]) <= Committed(d.atts[b])
    BY <1>6, <2>1, <2>2, <2>3
  <2>5. \A b \in DOMAIN d.atts : /\ e.atts[b].turn = d.atts[b].turn
                                /\ e.atts[b].paid \in 0 .. TurnCharge
                                /\ e.atts[b].charged \in 0 .. TurnCharge
    BY <1>4, <1>6, <2>1, <2>3
  <2>6. Fewer(d, e)
    BY <1>6, <2>4, <2>5 DEF Fewer
  <2> QED
    BY <1>6, <1>10, <2>6, SolventLess
<1> QED
  BY <1>4, <1>6, <1>7, <1>8, <1>9, <1>10

(* A result for a run that has the same jobs is one for the run.             *)
LEMMA KeptResult ==
  ASSUME NEW d, NEW e, Kept(d, e), IsRun(d), IsRun(e), NEW f, Result(e, f),
         ~ f.threw => Pays(d, f)
  PROVE  Result(d, f)
<1>1. DOMAIN d.atts = 1 .. Len(d.atts)
  BY RowAdded DEF IsRun
<1> QED
  BY <1>1 DEF Result, Kept, JobsMove

(* The outcome of a failed call (worker.ts fail).                            *)
LEMMA Fails ==
  ASSUME NEW d, IsRun(d), Orderly(d), NEW a \in DOMAIN d.atts, NEW w, NEW kind
  PROVE  Result(d, fail(d, w, a, kind))
<1> DEFINE e == fail(d, w, a, kind)
<1>1. Kept(d, d) /\ Result(d, d)
  <2>1. Kept(d, d) /\ Adds(d, d)
    BY SameAdds DEF Kept
  <2> QED
    BY <2>1, KeptMoves DEF Result, Pays
<1>2. CASE ~ Holds(d, w, a)
  <2>1. e = d
    BY <1>2 DEF fail
  <2> QED
    BY <1>1, <2>1
<1>3. CASE Holds(d, w, a)
  <2>1. d.atts[a].job = "leased"
    BY <1>3 DEF Holds
  <2>2. PICK u : u = IF kind = "invalid"
                     THEN [d EXCEPT !.atts[a] = [@ EXCEPT !.res = "settled",
                             !.paid = d.atts[a].charged, !.usage = d.atts[a].charged]]
                     ELSE d
    OBVIOUS
  <2>3. /\ IsRun(u) /\ Orderly(u) /\ Kept(d, u) /\ a \in DOMAIN u.atts
        /\ u.atts[a].job = "leased" /\ (Solvent(d) /\ Backed(d) => Solvent(u))
    <3>1. CASE kind = "invalid"
      <4>1. u = Recorded(d, a)
        BY ONLY <2>2, <3>1 DEF Recorded
      <4> QED
        BY <2>1, <4>1, UsageRecorded
    <3>2. CASE kind # "invalid"
      BY <1>1, <2>1, <2>2, <3>2
    <3> QED
      BY <3>1, <3>2
  <2>4. \E n :
          e \in {transitionRunState(
                   Close(u, a, "cancelled", "cancelled", "settled", TurnCharge), "cancelled"),
                 transitionRunState(
                   Close(u, a, "cancelled", "cancelled", "released", 0), "cancelled"),
                 AddAttempt(Close(d, a, "failed", "failed", "released", 0),
                              d.atts[a].turn, n),
                 transitionRunState(
                   Close(u, a, "dead_letter", "failed", "retained", 0), "paused"),
                 transitionRunState(
                   Close(u, a, "dead_letter", "failed", "released", 0), "paused")}
    BY <1>3, <2>2 DEF fail
  <2> HIDE DEF e
  <2>5. "cancelled" \in ClosedJob /\ "dead_letter" \in ClosedJob /\ "failed" \in TurnStates
    BY DEF ClosedJob, TurnStates, StoppedTurn
  <2>9. Solvent(u) => TurnCharge \in 0 .. TurnCharge /\ 0 \in 0 .. TurnCharge
    BY DEF Solvent, AmountsFit
  <2>10. ASSUME NEW f, Settled(u, f)
         PROVE  Result(d, f)
    BY <2>3, <2>10, SettledResult, KeptResult DEF Settled, Pays
  <2>6. \A res \in {"settled", "released"} : \A paid \in {0, TurnCharge} :
          Result(d, transitionRunState(Close(u, a, "cancelled", "cancelled", res, paid),
                                         "cancelled"))
    BY <2>3, <2>5, <2>9, <2>10, ClosesCancelled
  <2>7. \A n : Result(d, AddAttempt(Close(d, a, "failed", "failed", "released", 0),
                                      d.atts[a].turn, n))
    BY <2>1, Retries
  <2>8. \A res \in {"released", "retained"} :
          Result(d, transitionRunState(Close(u, a, "dead_letter", "failed", res, 0),
                                         "paused"))
    BY <2>3, <2>5, <2>9, <2>10, ClosesPaused
  <2> QED
    BY <2>4, <2>6, <2>7, <2>8 DEF e
<1> QED
  BY <1>2, <1>3

(* A claim that cannot be prepared, and one the deadline finds (worker.ts     *)
(* failClaimPreparation, stopAtDeadline).                                    *)
LEMMA ClaimEnds ==
  ASSUME NEW d, IsRun(d), Orderly(d), NEW a \in DOMAIN d.atts, NEW w
  PROVE  /\ Result(d, failClaimPreparation(d, w, a))
         /\ Result(d, stopAtDeadline(d, w, a))
<1>1. Result(d, d)
  BY SameAdds, KeptMoves DEF Kept, Result, Pays
<1>2. "cancelled" \in ClosedJob /\ "dead_letter" \in ClosedJob /\ "failed" \in TurnStates
      /\ "cancelled" \in TurnStates \ StoppedTurn
  BY DEF ClosedJob, TurnStates, StoppedTurn
<1>5. Solvent(d) => 0 \in 0 .. TurnCharge
  BY DEF Solvent, AmountsFit
<1>3. Result(d, failClaimPreparation(d, w, a))
  <2>1. CASE ~ Holds(d, w, a)
    BY <1>1, <2>1 DEF failClaimPreparation
  <2>2. CASE Holds(d, w, a)
    <3>1. PICK e : e = transitionRunState(
                         Close(d, a, "dead_letter", "failed", "released", 0), "paused")
      OBVIOUS
    <3>2. d.atts[a].job = "leased"
      BY <2>2 DEF Holds
    <3>3. Result(d, e)
      BY <1>2, <1>5, <3>1, <3>2, ClosesPaused, SettledResult
    <3> QED
      BY <2>2, <3>1, <3>3 DEF failClaimPreparation
  <2> QED
    BY <2>1, <2>2
<1>4. Result(d, stopAtDeadline(d, w, a))
  <2>1. CASE ~ Holds(d, w, a)
    BY <1>1, <2>1 DEF stopAtDeadline
  <2>2. CASE Holds(d, w, a)
    <3>1. d.atts[a].job = "leased"
      BY <2>2 DEF Holds
    <3>2. PICK c : c = Close(d, a, "cancelled", "cancelled", "released", 0)
      OBVIOUS
    <3>3. Clear(c) /\ Ended(d, c, a) /\ c.state # "none" /\ (Solvent(d) => Solvent(c))
      BY <1>2, <1>5, <3>1, <3>2, ClosesClear, LeaseAlone
    <3>4. /\ Result(d, transitionRunState(c, "cancelled"))
          /\ Result(d, transitionRunState(c, "paused"))
      BY <3>3, ClearTransits, Follows, SettledResult
    <3>5. PICK x : x = transitionRunState(c, "finalizing")
      OBVIOUS
    <3>6. Alike(c, x)
      BY <3>3, <3>5, RunTransits DEF Clear
    <3>7. PICK y : y = InsertFinalOutput(x)
      OBVIOUS
    <3>8. Alike(x, y)
      BY <3>6, <3>7, OutputInserted DEF Alike
    <3>9. PICK z : z = transitionRunState(y, "completed")
      OBVIOUS
    <3>10. Alike(y, z) /\ (~ z.threw => z.state = "completed")
      BY <3>8, <3>9, RunTransits DEF Alike
    <3>11. After(c, z)
      <4>1. Alike(c, z)
        BY <3>6, <3>8, <3>10, AlikeThen
      <4> QED
        BY <3>3, <3>10, <4>1, AlikeAfter
    <3>12. Result(d, z)
      BY <3>3, <3>11, Follows, SettledResult
    <3>13. stopAtDeadline(d, w, a)
             \in {transitionRunState(c, "cancelled"), transitionRunState(c, "paused"), z}
      BY <2>2, <3>2, <3>5, <3>7, <3>9 DEF stopAtDeadline
    <3> QED
      BY <3>4, <3>12, <3>13
  <2> QED
    BY <2>1, <2>2
<1> QED
  BY <1>3, <1>4

(* A lease that ran out is buried (worker.ts claim).                         *)
LEMMA Abandons ==
  ASSUME NEW d, IsRun(d), Orderly(d), NEW a \in DOMAIN d.atts, d.atts[a].job = "leased"
  PROVE  Result(d, abandon(d, a))
<1>1. "dead_letter" \in ClosedJob /\ "expired" \in TurnStates
  BY DEF ClosedJob, TurnStates, StoppedTurn
<1>3. Solvent(d) => TurnCharge \in 0 .. TurnCharge /\ 0 \in 0 .. TurnCharge
  BY DEF Solvent, AmountsFit
<1>2. /\ Result(d, transitionRunState(
             Close(d, a, "dead_letter", "cancelled", "settled", TurnCharge), "cancelled"))
      /\ Result(d, transitionRunState(
             Close(d, a, "dead_letter", "expired", "retained", 0), "paused"))
  BY <1>1, <1>3, ClosesCancelled, ClosesPaused, SettledResult
<1> QED
  BY <1>2 DEF abandon

(* A change of the run row alone keeps the run orderly.                      *)
LEMMA AlikeResult ==
  ASSUME NEW d, IsRun(d), Orderly(d), NEW e, Alike(d, e),
         ~ e.threw => \/ e.state = d.state
                      \/ e.state # "none" /\ (Unpaid(d) => e.state = "paused")
  PROVE  Result(d, e)
<1>1. ~ e.threw => Orderly(e)
  BY DEF Orderly, Alike, Busy, Stuck, Unpaid
<1>2. JobsMove(d, e)
  BY SameAdds, KeptMoves DEF Kept, Alike
<1> QED
  BY <1>1, <1>2, AlikeSolvent DEF Result, Alike, Pays

(* A command is counted.                                                     *)
LEMMA CommandCounted ==
  ASSUME NEW d, NEW e, IsRun(e), Result(d, e), NEW n
  PROVE  Result(d, WithCommands(e, n))
<1>1. PICK f : f = WithCommands(e, n)
  OBVIOUS
<1>2. Alike(e, f) /\ f.state = e.state /\ f.threw = e.threw
  BY <1>1, FieldSet
<1>3. ~ e.threw => Orderly(f) /\ JobsMove(d, f)
  BY <1>2 DEF Result, Orderly, JobsMove, Alike, Busy, Stuck, Unpaid
<1> QED
  BY <1>1, <1>2, <1>3, AlikeSolvent DEF Result, Alike, Pays

(* An attempt whose job, reservation and turn are as before.                 *)
LEMMA Touched ==
  ASSUME NEW d, IsRun(d), Orderly(d), NEW a \in DOMAIN d.atts, NEW x, IsDebateAttempt(x),
         x.turn = d.atts[a].turn, x.job = d.atts[a].job, x.res = d.atts[a].res,
         x.paid = d.atts[a].paid, Solvent(d) => x.charged \in 0 .. TurnCharge
  PROVE  LET e == WithAttempt(d, a, x)
         IN  Result(d, e) /\ e.threw = d.threw
<1>1. PICK e : e = WithAttempt(d, a, x)
  OBVIOUS
<1>2. x.turn \in DOMAIN d.turns
  BY DEF IsRun
<1>3. /\ IsRun(e) /\ e.state = d.state /\ e.threw = d.threw /\ e.turns = d.turns
      /\ DOMAIN e.atts = DOMAIN d.atts /\ Len(e.atts) = Len(d.atts)
      /\ e.atts[a] = x /\ \A b \in DOMAIN d.atts : b # a => e.atts[b] = d.atts[b]
  BY <1>1, <1>2, AttemptSet
<1>4. JobsMove(d, e)
  BY <1>3, SameAdds, KeptMoves DEF Kept
<1>5. Orderly(e)
  <2>1. \A b \in DOMAIN e.atts : Busy(e, b) <=> Busy(d, b)
    BY <1>3 DEF Busy
  <2>2. \A t \in DOMAIN e.turns : Stuck(e, t) <=> Stuck(d, t)
    BY <1>3 DEF Stuck
  <2>3. Unpaid(e) <=> Unpaid(d)
    BY <1>3 DEF Unpaid
  <2>4. e.state # "none"
    <3>1. d.atts # <<>>
      OBVIOUS
    <3> QED
      BY <1>3, <3>1 DEF Orderly
  <2> QED
    BY <1>3, <2>1, <2>2, <2>3, <2>4 DEF Orderly
<1>6. ASSUME Solvent(d), Backed(d)
      PROVE  Solvent(e) /\ Backed(e)
  <2>1. \A b \in DOMAIN d.atts : Committed(e.atts[b]) = Committed(d.atts[b])
    BY <1>3 DEF Committed
  <2>2. \A b \in DOMAIN d.atts : /\ Committed(d.atts[b]) \in 0 .. TurnCharge
                                /\ d.atts[b].paid \in 0 .. TurnCharge
                                /\ d.atts[b].charged \in 0 .. TurnCharge
    BY <1>6, SharesAreNat DEF Solvent, AmountsFit
  <2>3. \A b \in DOMAIN d.atts : /\ e.atts[b].turn = d.atts[b].turn
                                /\ e.atts[b].paid \in 0 .. TurnCharge
                                /\ e.atts[b].charged \in 0 .. TurnCharge
    BY <1>3, <1>6, <2>2
  <2>4. Fewer(d, e)
    BY <1>3, <2>1, <2>2, <2>3 DEF Fewer
  <2>5. Backed(e)
    BY <1>3, <1>6 DEF Backed
  <2> QED
    BY <1>3, <1>6, <2>4, <2>5, SolventLess
<1> QED
  BY <1>1, <1>3, <1>4, <1>5, <1>6 DEF Result, Pays

(* A charge nobody knows is taken as paid in full (service.ts control).      *)
LEMMA FullCharge ==
  ASSUME NEW d, IsRun(d)
  PROVE  LET e == AssumeFullCharge(d)
         IN  /\ IsRun(e) /\ Kept(d, e) /\ ~ Unpaid(e)
             /\ e.turns = d.turns /\ e.state = d.state /\ e.threw = d.threw
             /\ (Solvent(d) => Solvent(e)) /\ (Backed(d) => Backed(e))
<1>1. Listed(d.atts)
  BY DEF IsRun
<1>2. PICK rows : rows = [a \in DOMAIN d.atts |->
                            IF d.atts[a].res = "retained"
                            THEN [d.atts[a] EXCEPT !.res = "settled", !.paid = TurnCharge]
                            ELSE d.atts[a]]
  OBVIOUS
<1>3. Listed(rows) /\ DOMAIN rows = DOMAIN d.atts /\ Len(rows) = Len(d.atts)
  <2>1. rows = [a \in DOMAIN d.atts |-> rows[a]]
    BY <1>2
  <2> QED
    BY <1>1, <2>1, RowsRewritten
<1>4. \A a \in DOMAIN d.atts :
        /\ IsDebateAttempt(rows[a]) /\ rows[a].turn \in DOMAIN d.turns
        /\ rows[a].job = d.atts[a].job /\ rows[a].res # "retained"
        /\ rows[a].turn = d.atts[a].turn /\ rows[a].charged = d.atts[a].charged
        /\ rows[a].res = IF d.atts[a].res = "retained" THEN "settled" ELSE d.atts[a].res
        /\ rows[a].paid = IF d.atts[a].res = "retained" THEN TurnCharge ELSE d.atts[a].paid
  <2> SUFFICES ASSUME NEW a \in DOMAIN d.atts
               PROVE  /\ IsDebateAttempt(rows[a]) /\ rows[a].turn \in DOMAIN d.turns
                      /\ rows[a].job = d.atts[a].job /\ rows[a].res # "retained"
                      /\ rows[a].turn = d.atts[a].turn /\ rows[a].charged = d.atts[a].charged
                      /\ rows[a].res = IF d.atts[a].res = "retained" THEN "settled"
                                       ELSE d.atts[a].res
                      /\ rows[a].paid = IF d.atts[a].res = "retained" THEN TurnCharge
                                        ELSE d.atts[a].paid
    OBVIOUS
  <2>1. IsDebateAttempt(d.atts[a]) /\ d.atts[a].turn \in DOMAIN d.turns
    BY DEF IsRun
  <2>2. PICK x : x = [d.atts[a] EXCEPT !.res = "settled", !.paid = TurnCharge]
    OBVIOUS
  <2>3. /\ IsDebateAttempt(x) /\ x.turn = d.atts[a].turn /\ x.job = d.atts[a].job
        /\ x.res = "settled" /\ x.paid = TurnCharge /\ x.charged = d.atts[a].charged
    BY <2>1, <2>2 DEF IsDebateAttempt
  <2>4. rows[a] = IF d.atts[a].res = "retained" THEN x ELSE d.atts[a]
    BY <1>2, <2>2
  <2> QED
    BY <2>1, <2>3, <2>4
<1>5. PICK e : e = [d EXCEPT !.atts = rows]
  OBVIOUS
<1>6. /\ e \in [state : {e.state}, synth : {e.synth}, stopAfter : {e.stopAfter},
                last : {e.last}, output : {e.output}, commands : {e.commands},
                turns : {e.turns}, atts : {e.atts}, threw : BOOLEAN]
      /\ e.atts = rows /\ e.turns = d.turns /\ e.state = d.state /\ e.threw = d.threw
  BY <1>5 DEF IsRun
<1>7. IsRun(e)
  BY <1>3, <1>4, <1>6 DEF IsRun
<1>8. Kept(d, e) /\ ~ Unpaid(e)
  BY <1>3, <1>4, <1>6 DEF Kept, Unpaid
<1>9. AssumeFullCharge(d) = e
  BY <1>2, <1>5 DEF AssumeFullCharge
<1>10. ASSUME Solvent(d)
       PROVE  Solvent(e)
  <2>1. \A a \in DOMAIN d.atts : e.atts[a] = rows[a]
    BY <1>6
  <2>2. \A a \in DOMAIN d.atts : /\ Committed(d.atts[a]) \in 0 .. TurnCharge
                                /\ d.atts[a].paid \in 0 .. TurnCharge
                                /\ d.atts[a].charged \in 0 .. TurnCharge
    BY <1>10, SharesAreNat DEF Solvent, AmountsFit
  <2>3. \A a \in DOMAIN d.atts : Committed(e.atts[a]) = Committed(d.atts[a])
    BY <1>4, <2>1 DEF Committed
  <2>4. \A a \in DOMAIN d.atts : /\ e.atts[a].turn = d.atts[a].turn
                                /\ e.atts[a].paid \in 0 .. TurnCharge
                                /\ e.atts[a].charged \in 0 .. TurnCharge
    BY <1>4, <1>10, <2>1, <2>2 DEF Solvent, AmountsFit
  <2>5. Fewer(d, e)
    BY <1>3, <1>6, <2>2, <2>3, <2>4 DEF Fewer
  <2> QED
    BY <1>7, <1>10, <2>5, SolventLess
<1>11. Backed(d) => Backed(e)
  BY <1>3, <1>4, <1>6 DEF Backed
<1> QED
  BY <1>6, <1>7, <1>8, <1>9, <1>10, <1>11

(* A job is handed to a worker (worker.ts claim).                            *)
LEMMA Leases ==
  ASSUME NEW d, IsRun(d), Orderly(d), NEW a \in DOMAIN d.atts, d.atts[a].job = "queued", NEW w,
         d.state # "none"
  PROVE  LET e == [d EXCEPT !.atts[a] = [@ EXCEPT !.job = "leased", !.by = w],
                            !.turns[d.atts[a].turn].st = "running",
                            !.state = IF @ = "queued" THEN "running" ELSE @]
         IN  Result(d, e) /\ e.threw = d.threw
<1> DEFINE t == d.atts[a].turn
<1>1. IsDebateAttempt(d.atts[a]) /\ t \in DOMAIN d.turns /\ IsDebateTurn(d.turns[t])
  BY DEF IsRun
<1>2. PICK x : x = [d.atts[a] EXCEPT !.job = "leased", !.by = w]
  OBVIOUS
<1>3. IsDebateAttempt(x) /\ x.turn = t /\ x.job = "leased" /\ x.res = d.atts[a].res
      /\ x.paid = d.atts[a].paid /\ x.charged = d.atts[a].charged
  BY <1>1, <1>2 DEF IsDebateAttempt, OpenJob
<1>4. PICK y : y = [d.turns[t] EXCEPT !.st = "running"]
  OBVIOUS
<1>5. IsDebateTurn(y) /\ y.st = "running" /\ y.actor = d.turns[t].actor
  BY <1>1, <1>4 DEF IsDebateTurn
<1>6. PICK s : s = IF d.state = "queued" THEN "running" ELSE d.state
  OBVIOUS
<1>7. PICK f : f = WithAttempt(d, a, x)
  OBVIOUS
<1>8. /\ IsRun(f) /\ f.state = d.state /\ f.threw = d.threw /\ f.turns = d.turns
      /\ DOMAIN f.atts = DOMAIN d.atts /\ Len(f.atts) = Len(d.atts)
      /\ f.atts[a] = x /\ \A b \in DOMAIN d.atts : b # a => f.atts[b] = d.atts[b]
  BY <1>1, <1>3, <1>7, AttemptSet
<1>9. PICK g : g = WithTurn(f, t, y)
  OBVIOUS
<1>10. /\ IsRun(g) /\ g.state = f.state /\ g.threw = f.threw /\ g.atts = f.atts
       /\ DOMAIN g.turns = DOMAIN f.turns
       /\ g.turns[t] = y /\ \A u \in DOMAIN f.turns : u # t => g.turns[u] = f.turns[u]
  BY <1>1, <1>5, <1>8, <1>9, TurnSet
<1>11. PICK e : e = WithState(g, s)
  OBVIOUS
<1>12. Alike(g, e) /\ e.state = s /\ e.threw = g.threw
  BY <1>10, <1>11, FieldSet
<1>13. Busy(d, a)
  BY DEF Busy, OpenJob
<1>14. \A b \in DOMAIN e.atts : Busy(e, b) => b = a
  BY <1>8, <1>10, <1>12, <1>13 DEF Orderly, Alike, Busy
<1>15. \A u \in DOMAIN e.turns : ~ Stuck(e, u)
  BY <1>5, <1>8, <1>10, <1>12, <1>13 DEF Orderly, Alike, Stuck, StoppedTurn
<1>16. ~ Unpaid(e)
  BY <1>3, <1>8, <1>10, <1>12, <1>13 DEF Orderly, Alike, Unpaid
<1>17. e.state # "none"
  BY <1>6, <1>12
<1>18. Orderly(e)
  BY <1>14, <1>15, <1>16, <1>17 DEF Orderly
<1>19. JobsMove(d, e)
  <2>1. DOMAIN d.atts = 1 .. Len(d.atts)
    BY RowAdded DEF IsRun
  <2>2. e.atts = f.atts
    BY <1>10, <1>12 DEF Alike
  <2>3. Len(e.atts) = Len(d.atts) /\ Len(d.atts) \in Nat
    BY <1>8, <2>2, RowAdded DEF IsRun
  <2>4. \A b \in 1 .. Len(d.atts) : Goes(d.atts[b].job, e.atts[b].job)
    BY <1>3, <1>8, <2>1, <2>2 DEF Goes
  <2> QED
    BY <2>3, <2>4 DEF JobsMove
<1>20. [d EXCEPT !.atts[a] = [@ EXCEPT !.job = "leased", !.by = w],
                 !.turns[d.atts[a].turn].st = "running",
                 !.state = IF @ = "queued" THEN "running" ELSE @]
         = [d EXCEPT !.atts = [d.atts EXCEPT ![a] = x], !.turns = [d.turns EXCEPT ![t] = y],
                     !.state = s]
  BY <1>2, <1>4, <1>6 DEF IsRun
<1>21. @ = e
  BY <1>7, <1>8, <1>9, <1>11 DEF WithAttempt, WithTurn, WithState, IsRun
<1>22. ASSUME Solvent(d), Backed(d)
       PROVE  Solvent(e) /\ Backed(e)
  <2>1. \A b \in DOMAIN d.atts : /\ Committed(d.atts[b]) \in 0 .. TurnCharge
                                /\ d.atts[b].paid \in 0 .. TurnCharge
                                /\ d.atts[b].charged \in 0 .. TurnCharge
                                /\ d.atts[b].turn \in DOMAIN d.turns
    BY <1>22, SharesAreNat DEF Solvent, AmountsFit, IsRun
  <2>2. e.atts = f.atts /\ e.turns = g.turns
    BY <1>10, <1>12 DEF Alike
  <2>3. \A b \in DOMAIN d.atts : Committed(e.atts[b]) = Committed(d.atts[b])
    BY <1>3, <1>8, <2>2 DEF Committed
  <2>4. \A b \in DOMAIN d.atts : /\ e.atts[b].turn = d.atts[b].turn
                                /\ e.atts[b].paid = d.atts[b].paid
                                /\ e.atts[b].charged = d.atts[b].charged
    BY <1>3, <1>8, <2>2
  <2>5. \A u \in DOMAIN d.turns : e.turns[u].actor = d.turns[u].actor
    BY <1>5, <1>8, <1>10, <2>2
  <2>8. \A b \in DOMAIN d.atts :
          e.turns[e.atts[b].turn].actor = d.turns[d.atts[b].turn].actor
    BY ONLY <2>1, <2>4, <2>5
  <2>9. \A b \in DOMAIN d.atts : /\ Committed(e.atts[b]) <= Committed(d.atts[b])
                                /\ e.atts[b].paid \in 0 .. TurnCharge
                                /\ e.atts[b].charged \in 0 .. TurnCharge
    <3>1. TurnCharge \in Nat
      BY <1>22 DEF Solvent, AmountsFit
    <3> QED
      BY ONLY <2>1, <2>3, <2>4, <3>1
  <2>6. Fewer(d, e)
    BY <1>8, <2>2, <2>8, <2>9 DEF Fewer
  <2>7. Backed(e)
    BY <1>3, <1>8, <1>22, <2>2 DEF Backed, OpenJob
  <2> QED
    BY <1>12, <1>22, <2>6, <2>7, SolventLess DEF Alike
<1> QED
  BY <1>8, <1>10, <1>12, <1>18, <1>19, <1>20, <1>21, <1>22 DEF Result, Alike, Pays

(* A cancelled run with no call under way has no job left.                   *)
LEMMA RunClosed ==
  ASSUME NEW d, IsRun(d), ~ Unpaid(d),
         \A t, u \in DOMAIN d.turns : Stuck(d, t) /\ Stuck(d, u) => t = u,
         \A a \in DOMAIN d.atts : d.atts[a].job # "leased"
  PROVE  LET e == closeRun(d)
         IN  /\ IsRun(e) /\ ~ Unpaid(e) /\ \A a \in DOMAIN e.atts : ~ Busy(e, a)
             /\ \A t, u \in DOMAIN e.turns : Stuck(e, t) /\ Stuck(e, u) => t = u
             /\ JobsMove(d, e) /\ (Solvent(d) => Solvent(e))
<1>1. Listed(d.atts) /\ Listed(d.turns) /\ DOMAIN d.atts = 1 .. Len(d.atts) /\ Len(d.atts) \in Nat
  BY RowAdded DEF IsRun
<1> DEFINE Row(x) == [x EXCEPT !.job = IF x.job = "queued" THEN "cancelled" ELSE x.job,
                               !.res = IF x.res = "active" THEN "released" ELSE x.res]
           Closed(x) == [x EXCEPT !.st = IF x.st = "queued" THEN "cancelled" ELSE x.st]
<1>2. PICK rows : rows = [a \in DOMAIN d.atts |-> Row(d.atts[a])]
  OBVIOUS
<1>3. PICK ends : ends = [t \in DOMAIN d.turns |-> Closed(d.turns[t])]
  OBVIOUS
<1>4. PICK e : e = [d EXCEPT !.atts = rows, !.turns = ends]
  OBVIOUS
<1>5. closeRun(d) = e
  BY <1>2, <1>3, <1>4 DEF closeRun, IsRun
<1>6. \A a \in DOMAIN d.atts :
        /\ IsDebateAttempt(rows[a]) /\ rows[a].turn = d.atts[a].turn
        /\ rows[a].job = IF d.atts[a].job = "queued" THEN "cancelled" ELSE d.atts[a].job
        /\ rows[a].res = IF d.atts[a].res = "active" THEN "released" ELSE d.atts[a].res
        /\ rows[a].paid = d.atts[a].paid /\ rows[a].charged = d.atts[a].charged
  <2> SUFFICES ASSUME NEW a \in DOMAIN d.atts
               PROVE  /\ IsDebateAttempt(rows[a]) /\ rows[a].turn = d.atts[a].turn
                      /\ rows[a].job = IF d.atts[a].job = "queued" THEN "cancelled"
                                       ELSE d.atts[a].job
                      /\ rows[a].res = IF d.atts[a].res = "active" THEN "released"
                                       ELSE d.atts[a].res
                      /\ rows[a].paid = d.atts[a].paid /\ rows[a].charged = d.atts[a].charged
    OBVIOUS
  <2>1. IsDebateAttempt(d.atts[a])
    BY DEF IsRun
  <2>2. PICK x : x = Row(d.atts[a])
    OBVIOUS
  <2>3. /\ IsDebateAttempt(x) /\ x.turn = d.atts[a].turn
        /\ x.job = IF d.atts[a].job = "queued" THEN "cancelled" ELSE d.atts[a].job
        /\ x.res = IF d.atts[a].res = "active" THEN "released" ELSE d.atts[a].res
        /\ x.paid = d.atts[a].paid /\ x.charged = d.atts[a].charged
    BY <2>1, <2>2 DEF IsDebateAttempt, ClosedJob
  <2> QED
    BY <1>2, <2>2, <2>3
<1>7. \A t \in DOMAIN d.turns :
        /\ IsDebateTurn(ends[t])
        /\ ends[t].st = IF d.turns[t].st = "queued" THEN "cancelled" ELSE d.turns[t].st
        /\ ends[t].actor = d.turns[t].actor
  <2> SUFFICES ASSUME NEW t \in DOMAIN d.turns
               PROVE  /\ IsDebateTurn(ends[t])
                      /\ ends[t].st = IF d.turns[t].st = "queued" THEN "cancelled"
                                      ELSE d.turns[t].st
                      /\ ends[t].actor = d.turns[t].actor
    OBVIOUS
  <2>1. IsDebateTurn(d.turns[t])
    BY DEF IsRun
  <2>2. PICK x : x = Closed(d.turns[t])
    OBVIOUS
  <2>3. /\ IsDebateTurn(x)
        /\ x.st = IF d.turns[t].st = "queued" THEN "cancelled" ELSE d.turns[t].st
        /\ x.actor = d.turns[t].actor
    BY <2>1, <2>2 DEF IsDebateTurn
  <2> QED
    BY <1>3, <2>2, <2>3
<1>8. /\ Listed(rows) /\ DOMAIN rows = DOMAIN d.atts /\ Len(rows) = Len(d.atts)
      /\ Listed(ends) /\ DOMAIN ends = DOMAIN d.turns
  <2> HIDE DEF Row, Closed
  <2>1. /\ rows = [a \in DOMAIN d.atts |-> rows[a]]
        /\ ends = [t \in DOMAIN d.turns |-> ends[t]]
    BY <1>2, <1>3
  <2> QED
    BY <1>1, <2>1, RowsRewritten
<1> HIDE DEF Row, Closed
<1>9. /\ e \in [state : {e.state}, synth : {e.synth}, stopAfter : {e.stopAfter},
                last : {e.last}, output : {e.output}, commands : {e.commands},
                turns : {e.turns}, atts : {e.atts}, threw : BOOLEAN]
      /\ e.atts = rows /\ e.turns = ends
  BY <1>4 DEF IsRun
<1>10. IsRun(e)
  <2>1. \A a \in DOMAIN e.atts : IsDebateAttempt(e.atts[a]) /\ e.atts[a].turn \in DOMAIN e.turns
    BY <1>6, <1>8, <1>9 DEF IsRun
  <2> QED
    BY <1>7, <1>8, <1>9, <2>1 DEF IsRun
<1>11. ~ Unpaid(e)
  BY <1>6, <1>8, <1>9 DEF Unpaid
<1>12. \A a \in DOMAIN e.atts : ~ Busy(e, a)
  BY <1>6, <1>8, <1>9 DEF Busy, OpenJob
<1>13. \A t \in DOMAIN e.turns : Stuck(e, t) => Stuck(d, t)
  BY <1>7, <1>8, <1>9 DEF Stuck, StoppedTurn
<1>14. JobsMove(d, e)
  <2>1. \A a \in 1 .. Len(d.atts) : Goes(d.atts[a].job, e.atts[a].job)
    BY <1>1, <1>6, <1>9 DEF Goes, ClosedJob
  <2> QED
    BY <1>1, <1>8, <1>9, <2>1 DEF JobsMove
<1>15. ASSUME Solvent(d)
       PROVE  Solvent(e)
  <2>1. \A a \in DOMAIN d.atts : /\ Committed(d.atts[a]) \in 0 .. TurnCharge
                                /\ d.atts[a].paid \in 0 .. TurnCharge
                                /\ d.atts[a].charged \in 0 .. TurnCharge
                                /\ d.atts[a].turn \in DOMAIN d.turns
    BY <1>15, SharesAreNat DEF Solvent, AmountsFit, IsRun
  <2>2. \A a \in DOMAIN d.atts : Committed(rows[a]) <= Committed(d.atts[a])
    BY <1>6, <2>1 DEF Committed
  <2>3. \A a \in DOMAIN d.atts :
          /\ e.turns[e.atts[a].turn].actor = d.turns[d.atts[a].turn].actor
          /\ e.atts[a] = rows[a]
    BY <1>6, <1>7, <1>9, <2>1
  <2>4. Fewer(d, e)
    BY <1>6, <1>8, <1>9, <2>1, <2>2, <2>3 DEF Fewer
  <2> QED
    BY <1>10, <1>15, <2>4, SolventLess
<1> QED
  BY <1>5, <1>8, <1>9, <1>10, <1>11, <1>12, <1>13, <1>14, <1>15

(* Cancelling (service.ts control).                                          *)
LEMMA Cancels ==
  ASSUME NEW d, IsRun(d), Orderly(d)
  PROVE  LET p == AssumeFullCharge(d)
             e == transitionRunState(p, "cancelling")
             f == transitionRunState(closeRun(p), "cancelled")
         IN  /\ IsRun(e) /\ Result(d, e)
             /\ Leased(d) = {} => IsRun(f) /\ Result(d, f)
<1>1. PICK p : p = AssumeFullCharge(d)
  OBVIOUS
<1>2. /\ IsRun(p) /\ Kept(d, p) /\ ~ Unpaid(p)
      /\ p.turns = d.turns /\ p.state = d.state
      /\ (Solvent(d) => Solvent(p)) /\ (Backed(d) => Backed(p))
  BY <1>1, FullCharge
<1>3. Orderly(p)
  <2>1. \A b \in DOMAIN p.atts : Busy(p, b) <=> Busy(d, b)
    BY <1>2 DEF Busy, Kept
  <2>2. \A t \in DOMAIN p.turns : Stuck(p, t) <=> Stuck(d, t)
    BY <1>2 DEF Stuck
  <2>3. p.state = "none" => p.atts = <<>>
    <3>1. Listed(p.atts)
      BY <1>2 DEF IsRun
    <3>2. p.state = "none" => Len(p.atts) = 0
      BY <1>2 DEF Orderly, Kept
    <3> QED
      BY <3>1, <3>2 DEF Listed
  <2> QED
    BY <1>2, <2>1, <2>2, <2>3 DEF Orderly, Kept
<1>4. PICK e : e = transitionRunState(p, "cancelling")
  OBVIOUS
<1>5. IsRun(e) /\ Result(d, e)
  <2>1. Alike(p, e) /\ (~ e.threw => e.state = "cancelling")
    BY <1>2, <1>4, RunTransits
  <2>2. Result(p, e)
    BY <1>2, <1>3, <2>1, AlikeResult
  <2> QED
    BY <1>2, <2>1, <2>2, KeptResult DEF Alike, Result, Pays
<1>6. ASSUME Leased(d) = {}
      PROVE  LET f == transitionRunState(closeRun(p), "cancelled")
             IN  IsRun(f) /\ Result(d, f)
  <2>1. \A a \in DOMAIN p.atts : p.atts[a].job # "leased"
    <3>1. DOMAIN d.atts = 1 .. Len(d.atts)
      BY RowAdded DEF IsRun
    <3> QED
      BY <1>2, <1>6, <3>1 DEF Leased, Attempts, Kept
  <2>2. PICK c : c = closeRun(p)
    OBVIOUS
  <2>3. /\ IsRun(c) /\ ~ Unpaid(c) /\ \A a \in DOMAIN c.atts : ~ Busy(c, a)
        /\ \A t, u \in DOMAIN c.turns : Stuck(c, t) /\ Stuck(c, u) => t = u
        /\ JobsMove(p, c) /\ (Solvent(p) => Solvent(c))
    BY <1>2, <1>3, <2>1, <2>2, RunClosed DEF Orderly
  <2>4. PICK f : f = transitionRunState(c, "cancelled")
    OBVIOUS
  <2>5. Alike(c, f) /\ (~ f.threw => f.state = "cancelled")
    BY <2>3, <2>4, RunTransits
  <2>6. ~ f.threw => Orderly(f)
    BY <2>3, <2>5 DEF Orderly, Alike, Busy, Stuck, Unpaid
  <2>7. JobsMove(p, f)
    BY <2>3, <2>5 DEF JobsMove, Alike
  <2>9. Backed(f) /\ (Solvent(p) => Solvent(f))
    <3>1. Backed(c)
      BY <2>3 DEF Backed, Busy
    <3> QED
      BY <2>3, <2>5, <3>1, AlikeSolvent
  <2>8. Result(p, f)
    BY <2>5, <2>6, <2>7, <2>9 DEF Result, Alike, Pays
  <2> QED
    BY <1>2, <2>2, <2>4, <2>5, <2>8, <2>9, KeptResult DEF Alike, Pays
<1> QED
  BY <1>1, <1>4, <1>5, <1>6

(* Resuming (service.ts control): what is queued goes on, or the turn that    *)
(* stopped is tried again; then no call of the run is under way.             *)
LEMMA Resumes ==
  ASSUME NEW d, IsRun(d), Orderly(d), NEW t, NEW n, NEW m,
         \/ /\ Queued(d) # {}
            /\ t = 0
         \/ /\ Queued(d) = {}
            /\ t \in DOMAIN d.turns /\ Stuck(d, t) /\ d.state # "none",
         NEW p, p = AssumeFullCharge(d),
         Queued(d) = {} => WithinBudget(p, d.turns[t].actor),
         NEW r, r = IF Queued(d) # {} THEN p ELSE AddAttempt(p, t, n)
  PROVE  LET e == WithCommands(WithState(r, "queued"), m)
         IN  Result(d, e) /\ e.threw = d.threw
<1>1. /\ IsRun(p) /\ Kept(d, p) /\ ~ Unpaid(p)
      /\ p.turns = d.turns /\ p.state = d.state /\ p.threw = d.threw
      /\ (Solvent(d) => Solvent(p)) /\ (Backed(d) => Backed(p))
  BY FullCharge
<1>2. /\ IsRun(r) /\ Adds(p, r) /\ ~ Unpaid(r) /\ r.threw = d.threw
      /\ \A a, b \in DOMAIN r.atts : Busy(r, a) /\ Busy(r, b) => a = b
      /\ \A u, v \in DOMAIN r.turns : Stuck(r, u) /\ Stuck(r, v) => u = v
      /\ \A a \in DOMAIN r.atts, u \in DOMAIN r.turns : ~ (Busy(r, a) /\ Stuck(r, u))
      /\ Pays(d, r)
  <2>1. CASE Queued(d) # {}
    <3>1. \A b \in DOMAIN p.atts : Busy(p, b) <=> Busy(d, b)
      BY <1>1 DEF Busy, Kept
    <3>2. \A u \in DOMAIN p.turns : Stuck(p, u) <=> Stuck(d, u)
      BY <1>1 DEF Stuck
    <3>3. r = p /\ Adds(p, p)
      BY <2>1, SameAdds
    <3> QED
      BY <1>1, <3>1, <3>2, <3>3 DEF Orderly, Kept, Pays
  <2>2. CASE Queued(d) = {}
    <3>1. t \in DOMAIN d.turns /\ Stuck(d, t) /\ d.state # "none"
      BY <2>2
    <3>2. \A b \in DOMAIN p.atts : ~ Busy(p, b)
      BY <1>1, <3>1 DEF Orderly, Busy, Kept
    <3>3. \A u \in DOMAIN p.turns : Stuck(p, u) => u = t
      BY <1>1, <3>1 DEF Orderly, Stuck
    <3>4. r = AddAttempt(p, t, n)
      BY <2>2
    <3>5. /\ IsRun(r) /\ Orderly(r) /\ Adds(p, r) /\ ~ Unpaid(r) /\ r.threw = p.threw
          /\ Backed(r) /\ (Solvent(p) /\ Room(p, p.turns[t].actor) => Solvent(r))
      BY <1>1, <3>1, <3>2, <3>3, <3>4, AttemptAdded
    <3>6. Solvent(p) => Room(p, p.turns[t].actor)
      BY <1>1, <2>2, RoomWithin DEF Solvent
    <3> QED
      BY <1>1, <3>5, <3>6 DEF Orderly, Pays
  <2> QED
    BY <2>1, <2>2
<1>3. PICK s : s = WithState(r, "queued")
  OBVIOUS
<1>4. Alike(r, s) /\ s.state = "queued" /\ s.threw = r.threw
  BY <1>2, <1>3, FieldSet
<1>5. PICK e : e = WithCommands(s, m)
  OBVIOUS
<1>6. Alike(s, e) /\ e.state = s.state /\ e.threw = s.threw
  BY <1>4, <1>5, FieldSet DEF Alike
<1>7. e.turns = r.turns /\ e.atts = r.atts /\ IsRun(e)
  BY <1>4, <1>6 DEF Alike
<1>8. Orderly(e)
  BY <1>2, <1>4, <1>6, <1>7 DEF Orderly, Busy, Stuck, Unpaid
<1>9. JobsMove(d, e)
  <2>1. Adds(p, e)
    BY <1>2, <1>7 DEF Adds
  <2> QED
    BY <1>1, <1>7, <2>1, KeptMoves
<1>10. Pays(d, e)
  BY <1>2, <1>4, <1>6, AlikeSolvent DEF Pays
<1> QED
  BY <1>2, <1>3, <1>4, <1>5, <1>6, <1>7, <1>8, <1>9, <1>10 DEF Result

(* The first attempt of a run (service.ts start).                            *)
LEMMA Starts ==
  ASSUME NEW d, IsRun(d), Orderly(d), d.state = "none", TurnCharge <= MaxCost,
         NEW synth
  PROVE  LET e == [NoRun EXCEPT !.state = "queued", !.synth = synth,
                                  !.turns = <<Turn(1, 1, 1)>>, !.atts = <<Attempt(1, 1)>>]
         IN  Result(d, e) /\ ~ e.threw
<1>1. PICK x : x = Turn(1, 1, 1)
  OBVIOUS
<1>2. PICK y : y = Attempt(1, 1)
  OBVIOUS
<1>3. /\ IsDebateTurn(x) /\ x.st = "queued"
      /\ IsDebateAttempt(y) /\ y.turn = 1 /\ y.job = "queued" /\ y.res = "active"
      /\ x.actor = 1 /\ y.paid = 0 /\ y.charged = 0
  BY <1>1, <1>2 DEF Turn, Attempt, IsDebateTurn, IsDebateAttempt, OpenJob
<1>4. PICK e : e = [NoRun EXCEPT !.state = "queued", !.synth = synth,
                                   !.turns = <<x>>, !.atts = <<y>>]
  OBVIOUS
<1>5. /\ e \in [state : {e.state}, synth : {e.synth}, stopAfter : {e.stopAfter},
                last : {e.last}, output : {e.output}, commands : {e.commands},
                turns : {e.turns}, atts : {e.atts}, threw : BOOLEAN]
      /\ e.turns = <<x>> /\ e.atts = <<y>> /\ e.state = "queued" /\ ~ e.threw
  BY <1>4 DEF NoRun
<1>6. \A z : Listed(<<z>>) /\ DOMAIN <<z>> = {1} /\ Len(<<z>>) = 1 /\ <<z>>[1] = z
  <2> SUFFICES ASSUME NEW z
               PROVE  Listed(<<z>>) /\ DOMAIN <<z>> = {1} /\ Len(<<z>>) = 1 /\ <<z>>[1] = z
    OBVIOUS
  <2>1. DOMAIN <<z>> = {1} /\ Len(<<z>>) = 1 /\ <<z>>[1] = z
    OBVIOUS
  <2>2. {<<z>>[i] : i \in DOMAIN <<z>>} = {z}
    BY <2>1
  <2>3. <<z>> \in Seq({z})
    OBVIOUS
  <2> QED
    BY <2>1, <2>2, <2>3 DEF Listed
<1>7. IsRun(e)
  BY <1>3, <1>5, <1>6 DEF IsRun
<1>8. Orderly(e)
  BY <1>3, <1>5, <1>6 DEF Orderly, Busy, Stuck, StoppedTurn, Unpaid
<1>9. JobsMove(d, e)
  <2>1. Len(d.atts) = 0
    BY DEF Orderly
  <2> QED
    BY <1>3, <1>5, <1>6, <2>1 DEF JobsMove
<1>10. ASSUME Solvent(d)
       PROVE  Solvent(e)
  <2>1. d.atts = <<>> /\ DOMAIN d.atts = {} /\ Len(d.atts) = 0
    BY DEF Orderly
  <2>2. \A one, k : Bill(d, one, k) = 0
    BY <2>1, FS_EmptySet, SumOfZeros DEF Bill
  <2>3. Room(d, 1)
    BY <1>10, <2>2 DEF Room, Cap, Solvent, AmountsFit
  <2>4. PICK n : n = 1
    OBVIOUS
  <2>5. n = Len(d.atts) + 1 /\ DOMAIN e.atts = 1 .. n /\ e.atts[n] = y /\ e.turns[1] = x
    BY <1>5, <1>6, <2>1, <2>4
  <2>6. PICK actor : actor = 1
    OBVIOUS
  <2>7. /\ Room(d, actor) /\ e.turns[e.atts[n].turn].actor = actor
        /\ e.atts[n].res = "active" /\ e.atts[n].paid = 0 /\ e.atts[n].charged = 0
    BY <1>3, <2>3, <2>5, <2>6
  <2>8. \A a \in DOMAIN d.atts :
          /\ e.atts[a] = d.atts[a]
          /\ e.turns[d.atts[a].turn].actor = d.turns[d.atts[a].turn].actor
    BY <2>1
  <2>9. IsRun(d)
    OBVIOUS
  <2> QED
    BY ONLY <1>7, <1>10, <2>5, <2>7, <2>8, <2>9, SolventMore
<1>11. Backed(e)
  BY <1>3, <1>5, <1>6 DEF Backed
<1> QED
  BY <1>1, <1>2, <1>4, <1>5, <1>7, <1>8, <1>9, <1>10, <1>11 DEF Result, Pays

(* What every step of a debate is to do.                                     *)
Sound == DebateInv' /\ JobsMove(debate, debate') /\ Pays(debate, debate')

(* A transaction commits, or leaves the run as it is.                        *)
LEMMA Commits ==
  ASSUME DebateInv, NEW e, Result(debate, e), debate' = IF e.threw THEN debate ELSE e
  PROVE  Result(debate, debate') /\ ~ debate'.threw
<1>1. JobsMove(debate, debate)
  BY SameAdds, KeptMoves DEF Kept, DebateInv
<1>2. CASE e.threw
  BY <1>1, <1>2 DEF DebateInv, Result, Pays
<1>3. CASE ~ e.threw
  BY <1>3
<1> QED
  BY <1>2, <1>3

(* The attempts that workers have in hand stay.                              *)
LEMMA HandsStay ==
  ASSUME DebateInv, IsRun(debate'), JobsMove(debate, debate')
  PROVE  DOMAIN debate.atts \subseteq DOMAIN debate'.atts
<1>1. /\ DOMAIN debate.atts = 1 .. Len(debate.atts) /\ Len(debate.atts) \in Nat
      /\ DOMAIN debate'.atts = 1 .. Len(debate'.atts)
  BY RowAdded DEF DebateInv, IsRun
<1> QED
  BY <1>1 DEF JobsMove

(* No worker moves.                                                          *)
LEMMA TicksStay ==
  ASSUME DebateInv, Result(debate, debate'), ~ debate'.threw,
         tick' = tick
  PROVE  Sound
BY HandsStay DEF Sound, DebateInv, Ticks, Result

(* One worker goes on with an attempt, or is idle again.                     *)
LEMMA TicksGo ==
  ASSUME DebateInv, Result(debate, debate'), ~ debate'.threw,
         NEW w \in Workers, NEW x, x \in [pc : {x.pc}, att : {x.att}, kind : {x.kind}],
         x.pc # "idle" => x.att \in DOMAIN debate.atts, tick' = [tick EXCEPT ![w] = x]
  PROVE  Sound
<1>1. /\ tick' = [v \in Workers |-> tick'[v]]
      /\ \A v \in Workers : tick'[v] = IF v = w THEN x ELSE tick[v]
  BY DEF DebateInv, Ticks
<1>2. \A v \in Workers :
        /\ tick'[v] \in [pc : {tick'[v].pc}, att : {tick'[v].att}, kind : {tick'[v].kind}]
        /\ tick'[v].pc # "idle" => tick'[v].att \in DOMAIN debate.atts
  BY <1>1 DEF DebateInv, Ticks
<1> QED
  BY <1>1, <1>2, HandsStay DEF Sound, DebateInv, Ticks, Result

(* A worker is idle again.                                                   *)
LEMMA TickEnds ==
  ASSUME DebateInv, Result(debate, debate'), ~ debate'.threw,
         NEW w \in Workers, Ends(w)
  PROVE  Sound
<1>1. PICK x : x = Idle
  OBVIOUS
<1>2. x \in [pc : {x.pc}, att : {x.att}, kind : {x.kind}] /\ x.pc = "idle"
  BY <1>1 DEF Idle
<1>3. tick' = [tick EXCEPT ![w] = x]
  BY <1>1 DEF Ends
<1> QED
  BY <1>2, <1>3, TicksGo

(* A step of a worker that ends its tick with a transaction.                 *)
LEMMA EndingSteps ==
  ASSUME DebateInv, NEW w \in Workers
  PROVE  /\ LoadClaimFails(w) => Sound
         /\ StopAtDeadline(w) => Sound
         /\ PrepareFails(w) => Sound
         /\ Fail(w) => Sound
         /\ Crash(w) => Sound
<1>1. IsRun(debate) /\ Orderly(debate)
  BY DEF DebateInv
<1>2. tick[w].pc # "idle" => tick[w].att \in DOMAIN debate.atts
  BY DEF DebateInv, Ticks
<1>3. ASSUME LoadClaimFails(w)
      PROVE  Sound
  <2>1. PICK e : e = failClaimPreparation(debate, w, tick[w].att)
    OBVIOUS
  <2>2. Result(debate, e)
    BY <1>1, <1>2, <1>3, <2>1, ClaimEnds DEF LoadClaimFails
  <2> QED
    BY <1>3, <2>1, <2>2, Commits, TickEnds DEF LoadClaimFails, Commit
<1>4. ASSUME StopAtDeadline(w)
      PROVE  Sound
  <2>1. PICK e : e = stopAtDeadline(debate, w, tick[w].att)
    OBVIOUS
  <2>2. Result(debate, e)
    BY <1>1, <1>2, <1>4, <2>1, ClaimEnds DEF StopAtDeadline
  <2> QED
    BY <1>4, <2>1, <2>2, Commits, TickEnds DEF StopAtDeadline, Commit
<1>5. ASSUME PrepareFails(w)
      PROVE  Sound
  <2>1. PICK e : e = fail(debate, w, tick[w].att, "rejected")
    OBVIOUS
  <2>2. Result(debate, e)
    BY <1>1, <1>2, <1>5, <2>1, Fails DEF PrepareFails
  <2> QED
    BY <1>5, <2>1, <2>2, Commits, TickEnds DEF PrepareFails, Commit
<1>6. ASSUME Fail(w)
      PROVE  Sound
  <2>1. PICK e : e = fail(debate, w, tick[w].att, tick[w].kind)
    OBVIOUS
  <2>2. Result(debate, e)
    BY <1>1, <1>2, <1>6, <2>1, Fails DEF Fail
  <2> QED
    BY <1>6, <2>1, <2>2, Commits, TickEnds DEF Fail, Commit
<1>7. ASSUME Crash(w)
      PROVE  Sound
  <2>1. JobsMove(debate, debate)
    BY <1>1, SameAdds, KeptMoves DEF Kept
  <2>2. debate' = debate
    BY <1>7 DEF Crash
  <2>3. Result(debate, debate') /\ ~ debate'.threw
    BY <2>1, <2>2 DEF DebateInv, Result, Pays
  <2> QED
    BY <1>7, <2>3, TickEnds DEF Crash
<1> QED
  BY <1>3, <1>4, <1>5, <1>6, <1>7

(* The provider is called and answers, and the answer is committed.          *)
LEMMA ProviderSteps ==
  ASSUME DebateInv, NEW w \in Workers
  PROVE  /\ RecordPromptDispatch(w) => Sound
         /\ CallProvider(w) => Sound
         /\ ProviderAnswers(w) => Sound
         /\ Complete(w) => Sound
         /\ ExtendLease(w) => Sound
<1>1. IsRun(debate) /\ Orderly(debate) /\ ~ debate.threw
  BY DEF DebateInv
<1>2. /\ tick[w].pc # "idle" => tick[w].att \in DOMAIN debate.atts
      /\ tick[w] \in [pc : {tick[w].pc}, att : {tick[w].att}, kind : {tick[w].kind}]
      /\ tick = [v \in Workers |-> tick[v]]
  BY DEF DebateInv, Ticks
<1>3. debate' = debate => Result(debate, debate') /\ ~ debate'.threw
  BY <1>1, SameAdds, KeptMoves DEF Kept, Result, Pays
<1>4. ASSUME RecordPromptDispatch(w)
      PROVE  Sound
  <2>1. PICK x : x = [tick[w] EXCEPT !.pc = "recorded"]
    OBVIOUS
  <2>2. /\ x \in [pc : {x.pc}, att : {x.att}, kind : {x.kind}]
        /\ x.att = tick[w].att
    BY <1>2, <2>1
  <2>3. tick' = [tick EXCEPT ![w] = x] /\ tick[w].pc # "idle" /\ debate' = debate
    BY <1>2, <1>4, <2>1 DEF RecordPromptDispatch
  <2> QED
    BY <1>2, <1>3, <2>2, <2>3, TicksGo
<1>5. ASSUME CallProvider(w)
      PROVE  Sound
  <2> DEFINE a == tick[w].att
  <2>1. a \in DOMAIN debate.atts
    BY <1>2, <1>5 DEF CallProvider
  <2>2. PICK charge \in 0 .. TurnCharge : debate' = [debate EXCEPT !.atts[a].charged = charge]
    BY <1>5 DEF CallProvider
  <2>3. IsDebateAttempt(debate.atts[a])
    BY <1>1, <2>1 DEF IsRun
  <2>4. PICK y : y = [debate.atts[a] EXCEPT !.charged = charge]
    OBVIOUS
  <2>5. /\ IsDebateAttempt(y) /\ y.turn = debate.atts[a].turn /\ y.job = debate.atts[a].job
        /\ y.res = debate.atts[a].res /\ y.paid = debate.atts[a].paid /\ y.charged = charge
    BY <2>3, <2>4 DEF IsDebateAttempt
  <2>6. debate' = WithAttempt(debate, a, y)
    BY <2>2, <2>4 DEF WithAttempt
  <2>7. Result(debate, debate') /\ ~ debate'.threw
    BY <1>1, <2>1, <2>5, <2>6, Touched
  <2>8. PICK x : x = [tick[w] EXCEPT !.pc = "calling"]
    OBVIOUS
  <2>9. /\ x \in [pc : {x.pc}, att : {x.att}, kind : {x.kind}]
        /\ x.att = tick[w].att
    BY <1>2, <2>8
  <2>10. tick' = [tick EXCEPT ![w] = x]
    BY <1>2, <1>5, <2>8 DEF CallProvider
  <2> QED
    BY <2>1, <2>7, <2>9, <2>10, TicksGo DEF Result
<1>6. ASSUME ProviderAnswers(w)
      PROVE  Sound
  <2>1. PICK kind : tick' = [tick EXCEPT ![w] = [@ EXCEPT !.pc = "answered", !.kind = kind]]
    BY <1>6 DEF ProviderAnswers
  <2>2. PICK x : x = [tick[w] EXCEPT !.pc = "answered", !.kind = kind]
    OBVIOUS
  <2>3. /\ x \in [pc : {x.pc}, att : {x.att}, kind : {x.kind}]
        /\ x.att = tick[w].att
    BY <1>2, <2>2
  <2>4. tick' = [tick EXCEPT ![w] = x] /\ tick[w].pc # "idle" /\ debate' = debate
    BY <1>2, <1>6, <2>1, <2>2 DEF ProviderAnswers
  <2> QED
    BY <1>2, <1>3, <2>3, <2>4, TicksGo
<1>7. ASSUME Complete(w)
      PROVE  Sound
  <2>1. PICK semantic \in BOOLEAN :
          LET e == complete(debate, w, tick[w].att, overdue, semantic)
          IN  /\ Commit(e)
              /\ tick' = [tick EXCEPT ![w] = IF e.threw THEN [@ EXCEPT !.kind = "lost"]
                                             ELSE Idle]
    BY <1>7 DEF Complete
  <2>2. tick[w].pc = "answered" /\ tick[w].att \in DOMAIN debate.atts
    BY <1>2, <1>7 DEF Complete
  <2>3. PICK e : e = complete(debate, w, tick[w].att, overdue, semantic)
    OBVIOUS
  <2>4. Result(debate, e)
    BY <1>1, <2>2, <2>3, Completes
  <2>5. /\ debate' = IF e.threw THEN debate ELSE e
        /\ tick' = [tick EXCEPT ![w] = IF e.threw THEN [@ EXCEPT !.kind = "lost"] ELSE Idle]
    BY <2>1, <2>3 DEF Commit
  <2>6. Result(debate, debate') /\ ~ debate'.threw
    BY <2>4, <2>5, Commits
  <2>7. CASE ~ e.threw
    BY <2>5, <2>6, <2>7, TickEnds DEF Ends
  <2>8. CASE e.threw
    <3>1. PICK x : x = [tick[w] EXCEPT !.kind = "lost"]
      OBVIOUS
    <3>2. /\ x \in [pc : {x.pc}, att : {x.att}, kind : {x.kind}]
          /\ x.att = tick[w].att
      BY <1>2, <3>1
    <3>3. tick' = [tick EXCEPT ![w] = x]
      BY <2>5, <2>8, <3>1
    <3> QED
      BY <2>2, <2>6, <3>2, <3>3, TicksGo
  <2> QED
    BY <2>7, <2>8
<1>8. ASSUME ExtendLease(w)
      PROVE  Sound
  <2> DEFINE a == tick[w].att
  <2>1. a \in DOMAIN debate.atts /\ tick' = tick
        /\ debate' = [debate EXCEPT !.atts[a].late = FALSE]
    BY <1>2, <1>8 DEF ExtendLease
  <2>2. IsDebateAttempt(debate.atts[a])
    BY <1>1, <2>1 DEF IsRun
  <2>3. PICK y : y = [debate.atts[a] EXCEPT !.late = FALSE]
    OBVIOUS
  <2>4. /\ IsDebateAttempt(y) /\ y.turn = debate.atts[a].turn /\ y.job = debate.atts[a].job
        /\ y.res = debate.atts[a].res /\ y.paid = debate.atts[a].paid
        /\ Solvent(debate) => y.charged \in 0 .. TurnCharge
    BY <2>1, <2>2, <2>3 DEF IsDebateAttempt, Solvent, AmountsFit
  <2>5. debate' = WithAttempt(debate, a, y)
    BY <2>1, <2>3 DEF WithAttempt
  <2>6. Result(debate, debate') /\ ~ debate'.threw
    BY <1>1, <2>1, <2>4, <2>5, Touched
  <2> QED
    BY <2>1, <2>6, TicksStay DEF Result
<1> QED
  BY <1>4, <1>5, <1>6, <1>7, <1>8

(* Claiming: an expired lease is buried, or a queued job leased.             *)
LEMMA ClaimSteps ==
  ASSUME DebateInv, NEW w \in Workers, Claim(w)
  PROVE  Sound
<1>1. /\ IsRun(debate) /\ Orderly(debate) /\ ~ debate.threw
      /\ DOMAIN debate.atts = 1 .. Len(debate.atts)
  BY RowAdded DEF DebateInv, IsRun
<1>2. ASSUME NEW a \in Leased(debate), Commit(abandon(debate, a)), UNCHANGED tick
      PROVE  Sound
  <2>1. a \in DOMAIN debate.atts /\ debate.atts[a].job = "leased"
    BY <1>1 DEF Leased, Attempts
  <2>2. PICK e : e = abandon(debate, a)
    OBVIOUS
  <2>3. Result(debate, e)
    BY <1>1, <2>1, <2>2, Abandons
  <2> QED
    BY <1>2, <2>2, <2>3, Commits, TicksStay DEF Commit
<1>3. ASSUME debate.state \in {"queued", "running", "finalizing"},
             NEW a \in Queued(debate),
             debate' = [debate EXCEPT
                !.atts[a] = [@ EXCEPT !.job = "leased", !.by = w],
                !.turns[debate.atts[a].turn].st = "running",
                !.state = IF @ = "queued" THEN "running" ELSE @],
             tick' = [tick EXCEPT ![w] = [Idle EXCEPT !.pc = "claimed", !.att = a]]
      PROVE  Sound
  <2>1. a \in DOMAIN debate.atts /\ debate.atts[a].job = "queued" /\ debate.state # "none"
    BY <1>1, <1>3 DEF Queued, Attempts
  <2>2. Result(debate, debate') /\ ~ debate'.threw
    BY <1>1, <1>3, <2>1, Leases
  <2>3. PICK x : x = [Idle EXCEPT !.pc = "claimed", !.att = a]
    OBVIOUS
  <2>4. x \in [pc : {x.pc}, att : {x.att}, kind : {x.kind}] /\ x.att = a
    BY <2>3 DEF Idle
  <2> QED
    BY <1>3, <2>1, <2>2, <2>3, <2>4, TicksGo DEF Result
<1> QED
  BY <1>2, <1>3 DEF Claim

(* Time passes: a lease runs out, the deadline comes.                        *)
LEMMA TimeSteps ==
  ASSUME DebateInv
  PROVE  /\ LeaseRunsOut => Sound
         /\ DeadlinePasses => Sound
<1>1. /\ IsRun(debate) /\ Orderly(debate) /\ ~ debate.threw
      /\ DOMAIN debate.atts = 1 .. Len(debate.atts)
  BY RowAdded DEF DebateInv, IsRun
<1>2. ASSUME LeaseRunsOut
      PROVE  Sound
  <2>1. PICK a \in Leased(debate) : debate' = [debate EXCEPT !.atts[a].late = TRUE]
    BY <1>2 DEF LeaseRunsOut
  <2>2. a \in DOMAIN debate.atts /\ tick' = tick
    BY <1>1, <1>2 DEF LeaseRunsOut, Leased, Attempts
  <2>3. IsDebateAttempt(debate.atts[a])
    BY <1>1, <2>2 DEF IsRun
  <2>4. PICK y : y = [debate.atts[a] EXCEPT !.late = TRUE]
    OBVIOUS
  <2>5. /\ IsDebateAttempt(y) /\ y.turn = debate.atts[a].turn /\ y.job = debate.atts[a].job
        /\ y.res = debate.atts[a].res /\ y.paid = debate.atts[a].paid
        /\ Solvent(debate) => y.charged \in 0 .. TurnCharge
    BY <2>2, <2>3, <2>4 DEF IsDebateAttempt, Solvent, AmountsFit
  <2>6. debate' = WithAttempt(debate, a, y)
    BY <2>1, <2>4 DEF WithAttempt
  <2>7. Result(debate, debate') /\ ~ debate'.threw
    BY <1>1, <2>2, <2>5, <2>6, Touched
  <2> QED
    BY <2>2, <2>7, TicksStay DEF Result
<1>3. ASSUME DeadlinePasses
      PROVE  Sound
  <2>1. JobsMove(debate, debate)
    BY <1>1, SameAdds, KeptMoves DEF Kept
  <2>2. debate' = debate /\ tick' = tick
    BY <1>3 DEF DeadlinePasses
  <2>3. Result(debate, debate') /\ ~ debate'.threw
    BY <1>1, <2>1, <2>2 DEF Result, Pays
  <2> QED
    BY <2>2, <2>3, TicksStay
<1> QED
  BY <1>2, <1>3

(* A command of the human that is counted.                                   *)
LEMMA Commands ==
  ASSUME DebateInv, NEW e, IsRun(e), Result(debate, e), Commanded(e), tick' = tick
  PROVE  Sound
<1>1. PICK n : n = e.commands + 1
  OBVIOUS
<1>2. PICK f : f = WithCommands(e, n)
  OBVIOUS
<1>3. Result(debate, f)
  BY <1>2, CommandCounted
<1>4. debate' = IF f.threw THEN debate ELSE f
  BY <1>1, <1>2 DEF Commanded, Commit, WithCommands
<1> QED
  BY <1>3, <1>4, Commits, TicksStay

(* The human's commands (service.ts control).                                *)
LEMMA HumanSteps ==
  ASSUME DebateInv
  PROVE  /\ Start => Sound
         /\ Pause => Sound
         /\ Resume => Sound
         /\ Cancel => Sound
         /\ StopAfter => Sound
         /\ Intervene => Sound
<1>1. /\ IsRun(debate) /\ Orderly(debate) /\ ~ debate.threw
      /\ DOMAIN debate.atts = 1 .. Len(debate.atts)
  BY RowAdded DEF DebateInv, IsRun
<1>2. ASSUME Start
      PROVE  Sound
  <2>1. PICK synth \in BOOLEAN :
          debate' = [NoRun EXCEPT !.state = "queued", !.synth = synth,
                                    !.turns = <<Turn(1, 1, 1)>>, !.atts = <<Attempt(1, 1)>>]
    BY <1>2 DEF Start
  <2>2. Result(debate, debate') /\ ~ debate'.threw
    BY <1>1, <1>2, <2>1, Starts DEF Start
  <2> QED
    BY <1>2, <2>2, TicksStay DEF Start, Result
<1>3. ASSUME Pause
      PROVE  Sound
  <2>1. PICK to : to = IF debate.state = "running" THEN "pausing" ELSE "paused"
    OBVIOUS
  <2>2. PICK e : e = transitionRunState(debate, to)
    OBVIOUS
  <2>3. Alike(debate, e) /\ (~ e.threw => e.state = to)
    BY <1>1, <2>2, RunTransits
  <2>4. Result(debate, e)
    BY <1>1, <2>1, <2>3, AlikeResult DEF Orderly
  <2>5. Commanded(e) /\ tick' = tick
    BY <1>3, <2>1, <2>2 DEF Pause
  <2> QED
    BY <2>3, <2>4, <2>5, Commands DEF Alike
<1>4. ASSUME Resume
      PROVE  Sound
  <2> DEFINE stopped == {t \in DOMAIN debate.turns : debate.turns[t].st \in {"failed", "expired"}}
             t == IF Queued(debate) # {} THEN 0 ELSE Max(stopped)
             p == AssumeFullCharge(debate)
  <2>1. PICK n : debate' =
          [(IF Queued(debate) # {} THEN p ELSE AddAttempt(p, Max(stopped), n))
             EXCEPT !.state = "queued", !.commands = @ + 1]
    BY <1>4 DEF Resume
  <2>2. Queued(debate) = {} => stopped # {} /\ debate.state # "none"
    BY <1>4 DEF Resume
  <2>3. Queued(debate) = {} => t \in DOMAIN debate.turns /\ Stuck(debate, t)
    <3>1. SUFFICES ASSUME Queued(debate) = {}
                   PROVE  t \in DOMAIN debate.turns /\ Stuck(debate, t)
      OBVIOUS
    <3>2. PICK u \in stopped : TRUE
      BY <2>2, <3>1
    <3>3. \A v \in stopped : v = u
      BY <1>1, <3>2 DEF Orderly, Stuck, StoppedTurn
    <3>4. u \in Nat
      BY <1>1, <3>2, RowAdded DEF IsRun
    <3>5. Max(stopped) \in stopped
      BY <3>2, <3>3, <3>4 DEF Max
    <3> QED
      BY <3>1, <3>5 DEF Stuck, StoppedTurn
  <2>4. PICK r : r = IF Queued(debate) # {} THEN p ELSE AddAttempt(p, t, n)
    OBVIOUS
  <2>5. debate' = [r EXCEPT !.state = "queued", !.commands = @ + 1]
    BY <2>1, <2>4
  <2>6. PICK m : m = [r EXCEPT !.state = "queued"].commands + 1
    OBVIOUS
  <2>7. debate' = WithCommands(WithState(r, "queued"), m)
    BY <2>5, <2>6 DEF WithCommands, WithState
  <2>10. Queued(debate) = {} => WithinBudget(p, debate.turns[t].actor)
    BY <1>4 DEF Resume
  <2>8. \/ Queued(debate) # {} /\ t = 0
        \/ /\ Queued(debate) = {}
           /\ t \in DOMAIN debate.turns /\ Stuck(debate, t) /\ debate.state # "none"
    BY <2>2, <2>3
  <2>9. Result(debate, debate') /\ ~ debate'.threw
    <3> HIDE DEF t, stopped
    <3> QED
      BY <1>1, <2>4, <2>7, <2>8, <2>10, Resumes
  <2> QED
    BY <1>4, <2>9, TicksStay DEF Resume, Result
<1>5. ASSUME Cancel
      PROVE  Sound
  <2>1. PICK p : p = AssumeFullCharge(debate)
    OBVIOUS
  <2>2. PICK e : e = IF Leased(debate) # {} THEN transitionRunState(p, "cancelling")
                     ELSE transitionRunState(closeRun(p), "cancelled")
    OBVIOUS
  <2>3. IsRun(e) /\ Result(debate, e)
    BY <1>1, <2>1, <2>2, Cancels
  <2>4. Commanded(e) /\ tick' = tick
    BY <1>5, <2>1, <2>2 DEF Cancel
  <2> QED
    BY <2>3, <2>4, Commands
<1>6. ASSUME StopAfter
      PROVE  Sound
  <2>1. PICK x : Commanded([debate EXCEPT !.stopAfter = x]) /\ tick' = tick
    BY <1>6 DEF StopAfter
  <2>2. PICK e : e = WithStop(debate, x)
    OBVIOUS
  <2>3. IsRun(e) /\ Result(debate, e)
    BY <1>1, <2>2, FieldSet, AlikeResult DEF Alike
  <2>4. Commanded(e)
    BY <2>1, <2>2 DEF WithStop
  <2> QED
    BY <2>1, <2>3, <2>4, Commands
<1>7. ASSUME Intervene
      PROVE  Sound
  <2>1. PICK e : e = WithLast(debate, "human")
    OBVIOUS
  <2>2. IsRun(e) /\ Result(debate, e)
    BY <1>1, <2>1, FieldSet, AlikeResult DEF Alike
  <2>3. Commanded(e) /\ tick' = tick
    BY <1>7, <2>1 DEF Intervene, WithLast
  <2> QED
    BY <2>2, <2>3, Commands
<1> QED
  BY <1>2, <1>3, <1>4, <1>5, <1>6, <1>7

(* Every step of a debate keeps its invariant and moves its jobs.            *)
LEMMA DebateSound ==
  ASSUME DebateInv, Next \/ UNCHANGED debateVars
  PROVE  Sound
<1>1. ASSUME NEW w \in Workers, Tick(w)
      PROVE  Sound
  BY <1>1, ClaimSteps, EndingSteps, ProviderSteps DEF Tick
<1>2. ASSUME UNCHANGED debateVars
      PROVE  Sound
  <2>1. JobsMove(debate, debate)
    BY SameAdds, KeptMoves DEF Kept, DebateInv
  <2>2. debate' = debate /\ tick' = tick
    BY <1>2 DEF debateVars
  <2>3. Result(debate, debate') /\ ~ debate'.threw
    BY <2>1, <2>2 DEF DebateInv, Result, Pays
  <2> QED
    BY <2>2, <2>3, TicksStay
<1> QED
  BY <1>1, <1>2, TimeSteps, HumanSteps DEF Next


(* The invariant holds before the run is created,                            *)
LEMMA DebateInit == Init => DebateInv
<1> SUFFICES ASSUME Init
             PROVE  DebateInv
  OBVIOUS
<1>1. debate = NoRun /\ tick = [w \in Workers |-> Idle]
  BY DEF Init
<1>2. /\ debate.atts = <<>> /\ debate.turns = <<>> /\ debate.state = "none"
      /\ ~ debate.threw
      /\ debate \in [state : {debate.state}, synth : {debate.synth},
                     stopAfter : {debate.stopAfter}, last : {debate.last},
                     output : {debate.output}, commands : {debate.commands},
                     turns : {debate.turns}, atts : {debate.atts}, threw : BOOLEAN]
  BY <1>1 DEF NoRun
<1>3. IsRun(debate)
  BY <1>2 DEF IsRun, Listed
<1>4. Orderly(debate)
  BY <1>2 DEF Orderly, Busy, Stuck, Unpaid
<1>5. Ticks
  BY <1>1 DEF Ticks, Idle
<1> QED
  BY <1>2, <1>3, <1>4, <1>5 DEF DebateInv

(* and is kept.                                                              *)
LEMMA DebateHolds == Spec => []DebateInv
<1>1. DebateInv /\ [Next]_debateVars => DebateInv'
  BY DebateSound DEF Sound
<1> QED
  BY <1>1, DebateInit, PTL DEF Spec

(* With it, a charge nobody knows leaves nothing to call.                    *)
LEMMA UnpaidStops == DebateInv => AmbiguityStopsTheRun
<1> SUFFICES ASSUME DebateInv
             PROVE  AmbiguityStopsTheRun
  OBVIOUS
<1>1. IsRun(debate) /\ Orderly(debate) /\ DOMAIN debate.atts = 1 .. Len(debate.atts)
  BY RowAdded DEF DebateInv, IsRun
<1> QED
  BY <1>1 DEF AmbiguityStopsTheRun, Attempts, Queued, Leased, Orderly, Unpaid, Busy, OpenJob

(* However the workers' calls, expired leases, retries, the deadline and the *)
(* human's commands meet (worker.ts, service.ts), a charge that nobody knows  *)
(* keeps the run paused with no job queued or under way, for any number of   *)
(* workers, actors, rounds and attempts and any budget.                      *)
THEOREM AmbiguityStops == Spec => []AmbiguityStopsTheRun
BY DebateHolds, UnpaidStops, PTL

(* With it, the run and its actors stay within their budgets.                *)
LEMMA SolventBudgets == DebateInv /\ Solvent(debate) => DebateBudgetHeld
<1> SUFFICES ASSUME DebateInv, Solvent(debate)
             PROVE  DebateBudgetHeld
  OBVIOUS
<1>1. IsRun(debate) /\ AmountsFit(debate)
  BY DEF DebateInv, Solvent
<1>2. \A actor : /\ CommittedCost(debate) = Bill(debate, FALSE, actor)
                 /\ CommittedOf(debate, OfActor(debate, actor)) = Bill(debate, TRUE, actor)
  BY <1>1, BillsAreCommitted
<1>3. \A one \in BOOLEAN, actor \in Actors : Bill(debate, one, actor) <= Cap(one)
  BY DEF Solvent
<1>4. CommittedCost(debate) <= MaxCost
  BY <1>2, <1>3 DEF Actors, Cap
<1>5. \A actor \in 0 .. RoundSize :
        CommittedOf(debate, OfActor(debate, actor)) <= ActorBudget
  BY <1>2, <1>3 DEF Actors, Cap
<1> QED
  BY <1>4, <1>5 DEF DebateBudgetHeld

(* Before a run is created nothing is charged.                               *)
LEMMA NothingCharged ==
  ASSUME TurnCharge \in Nat, MaxCost \in Nat, ActorBudget \in Nat,
         TurnCharge <= ActorBudget, debate.atts = <<>>
  PROVE  Solvent(debate) /\ Backed(debate)
<1>1. DOMAIN debate.atts = {}
  OBVIOUS
<1>2. \A one, k : Bill(debate, one, k) = 0
  BY <1>1, FS_EmptySet, SumOfZeros DEF Bill
<1>3. Solvent(debate)
  BY <1>1, <1>2 DEF Solvent, AmountsFit, Cap
<1> QED
  BY <1>1, <1>3 DEF Backed

(* However many attempts, retries, expired leases, resumes and cancellations *)
(* a debate goes through (worker.ts scheduleTurn, service.ts control), what   *)
(* is settled, retained as unknown and reserved for calls under way stays    *)
(* within the budget of the run and of each actor. An actor can pay for one  *)
(* turn at least.                                                            *)
THEOREM DebateBudgets ==
  ASSUME TurnCharge \in Nat, MaxCost \in Nat, ActorBudget \in Nat, TurnCharge <= ActorBudget
  PROVE  Spec => []DebateBudgetHeld
<1> DEFINE Inv == DebateInv /\ Solvent(debate) /\ Backed(debate)
<1>1. Init => Inv
  BY DebateInit, NothingCharged DEF Init, NoRun
<1>2. Inv /\ [Next]_debateVars => Inv'
  BY DebateSound DEF Sound, Pays
<1>3. Inv => DebateBudgetHeld
  BY SolventBudgets
<1> QED
  BY <1>1, <1>2, <1>3, PTL DEF Spec

(* A step of a debate is one of leased work.                                 *)
LEMMA JobsStep ==
  ASSUME DebateInv, Next \/ UNCHANGED debateVars
  PROVE  [Jobs!Next]_[i \in JobIds |-> JobState(i)]
<1> DEFINE work == [i \in JobIds |-> JobState(i)]
<1> SUFFICES ASSUME work' # work
             PROVE  Jobs!Next
  OBVIOUS
<1>1. Sound
  BY DebateSound
<1>2. /\ JobsMove(debate, debate')
      /\ \A a, b \in DOMAIN debate.atts : Busy(debate, a) /\ Busy(debate, b) => a = b
      /\ DOMAIN debate.atts = 1 .. Len(debate.atts) /\ Len(debate.atts) \in Nat
      /\ DOMAIN debate'.atts = 1 .. Len(debate'.atts)
  BY <1>1, RowAdded DEF Sound, DebateInv, Orderly, IsRun
<1>3. \A i \in JobIds : work[i] = JobState(i) /\ work'[i] = JobState(i)'
  OBVIOUS
<1>4. work' \in [JobIds -> Jobs!WorkStates]
  <2>1. \A i \in JobIds : JobState(i)' \in Jobs!WorkStates
    BY DEF JobState, Jobs!WorkStates
  <2> QED
    BY <1>1, <2>1
<1>5. ASSUME NEW i \in JobIds, work'[i] # work[i]
      PROVE  /\ Jobs!May(i, work'[i])
             /\ work'[i] = "queued" => i = Len(debate.atts) + 1
             /\ work'[i] \in {"held", "applied"} => Busy(debate, i)
  <2>1. CASE i \in DOMAIN debate.atts
    <3>1. Goes(debate.atts[i].job, debate'.atts[i].job) /\ i \in Attempts(debate)
          /\ i \in Attempts(debate')
      BY <1>2, <2>1 DEF JobsMove, Attempts
    <3>2. /\ JobState(i) = CASE debate.atts[i].job = "queued"    -> "queued"
                               [] debate.atts[i].job = "leased"    -> "held"
                               [] debate.atts[i].job = "succeeded" -> "applied"
                               [] OTHER                            -> "dropped"
          /\ JobState(i)' = CASE debate'.atts[i].job = "queued"    -> "queued"
                                [] debate'.atts[i].job = "leased"    -> "held"
                                [] debate'.atts[i].job = "succeeded" -> "applied"
                                [] OTHER                             -> "dropped"
      BY <3>1 DEF JobState
    <3>3. \/ JobState(i)' = JobState(i)
          \/ /\ JobState(i) = "queued" /\ JobState(i)' \in {"held", "dropped"}
             /\ Busy(debate, i)
          \/ /\ JobState(i) = "held" /\ JobState(i)' \in {"applied", "dropped"}
             /\ Busy(debate, i)
      BY <2>1, <3>1, <3>2 DEF Goes, ClosedJob, Busy, OpenJob
    <3> QED
      BY <1>1, <1>5, <3>3 DEF Jobs!May, Jobs!Closed
  <2>2. CASE i \notin DOMAIN debate.atts
    <3>1. i \notin Attempts(debate) /\ JobState(i) = "absent"
      BY <1>2, <2>2 DEF Attempts, JobState
    <3>2. i \in Attempts(debate')
      BY <1>3, <1>5, <3>1 DEF JobState
    <3>3. i = Len(debate.atts) + 1 /\ debate'.atts[i].job = "queued"
      BY <1>2, <3>1, <3>2 DEF Attempts, JobsMove
    <3>4. JobState(i)' = "queued"
      BY <3>2, <3>3 DEF JobState
    <3> HIDE DEF work
    <3> QED
      BY <1>3, <3>1, <3>3, <3>4 DEF Jobs!May
  <2> QED
    BY <2>1, <2>2
<1>6. \A i, j \in JobIds :
        work'[i] # work[i] /\ work'[j] # work[j] /\ work'[i] = work'[j]
          /\ work'[i] \in {"applied", "held", "queued"} => i = j
  <2> HIDE DEF work
  <2> QED
    BY <1>2, <1>5 DEF Busy
<1> QED
  BY <1>4, <1>5, <1>6 DEF Jobs!Next, Jobs!Step, Jobs!Moved

(* The attempts of a debate are leased work: each is queued once, held by    *)
(* one worker and closed once, with its result or without, and one           *)
(* transaction closes one and queues the next at most (worker.ts claim,      *)
(* complete, fail, abandon), for any number of workers and attempts.         *)
THEOREM DebateJobsLeased == Spec => DebateJobsAreLeasedWork
<1>1. Init => Jobs!Init
  BY DEF Init, NoRun, Jobs!Init, JobState, Attempts
<1>2. DebateInv /\ [Next]_debateVars => [Jobs!Next]_[i \in JobIds |-> JobState(i)]
  BY JobsStep
<1> QED
  BY <1>1, <1>2, DebateHolds, PTL DEF Spec, DebateJobsAreLeasedWork, Jobs!Spec

-----------------------------------------------------------------------------
(* The planning run                                                          *)

CONSTANTS PlanRounds,   \* review rounds of a planning run
          MaxModify,    \* bound: decisions that send it back
          PlanFaults    \* bound: restarts, deadlines and failed commits

VARIABLES plan,         \* the planning_runs row
          exec,         \* exec[w]: an execute() or kickoff call of the process
          late,         \* the loops the deadline gave up on and nobody awaits
          modified,     \* decisions to modify so far
          faults        \* faults injected

P == INSTANCE PlanningRuns WITH MaxRounds <- PlanRounds, MaxFaults <- PlanFaults, run <- plan

PlanStatuses == P!Working \cup P!Decidable \cup {P!None, "queued", "approved", "rejected", "failed"}
PlanCalls == [pc : P!Looping \cup {"idle", "kickoff"}, token : Nat, round : Nat]

PlanRows == [mode : {P!None, "planned", "quick"}, status : PlanStatuses, round : Nat,
         token : Nat, claims : Nat, result : BOOLEAN,
         kickoff : {P!None, "pending", "in_progress", "completed"}, retryAt : BOOLEAN]

(* The type of each variable.                                                *)
PlanTypes ==
  /\ plan \in PlanRows
  /\ exec \in [Workers -> PlanCalls]
  /\ late \subseteq PlanCalls

(* Tokens are numbered by the claims: no two calls have the same one, and    *)
(* the loops nobody awaits do not have the row's.                            *)
PlanTokens ==
  /\ plan.token <= plan.claims
  /\ \A w \in Workers :
       /\ exec[w].token <= plan.claims
       /\ exec[w].pc = "idle" <=> exec[w].token = 0
       /\ \A x \in Workers : exec[w].token = exec[x].token /\ exec[w].token # 0 => w = x
  /\ \A e \in late : e.token <= plan.claims /\ e.token # 0 /\ e.token # plan.token

(* The row has a token exactly while a loop or a kickoff works on it, and    *)
(* the call that holds the token is of that kind.                            *)
PlanHolder ==
  /\ plan.kickoff # P!None => plan.status = "approved"
  /\ plan.token # 0 => plan.status \in P!Working \/ plan.kickoff = "in_progress"
  /\ plan.status \in P!Working \/ plan.kickoff = "in_progress"
       => \E w \in Workers : exec[w].pc # "idle" /\ exec[w].token = plan.token
  /\ \A w \in Workers : exec[w].token = plan.token =>
       /\ exec[w].pc \in P!Looping => plan.status \in P!Working
       /\ exec[w].pc = "kickoff" => plan.kickoff = "in_progress"

PlanInv == PlanTypes /\ PlanTokens /\ PlanHolder

-----------------------------------------------------------------------------
(* A new claim has a token nobody has.                                       *)
LEMMA ClaimKept ==
  ASSUME PlanInv, NEW w \in Workers, NEW c \in PlanCalls, NEW r,
         exec[w].pc = "idle", c.pc # "idle", c.token = plan.claims + 1,
         r.token = plan.claims + 1, r.claims = plan.claims + 1,
         r.kickoff # P!None => r.status = "approved",
         r.status \in P!Working \/ r.kickoff = "in_progress",
         c.pc \in P!Looping => r.status \in P!Working,
         c.pc = "kickoff" => r.kickoff = "in_progress",
         plan' = r,
         exec' = [exec EXCEPT ![w] = c],
         late' = late
  PROVE  PlanTokens' /\ PlanHolder' /\ exec' \in [Workers -> PlanCalls]
<1> DEFINE n == plan.claims + 1
<1>0. /\ plan.claims \in Nat /\ plan.token \in Nat /\ n \in Nat /\ n # 0
      /\ exec \in [Workers -> PlanCalls] /\ late \subseteq PlanCalls
      /\ \A x \in Workers : exec[x].token \in Nat /\ exec[x].token < n
      /\ \A e \in late : e.token \in Nat /\ e.token < n /\ e.token # 0
  BY DEF PlanInv, PlanTypes, PlanTokens, PlanCalls, PlanRows
<1>1. exec' \in [Workers -> PlanCalls]
  BY <1>0 DEF PlanCalls
<1>2. /\ exec'[w].token = n /\ exec'[w] = c
      /\ \A x \in Workers : x # w => exec'[x] = exec[x]
  BY <1>0 DEF P!Looping
<1>3. plan'.token = n /\ plan'.claims = n
  OBVIOUS
<1> HIDE DEF n
<1>4. PlanTokens'
  BY <1>0, <1>2, <1>3 DEF PlanTokens, PlanInv
<1>5. \A x \in Workers : exec'[x].token = plan'.token => x = w
  BY <1>0, <1>2, <1>3
<1>6. PlanHolder'
  BY <1>2, <1>3, <1>5 DEF PlanHolder
<1> QED
  BY <1>1, <1>4, <1>6

(* A call that ends writes a row without a token, if it holds the row, and   *)
(* nothing otherwise.                                                        *)
LEMMA EndKept ==
  ASSUME PlanInv, NEW w \in Workers, NEW r, exec[w].pc # "idle",
         r.token = 0, r.claims = plan.claims,
         P!Owns(w) => /\ r.kickoff # P!None => r.status = "approved"
                    /\ ~(r.status \in P!Working) /\ r.kickoff # "in_progress",
         P!Write(w, r), P!Done(w),
         late' \subseteq late \cup {exec[w]}
  PROVE  PlanTokens' /\ PlanHolder' /\ exec' \in [Workers -> PlanCalls] /\ late' \subseteq PlanCalls
<1>0. /\ plan.claims \in Nat /\ plan.token \in Nat
      /\ exec \in [Workers -> PlanCalls] /\ late \subseteq PlanCalls
      /\ exec[w] \in PlanCalls /\ exec[w].token # 0 /\ exec[w].token <= plan.claims
      /\ P!NoExec \in PlanCalls
  BY DEF PlanInv, PlanTypes, PlanTokens, PlanCalls, PlanRows, P!NoExec
<1>1. exec' \in [Workers -> PlanCalls] /\ late' \subseteq PlanCalls
  BY <1>0 DEF P!Done
<1>2. /\ exec'[w] = P!NoExec
      /\ \A x \in Workers : x # w => exec'[x] = exec[x]
  BY <1>0 DEF P!Done
<1>3. P!NoExec.pc = "idle" /\ P!NoExec.token = 0
  BY DEF P!NoExec
<1>4. CASE P!Owns(w)
  <2>1. plan' = r /\ plan'.token = 0 /\ plan'.claims = plan.claims
    BY <1>4 DEF P!Write
  <2>2. PlanTokens'
    BY <1>0, <1>2, <1>3, <2>1 DEF PlanTokens, PlanInv
  <2>3. PlanHolder'
    BY <1>0, <1>2, <1>3, <1>4, <2>1, <2>2 DEF PlanHolder, PlanTokens, P!Looping
  <2> QED
    BY <1>1, <2>2, <2>3
<1>5. CASE ~P!Owns(w)
  <2>1. plan' = plan /\ exec[w].token # plan.token
    BY <1>5 DEF P!Write, P!Owns
  <2>2. PlanTokens'
    BY <1>0, <1>2, <1>3, <2>1 DEF PlanTokens, PlanInv
  <2>3. PlanHolder'
    BY <1>0, <1>2, <1>3, <2>1 DEF PlanHolder, PlanInv, P!Looping
  <2> QED
    BY <1>1, <2>2, <2>3
<1> QED
  BY <1>4, <1>5

(* A round that is reported goes on in the same call, under the same token.  *)
LEMMA ReportTyped ==
  ASSUME NEW e \in PlanCalls, P!MayReport(e)
  PROVE  /\ P!Report(e).status \in P!Working /\ P!Report(e).round \in Nat
         /\ P!Report(e).pc \in P!Looping
         /\ P!Reported(e) \in PlanCalls /\ P!Reported(e).token = e.token
         /\ P!Reported(e).pc = P!Report(e).pc
         /\ e.pc \in P!Looping
<1>1. e.pc \in {"draft", "review", "reviewed"} /\ e.round \in Nat
  BY DEF P!MayReport, PlanCalls
<1>2. /\ P!Report(e).status \in P!Working /\ P!Report(e).round \in Nat
      /\ P!Report(e).pc \in P!Looping
  <2>1. CASE e.pc = "draft"
    BY <2>1 DEF P!Report, P!Working, P!Looping
  <2>2. CASE e.pc = "review"
    BY <1>1, <2>2 DEF P!Report, P!Working, P!Looping
  <2>3. CASE e.pc = "reviewed"
    <3>1. e.round < PlanRounds
      BY <2>3 DEF P!MayReport
    <3> QED
      BY <1>1, <2>3, <3>1 DEF P!Report, P!Working, P!Looping
  <2> QED
    BY <1>1, <2>1, <2>2, <2>3
<1> QED
  BY <1>1, <1>2 DEF P!Reported, PlanCalls, P!Looping

(* Every step of a worker keeps the invariant.                               *)
LEMMA WorkKept ==
  ASSUME PlanInv, NEW w \in Workers, P!Work(w)
  PROVE  PlanInv'
<1> USE DEF PlanRows
<1>0. /\ plan \in PlanRows
      /\ exec \in [Workers -> PlanCalls] /\ late \subseteq PlanCalls
      /\ plan.kickoff # P!None => plan.status = "approved"
      /\ "idle" \notin P!Looping /\ "kickoff" \notin P!Looping
      /\ "approved" \notin P!Working
  BY DEF PlanInv, PlanTypes, PlanHolder, P!Looping, P!Working
<1>1. CASE P!Claim(w)
  <2>1. plan'.kickoff = P!None /\ plan'.status = "drafting"
        /\ plan'.token = plan.claims + 1 /\ plan'.claims = plan.claims + 1
    BY <1>0, <1>1 DEF P!Claim
  <2>2. PlanTokens' /\ PlanHolder' /\ exec' \in [Workers -> PlanCalls]
    <3> DEFINE r == plan'
    <3> DEFINE c == [pc |-> "draft", token |-> plan.claims + 1, round |-> 0]
    <3>1. exec[w].pc = "idle" /\ late' = late /\ exec' = [exec EXCEPT ![w] = c]
      BY <1>1 DEF P!Claim
    <3>2. c \in PlanCalls /\ c.pc = "draft" /\ c.token = plan.claims + 1 /\ r.status \in P!Working
      BY <1>0, <2>1 DEF PlanCalls, P!Looping, P!Working
    <3> HIDE DEF c
    <3> QED
      BY <2>1, <3>1, <3>2, ClaimKept
  <2>3. "drafting" \in PlanStatuses /\ plan.claims + 1 \in Nat
    BY <1>0 DEF PlanStatuses, P!Working
  <2>4. plan' \in PlanRows
    BY <1>0, <1>1, <2>3 DEF P!Claim
  <2>5. PlanTypes'
    BY <1>0, <1>1, <2>2, <2>4 DEF P!Claim, PlanTypes
  <2> QED
    BY <2>2, <2>5 DEF PlanInv
<1>2. CASE P!claimQuickKickoff(w)
  <2>1. plan'.kickoff = "in_progress" /\ plan'.status = "approved"
        /\ plan'.token = plan.claims + 1 /\ plan'.claims = plan.claims + 1
    BY <1>0, <1>2 DEF P!claimQuickKickoff, P!None
  <2>2. PlanTokens' /\ PlanHolder' /\ exec' \in [Workers -> PlanCalls]
    <3> DEFINE r == plan'
    <3> DEFINE c == [P!NoExec EXCEPT !.pc = "kickoff", !.token = plan.claims + 1]
    <3>1. exec[w].pc = "idle" /\ late' = late /\ exec' = [exec EXCEPT ![w] = c]
      BY <1>2 DEF P!claimQuickKickoff
    <3>2. c \in PlanCalls /\ c.pc = "kickoff" /\ c.token = plan.claims + 1
      <4>1. P!NoExec \in PlanCalls /\ plan.claims + 1 \in Nat
        BY <1>0 DEF PlanCalls, P!NoExec
      <4> QED
        BY <4>1 DEF PlanCalls
    <3> HIDE DEF c
    <3> QED
      BY <1>0, <2>1, <3>1, <3>2, ClaimKept
  <2>3. plan.claims + 1 \in Nat
    BY <1>0
  <2>4. plan' \in PlanRows
    BY <1>0, <1>2, <2>3 DEF P!claimQuickKickoff
  <2>5. PlanTypes'
    BY <1>0, <1>2, <2>2, <2>4 DEF P!claimQuickKickoff, PlanTypes
  <2> QED
    BY <2>2, <2>5 DEF PlanInv
<1>3. CASE P!ExecuteFails(w)
  <2>1. /\ exec[w].pc # "idle" /\ P!Write(w, P!fail(plan)) /\ P!Done(w) /\ late' = late
        /\ P!Owns(w) => plan.kickoff = P!None
    BY <1>0, <1>3 DEF P!ExecuteFails, PlanInv, PlanHolder, P!Owns
  <2>2. /\ P!fail(plan).token = 0 /\ P!fail(plan).claims = plan.claims
        /\ P!fail(plan).kickoff = plan.kickoff /\ P!fail(plan).status = "failed"
    BY <1>0 DEF P!fail, P!Released
  <2>3. "failed" \notin P!Working
    BY DEF P!Working
  <2>4. PlanTokens' /\ PlanHolder' /\ exec' \in [Workers -> PlanCalls] /\ late' \subseteq PlanCalls
    BY <2>1, <2>2, <2>3, EndKept DEF P!None
  <2>5. PlanTypes'
    BY <1>0, <2>1, <2>4 DEF PlanTypes, P!Write, P!fail, P!Released, PlanStatuses
  <2> QED
    BY <2>4, <2>5 DEF PlanInv
<1>4. CASE P!PlanReady(w)
  <2>1. PICK status \in P!Decidable : P!Write(w, P!persistTerminal(plan, status))
    BY <1>4 DEF P!PlanReady
  <2> DEFINE r == P!persistTerminal(plan, status)
  <2>2. /\ exec[w].pc # "idle" /\ P!Write(w, r) /\ P!Done(w) /\ late' = late
        /\ P!Owns(w) => plan.kickoff = P!None
    BY <1>0, <1>4, <2>1 DEF P!PlanReady, PlanInv, PlanHolder, P!Owns, P!Looping
  <2>3. /\ r.token = 0 /\ r.claims = plan.claims
        /\ r.kickoff = plan.kickoff /\ r.status = status
        /\ status \notin P!Working
    BY <1>0 DEF P!persistTerminal, P!Released, P!Decidable, P!Working
  <2>4. PlanTokens' /\ PlanHolder' /\ exec' \in [Workers -> PlanCalls] /\ late' \subseteq PlanCalls
    <3> HIDE DEF r
    <3> QED BY <2>2, <2>3, EndKept DEF P!None
  <2>5. PlanTypes'
    BY <1>0, <2>2, <2>4 DEF PlanTypes, P!Write, P!persistTerminal, P!Released, PlanStatuses
  <2> QED
    BY <2>4, <2>5 DEF PlanInv
<1>5. CASE P!QuickApproved(w)
  <2> DEFINE r == P!persistQuickApproval(plan)
  <2>2. /\ exec[w].pc # "idle" /\ P!Write(w, r) /\ P!Done(w) /\ late' = late
    BY <1>0, <1>5 DEF P!QuickApproved
  <2>3. /\ r.token = 0 /\ r.claims = plan.claims
        /\ r.kickoff = "pending" /\ r.status = "approved"
    BY <1>0 DEF P!persistQuickApproval, P!Released
  <2>4. PlanTokens' /\ PlanHolder' /\ exec' \in [Workers -> PlanCalls] /\ late' \subseteq PlanCalls
    <3> HIDE DEF r
    <3> QED BY <1>0, <2>2, <2>3, EndKept DEF P!None
  <2>5. PlanTypes'
    BY <1>0, <2>2, <2>4 DEF PlanTypes, P!Write, P!persistQuickApproval, P!Released, PlanStatuses
  <2> QED
    BY <2>4, <2>5 DEF PlanInv
<1>6. CASE P!completeQuickKickoff(w)
  <2> DEFINE r == P!Released([plan EXCEPT !.kickoff = "completed"])
  <2>2. /\ exec[w].pc # "idle" /\ P!Write(w, r) /\ P!Done(w) /\ late' = late
        /\ P!Owns(w) => plan.status = "approved"
    BY <1>0, <1>6 DEF P!completeQuickKickoff, PlanInv, PlanHolder, P!Owns, P!None
  <2>3. /\ r.token = 0 /\ r.claims = plan.claims
        /\ r.kickoff = "completed" /\ r.status = plan.status
    BY <1>0 DEF P!Released
  <2>4. PlanTokens' /\ PlanHolder' /\ exec' \in [Workers -> PlanCalls] /\ late' \subseteq PlanCalls
    <3> HIDE DEF r
    <3> QED BY <1>0, <2>2, <2>3, EndKept DEF P!None
  <2>5. PlanTypes'
    BY <1>0, <2>2, <2>4 DEF PlanTypes, P!Write, P!Released, PlanStatuses
  <2> QED
    BY <2>4, <2>5 DEF PlanInv
<1>7. CASE P!RoundReported(w)
  <2>1. /\ P!MayReport(exec[w]) /\ exec[w] \in PlanCalls /\ late' = late
        /\ plan' = P!persistProgress(plan, exec[w])
        /\ exec' = [exec EXCEPT ![w] = P!Reported(exec[w])]
    BY <1>0, <1>7 DEF P!RoundReported
  <2>2. /\ P!Report(exec[w]).status \in P!Working /\ P!Report(exec[w]).round \in Nat
        /\ P!Report(exec[w]).pc \in P!Looping
        /\ P!Reported(exec[w]) \in PlanCalls /\ P!Reported(exec[w]).token = exec[w].token
        /\ P!Reported(exec[w]).pc = P!Report(exec[w]).pc
        /\ exec[w].pc \in P!Looping
    BY <2>1, ReportTyped
  <2>3. PlanTypes'
    BY <1>0, <2>1, <2>2 DEF PlanTypes, P!persistProgress, PlanStatuses
  <2>4. /\ exec'[w].token = exec[w].token /\ exec'[w].pc \in P!Looping
        /\ \A x \in Workers : x # w => exec'[x] = exec[x]
        /\ \A x \in Workers : exec'[x].token = exec[x].token
    BY <1>0, <2>1, <2>2
  <2>5. /\ plan'.token = plan.token /\ plan'.claims = plan.claims /\ plan'.kickoff = plan.kickoff
        /\ plan'.status = plan.status
           \/ (plan.token = exec[w].token /\ plan'.status \in P!Working)
    BY <1>0, <2>1, <2>2 DEF P!persistProgress
  <2>6. PlanTokens'
    BY <1>0, <2>1, <2>2, <2>4, <2>5 DEF PlanTokens, PlanInv
  <2>7. plan.token = exec[w].token => plan.status \in P!Working /\ plan.kickoff = P!None
    BY <1>0, <2>2 DEF PlanInv, PlanHolder
  <2>8. /\ plan'.status \in P!Working <=> plan.status \in P!Working
        /\ plan'.status = "approved" <=> plan.status = "approved"
    BY <1>0, <2>5, <2>7
  <2>9. PlanHolder'
    BY <1>0, <2>2, <2>4, <2>5, <2>8 DEF PlanHolder, PlanInv
  <2> QED
    BY <2>3, <2>6, <2>9 DEF PlanInv
<1> QED
  BY <1>1, <1>2, <1>3, <1>4, <1>5, <1>6, <1>7 DEF P!Work

(* ... and so does every other step: a deadline, a kickoff that could not be *)
(* recorded, a loop nobody awaits, a person, and a restart.                  *)
LEMMA OthersKept ==
  ASSUME PlanInv,
         \/ \E w \in Workers : P!DeadlineHits(w) \/ P!retryQuickKickoff(w)
         \/ \E e \in late : P!LateRound(e)
         \/ P!create \/ P!RetryTimeComes \/ P!Decide \/ P!Restart
  PROVE  PlanInv'
<1> USE DEF PlanRows
<1>0. /\ plan \in PlanRows
      /\ exec \in [Workers -> PlanCalls] /\ late \subseteq PlanCalls
      /\ plan.kickoff # P!None => plan.status = "approved"
      /\ plan.token # 0 => plan.status \in P!Working \/ plan.kickoff = "in_progress"
      /\ "idle" \notin P!Looping /\ "kickoff" \notin P!Looping
      /\ "approved" \notin P!Working
  BY DEF PlanInv, PlanTypes, PlanHolder, P!Looping, P!Working
<1>1. ASSUME NEW w \in Workers, P!DeadlineHits(w)
      PROVE  PlanInv'
  <2>1. /\ exec[w].pc # "idle" /\ P!Write(w, P!fail(plan)) /\ P!Done(w)
        /\ late' \subseteq late \cup {exec[w]}
        /\ P!Owns(w) => plan.kickoff = P!None
    BY <1>0, <1>1 DEF P!DeadlineHits, PlanInv, PlanHolder, P!Owns
  <2>2. /\ P!fail(plan).token = 0 /\ P!fail(plan).claims = plan.claims
        /\ P!fail(plan).kickoff = plan.kickoff /\ P!fail(plan).status = "failed"
    BY <1>0 DEF P!fail, P!Released
  <2>3. "failed" \notin P!Working
    BY DEF P!Working
  <2>4. PlanTokens' /\ PlanHolder' /\ exec' \in [Workers -> PlanCalls] /\ late' \subseteq PlanCalls
    BY <2>1, <2>2, <2>3, EndKept DEF P!None
  <2>5. PlanTypes'
    BY <1>0, <2>1, <2>4 DEF PlanTypes, P!Write, P!fail, P!Released, PlanStatuses
  <2> QED
    BY <2>4, <2>5 DEF PlanInv
<1>2. ASSUME NEW w \in Workers, P!retryQuickKickoff(w)
      PROVE  PlanInv'
  <2> DEFINE r == P!Released([plan EXCEPT !.kickoff = "pending", !.retryAt = TRUE])
  <2>1. /\ exec[w].pc # "idle" /\ P!Write(w, r) /\ P!Done(w) /\ late' = late
        /\ P!Owns(w) => plan.status = "approved"
    BY <1>0, <1>2 DEF P!retryQuickKickoff, PlanInv, PlanHolder, P!Owns, P!None
  <2>2. /\ r.token = 0 /\ r.claims = plan.claims
        /\ r.kickoff = "pending" /\ r.status = plan.status
    BY <1>0 DEF P!Released
  <2>3. PlanTokens' /\ PlanHolder' /\ exec' \in [Workers -> PlanCalls] /\ late' \subseteq PlanCalls
    <3> HIDE DEF r
    <3> QED BY <1>0, <2>1, <2>2, EndKept DEF P!None
  <2>4. PlanTypes'
    BY <1>0, <2>1, <2>3 DEF PlanTypes, P!Write, P!Released
  <2> QED
    BY <2>3, <2>4 DEF PlanInv
<1>3. ASSUME NEW e \in late, P!LateRound(e)
      PROVE  PlanInv'
  <2>1. e \in PlanCalls /\ e.token # plan.token /\ e.token # 0 /\ e.token <= plan.claims
    BY <1>0 DEF PlanInv, PlanTokens
  <2>2. /\ plan' = plan /\ exec' = exec
        /\ \A f \in late' : f \in PlanCalls /\ (f \in late \/ f.token = e.token)
    <3>1. CASE P!MayReport(e)
      BY <1>0, <1>3, <2>1, <3>1, ReportTyped DEF P!LateRound, P!persistProgress
    <3>2. CASE ~P!MayReport(e)
      BY <1>0, <1>3, <2>1, <3>2 DEF P!LateRound
    <3> QED
      BY <3>1, <3>2
  <2> QED
    BY <1>0, <2>1, <2>2 DEF PlanInv, PlanTypes, PlanTokens, PlanHolder
<1>4. CASE P!create
  <2>1. /\ plan'.token = plan.token /\ plan'.claims = plan.claims
        /\ plan'.kickoff = plan.kickoff /\ plan.status = P!None /\ plan'.status = "queued"
        /\ exec' = exec /\ late' = late /\ plan' \in PlanRows
    BY <1>0, <1>4 DEF P!create, PlanStatuses
  <2>2. plan.kickoff = P!None /\ P!None \notin P!Working /\ "queued" \notin P!Working
    BY <1>0, <2>1 DEF P!None, P!Working
  <2>3. plan.token = 0
    BY <1>0, <2>1, <2>2 DEF P!None
  <2>4. PlanTokens' /\ PlanTypes'
    BY <1>0, <2>1 DEF PlanInv, PlanTokens, PlanTypes
  <2>5. \A w \in Workers : exec[w].token = 0 => exec[w].pc = "idle"
    BY DEF PlanInv, PlanTokens
  <2>6. PlanHolder'
    BY <1>0, <2>1, <2>2, <2>3, <2>5 DEF PlanHolder, P!None
  <2> QED
    BY <2>4, <2>6 DEF PlanInv
<1>5. CASE P!RetryTimeComes
  <2>1. /\ plan'.token = plan.token /\ plan'.claims = plan.claims
        /\ plan'.kickoff = plan.kickoff /\ plan'.status = plan.status
        /\ exec' = exec /\ late' = late /\ plan' \in PlanRows
    BY <1>0, <1>5 DEF P!RetryTimeComes
  <2> QED
    BY <1>0, <2>1 DEF PlanInv, PlanTokens, PlanTypes, PlanHolder
<1>6. CASE P!Decide
  <2>1. plan.status \in P!Decidable /\ plan.kickoff = P!None /\ plan.token = 0
    <3>1. "approved" \notin P!Decidable /\ P!Decidable \cap P!Working = {}
      BY DEF P!Decidable, P!Working
    <3> QED
      BY <1>0, <1>6, <3>1 DEF P!Decide, P!None
  <2>2. /\ plan'.token = 0 /\ plan'.claims = plan.claims /\ plan'.kickoff = P!None
        /\ plan'.status \in {"approved", "rejected", "queued"}
        /\ exec' = exec /\ late' = late /\ plan' \in PlanRows
    BY <1>0, <1>6, <2>1 DEF P!Decide, P!Released, PlanStatuses
  <2>3. plan'.status \notin P!Working
    BY <2>2 DEF P!Working
  <2>4. PlanTokens' /\ PlanTypes'
    BY <1>0, <2>1, <2>2 DEF PlanInv, PlanTokens, PlanTypes
  <2>5. \A w \in Workers : exec[w].token = 0 => exec[w].pc = "idle"
    BY DEF PlanInv, PlanTokens
  <2>6. PlanHolder'
    BY <1>0, <2>2, <2>3, <2>5 DEF PlanHolder, P!None
  <2> QED
    BY <2>4, <2>6 DEF PlanInv
<1>7. CASE P!Restart
  <2>1. /\ exec' = [w \in Workers |-> P!NoExec] /\ late' = {}
        /\ plan' = P!reconcileOrphans(plan)
    BY <1>7 DEF P!Restart
  <2>2. /\ plan' \in PlanRows /\ plan'.token = 0 /\ plan'.claims = plan.claims
        /\ plan'.kickoff # P!None => plan'.status = "approved"
        /\ plan'.status \notin P!Working /\ plan'.kickoff # "in_progress"
    <3>1. CASE plan.status \in P!Working
      <4>1. plan' = [plan EXCEPT !.status = "failed", !.token = 0]
        BY <1>0, <2>1, <3>1 DEF P!reconcileOrphans, P!fail, P!Released
      <4>2. plan.kickoff = P!None /\ "failed" \notin P!Working /\ "failed" \in PlanStatuses
        BY <1>0, <3>1 DEF P!Working, PlanStatuses
      <4> QED
        BY <1>0, <4>1, <4>2 DEF P!None
    <3>2. CASE plan.status \notin P!Working /\ plan.kickoff = "in_progress"
      <4>1. plan' = [plan EXCEPT !.kickoff = "pending", !.token = 0]
        BY <1>0, <2>1, <3>2 DEF P!reconcileOrphans, P!Released
      <4> QED
        BY <1>0, <3>2, <4>1 DEF P!None
    <3>3. CASE plan.status \notin P!Working /\ plan.kickoff # "in_progress"
      BY <1>0, <2>1, <3>3 DEF P!reconcileOrphans
    <3> QED
      BY <3>1, <3>2, <3>3
  <2>3. P!NoExec \in PlanCalls /\ P!NoExec.pc = "idle" /\ P!NoExec.token = 0
    BY DEF P!NoExec, PlanCalls
  <2>4. \A w \in Workers : exec'[w] = P!NoExec
    BY <2>1
  <2>5. PlanTypes'
    BY <2>1, <2>2, <2>3 DEF PlanTypes
  <2>6. PlanTokens'
    BY <1>0, <2>1, <2>2, <2>3, <2>4 DEF PlanTokens
  <2>7. PlanHolder'
    BY <1>0, <2>2, <2>3, <2>4 DEF PlanHolder
  <2> QED
    BY <2>5, <2>6, <2>7 DEF PlanInv
<1> QED
  BY <1>1, <1>2, <1>3, <1>4, <1>5, <1>6, <1>7

(* The invariant holds before the run is created,                            *)
LEMMA PlanInit == P!Init => PlanInv
BY DEF P!Init, PlanInv, PlanTypes, PlanTokens, PlanHolder, PlanRows, PlanCalls,
   PlanStatuses, P!NoExec, P!None, P!Looping, P!Working

(* and every step keeps it.                                                  *)
LEMMA PlanStep == ASSUME PlanInv, [P!Next]_(P!planningVars) PROVE PlanInv'
<1>1. CASE UNCHANGED P!planningVars
  BY <1>1 DEF P!planningVars, PlanInv, PlanTypes, PlanTokens, PlanHolder
<1>2. CASE P!Next
  BY <1>2, WorkKept, OthersKept DEF P!Next
<1> QED
  BY <1>1, <1>2

(* The invariant says who can write to the run.                              *)
LEMMA OneWriter == PlanInv => P!RunHasOneWriter
BY DEF PlanInv, PlanTokens, PlanHolder, P!RunHasOneWriter, P!Owns

(* A planning run in a worker's hands has exactly one call that can write to *)
(* it, and one out of its hands none (the lease token of planning_runs,      *)
(* runWorker.ts), for any number of workers, rounds and faults.              *)
THEOREM PlanningOneWriter == P!Spec => []P!RunHasOneWriter
BY PlanInit, PlanStep, OneWriter, PTL DEF P!Spec

-----------------------------------------------------------------------------
(* The turns of a conversation                                               *)

CONSTANTS Conversations,
          Turns,        \* the turns that are ever prepared
          MaxMessages,  \* bound: user messages in a conversation
          MaxCharge,    \* the conservative price of a turn
          Limit,        \* limit_usd of the usage policy
          MaxFaults     \* bound: restarts and writes that fail

VARIABLES conv,     \* conv[c]: the conversation, its last user message, its proposal
          attempt,  \* attempt[t]: the durable row, its message and its reservation
          turn,     \* turn[t]: the handler's place and locals
          reader,   \* the turn that holds the policy row, or 0
          booting   \* reservations are not reconciled yet

T == INSTANCE ConversationTurns

\* a handler's place: before its attempt exists, before the provider answers,
\* after the answer has ended one way or another
Unbegun == {"idle", "prepared"}
Unanswered == {"begun", "reserving", "refused", "reserved", "sent"}
Answered == {"observing", "resolving", "ending"}

Threads ==
  [status : {"active", "archived"}, msgs : Nat, proposal : BOOLEAN, archiving : BOOLEAN]

(* A handler's locals; the sum it read from the policy's rows may be anything. *)
IsTurn(x) ==
  x \in [pc : Unbegun \cup Unanswered \cup Answered \cup {"streaming", "done"},
         conv : Conversations \cup {T!None}, msg : Nat, held : {x.held},
         end : T!Terminal \cup {T!None}, known : BOOLEAN, release : BOOLEAN, aborted : BOOLEAN]

(* An attempt's row; the amounts may be anything.                            *)
IsAttempt(a) ==
  a \in [status : T!OpenAttempt \cup T!Terminal \cup {"absent"}, conv : Conversations \cup {T!None},
         msg : Nat, provider : BOOLEAN, output : {T!None, "streaming", "complete", "interrupted"},
         usage : {"pending", "exact", "unavailable"},
         res : {T!None, "active", "settled", "retained", "released"}, dispatching : BOOLEAN,
         actual : {a.actual}, event : {T!None, "queued", "stored"}, cost : {a.cost}]

(* What the place of a handler says of its attempt.                          *)
Fits(x, a) ==
  /\ x.pc \in Unbegun => a.status = "absent"
  /\ x.pc = "prepared" => x.conv \in Conversations
  /\ x.pc \in Unanswered => a.status = "pending" /\ a.output = T!None
  /\ x.pc = "streaming" => a.status = "streaming"
  /\ x.pc \in {"streaming"} \cup Answered => a.output \in {T!None, "streaming"}
  /\ x.pc \in Answered =>
       /\ a.status \in T!OpenAttempt
       /\ x.end # T!None
       /\ x.end = "succeeded" => a.output = "streaming"
  /\ x.pc = "done" => a.status \notin T!OpenAttempt
  /\ a.status = "absent" => a.output = T!None
  /\ a.output = "streaming" => a.status = "streaming"
  /\ a.status = "succeeded" => a.output = "complete"

TurnTypes ==
  /\ conv \in [Conversations -> Threads]
  /\ turn = [t \in Turns |-> turn[t]]
  /\ attempt = [t \in Turns |-> attempt[t]]
  /\ \A t \in Turns : IsTurn(turn[t]) /\ IsAttempt(attempt[t])

(* One open attempt of a conversation, and none next to a proposal.          *)
Apart ==
  /\ \A t, u \in Turns :
       /\ attempt[t].status \in T!OpenAttempt /\ attempt[u].status \in T!OpenAttempt
       /\ attempt[t].conv = attempt[u].conv
       => t = u
  /\ \A t \in Turns :
       attempt[t].status \in T!OpenAttempt /\ attempt[t].conv \in Conversations
         => ~ conv[attempt[t].conv].proposal

TurnInv == TurnTypes /\ (\A t \in Turns : Fits(turn[t], attempt[t])) /\ Apart

-----------------------------------------------------------------------------
(* A step of one turn that opens no attempt.                                 *)
LEMMA TurnGoesOn ==
  ASSUME TurnInv, NEW t \in Turns, NEW x, NEW a, IsTurn(x), IsAttempt(a), Fits(x, a),
         a.conv = attempt[t].conv,
         a.status \in T!OpenAttempt => attempt[t].status \in T!OpenAttempt,
         turn' = [turn EXCEPT ![t] = x], attempt' = [attempt EXCEPT ![t] = a], conv' = conv
  PROVE  TurnInv'
<1>1. /\ turn = [u \in Turns |-> turn[u]] /\ attempt = [u \in Turns |-> attempt[u]]
      /\ \A u \in Turns : IsTurn(turn[u]) /\ IsAttempt(attempt[u]) /\ Fits(turn[u], attempt[u])
  BY DEF TurnInv, TurnTypes
<1>2. /\ turn' = [u \in Turns |-> turn'[u]] /\ attempt' = [u \in Turns |-> attempt'[u]]
      /\ turn'[t] = x /\ attempt'[t] = a
      /\ \A u \in Turns \ {t} : turn'[u] = turn[u] /\ attempt'[u] = attempt[u]
  BY <1>1
<1>3. \A u \in Turns : /\ IsTurn(turn'[u]) /\ IsAttempt(attempt'[u])
                       /\ Fits(turn'[u], attempt'[u])
  BY <1>1, <1>2
<1>4. TurnTypes'
  <2>1. \A u \in Turns : IsTurn(turn[u])' /\ IsAttempt(attempt[u])'
    BY <1>3 DEF IsTurn, IsAttempt
  <2> QED
    BY <1>2, <2>1 DEF TurnInv, TurnTypes
<1>5. \A u \in Turns : Fits(turn[u], attempt[u])'
  BY <1>3 DEF Fits
<1>6. Apart'
  <2>1. \A u \in Turns : /\ attempt'[u].conv = attempt[u].conv
                         /\ attempt'[u].status \in T!OpenAttempt
                              => attempt[u].status \in T!OpenAttempt
    BY <1>2
  <2> QED
    BY <2>1 DEF TurnInv, Apart
<1> QED
  BY <1>4, <1>5, <1>6 DEF TurnInv
Closed(a, status, usage) == [T!Finalised(a, status) EXCEPT !.usage = usage]

(* A closed attempt has the status of its turn and finalises its message.    *)
LEMMA Finalising ==
  ASSUME NEW a, IsAttempt(a), NEW status \in T!Terminal, NEW usage \in {"exact", "unavailable"},
         NEW b, b = Closed(a, status, usage)
  PROVE  /\ IsAttempt(b) /\ b.status = status /\ b.conv = a.conv
         /\ b.output = IF a.output = T!None THEN T!None
                       ELSE IF status = "succeeded" THEN "complete" ELSE "interrupted"
<1> DEFINE output == IF a.output = T!None THEN T!None
                     ELSE IF status = "succeeded" THEN "complete" ELSE "interrupted"
           f == T!Finalised(a, status)
<1>1. output \in {T!None, "streaming", "complete", "interrupted"}
  OBVIOUS
<1>2. f = [a EXCEPT !.status = status, !.output = output]
  BY DEF T!Finalised, IsAttempt
<1> HIDE DEF output
<1>3. f.status = status /\ f.output = output /\ f.conv = a.conv /\ IsAttempt(f)
  BY <1>1, <1>2 DEF IsAttempt
<1> HIDE DEF f
<1>4. b = [f EXCEPT !.usage = usage]
  BY DEF f, Closed
<1>5. IsAttempt(b) /\ b.status = f.status /\ b.conv = f.conv /\ b.output = f.output
  BY <1>3, <1>4 DEF IsAttempt
<1> QED
  BY <1>3, <1>5 DEF output

(* Each step of a handler leaves its attempt as its next place says.         *)
LEMMA HandlerSteps ==
  ASSUME TurnInv, NEW t \in Turns,
         \/ T!ReserveReads(t) \/ T!FailUnsent(t) \/ T!Dispatch(t) \/ T!NotDispatched(t)
         \/ T!StreamEnds(t) \/ T!StreamBreaks(t) \/ T!Stop(t)
  PROVE  TurnInv'
<1>1. IsTurn(turn[t]) /\ IsAttempt(attempt[t]) /\ Fits(turn[t], attempt[t])
  BY DEF TurnInv, TurnTypes
<1>2. turn = [u \in Turns |-> turn[u]] /\ attempt = [u \in Turns |-> attempt[u]]
  BY DEF TurnInv, TurnTypes
<1>3. CASE T!ReserveReads(t)
  <2>1. PICK h : h = T!held
    OBVIOUS
  <2>2. PICK x : x = [turn[t] EXCEPT !.pc = "reserving", !.held = h]
    OBVIOUS
  <2>3. IsTurn(x) /\ x.conv = turn[t].conv /\ x.pc = "reserving" /\ x.end = turn[t].end
    BY <1>1, <2>2 DEF IsTurn, T!Terminal, Unbegun, Unanswered, Answered
  <2>4. /\ turn' = [turn EXCEPT ![t] = x] /\ attempt' = [attempt EXCEPT ![t] = attempt[t]]
        /\ conv' = conv
    BY <1>2, <1>3, <2>1, <2>2 DEF T!ReserveReads, T!GoTo
  <2>5. Fits(x, attempt[t])
    BY <1>1, <1>3, <2>3 DEF T!ReserveReads, Fits, T!Terminal, T!OpenAttempt, Unbegun, Unanswered,
       Answered, T!None
  <2> QED
    BY <1>1, <2>3, <2>4, <2>5, TurnGoesOn
<1>4. CASE T!FailUnsent(t)
  <2>2. PICK x : x = [turn[t] EXCEPT !.pc = "done"]
    OBVIOUS
  <2>3. IsTurn(x) /\ x.conv = turn[t].conv /\ x.pc = "done" /\ x.end = turn[t].end
    BY <1>1, <2>2 DEF IsTurn, T!Terminal, Unbegun, Unanswered, Answered
  <2>4. PICK a : a = [attempt[t] EXCEPT !.status = "failed", !.usage = "unavailable"]
    OBVIOUS
  <2>5. IsAttempt(a) /\ a.conv = attempt[t].conv /\ a.status = "failed" /\ a.output = attempt[t].output
    BY <1>1, <2>4 DEF IsAttempt, T!Terminal, T!OpenAttempt
  <2>6. /\ turn' = [turn EXCEPT ![t] = x] /\ attempt' = [attempt EXCEPT ![t] = a]
        /\ conv' = conv
    BY <1>2, <1>4, <2>2, <2>4 DEF T!FailUnsent, T!GoTo
  <2>7. /\ Fits(x, a)
        /\ a.status \in T!OpenAttempt => attempt[t].status \in T!OpenAttempt
    BY <1>1, <1>4, <2>3, <2>5 DEF T!FailUnsent, Fits, T!Terminal, T!OpenAttempt, Unbegun,
       Unanswered, Answered
  <2> QED
    BY <2>3, <2>5, <2>6, <2>7, TurnGoesOn
<1>5. CASE T!Dispatch(t)
  <2>2. PICK x : x = [turn[t] EXCEPT !.pc = "sent"]
    OBVIOUS
  <2>3. IsTurn(x) /\ x.conv = turn[t].conv /\ x.pc = "sent" /\ x.end = turn[t].end
    BY <1>1, <2>2 DEF IsTurn, T!Terminal, Unbegun, Unanswered, Answered
  <2>4. PICK a : a = [attempt[t] EXCEPT !.dispatching = TRUE]
    OBVIOUS
  <2>5. IsAttempt(a) /\ a.conv = attempt[t].conv /\ a.status = attempt[t].status /\ a.output = attempt[t].output
    BY <1>1, <2>4 DEF IsAttempt, T!Terminal, T!OpenAttempt
  <2>6. /\ turn' = [turn EXCEPT ![t] = x] /\ attempt' = [attempt EXCEPT ![t] = a]
        /\ conv' = conv
    BY <1>2, <1>5, <2>2, <2>4 DEF T!Dispatch, T!GoTo
  <2>7. /\ Fits(x, a)
        /\ a.status \in T!OpenAttempt => attempt[t].status \in T!OpenAttempt
    BY <1>1, <1>5, <2>3, <2>5 DEF T!Dispatch, Fits, T!Terminal, T!OpenAttempt, Unbegun,
       Unanswered, Answered
  <2> QED
    BY <2>3, <2>5, <2>6, <2>7, TurnGoesOn
<1>6. CASE T!NotDispatched(t)
  <2>1. PICK e \in {"cancelled", "failed"} : e = T!Broken(t)
    BY DEF T!Broken
  <2>2. PICK x : x = [turn[t] EXCEPT !.pc = "resolving", !.end = e, !.release = TRUE]
    OBVIOUS
  <2>3. IsTurn(x) /\ x.conv = turn[t].conv /\ x.pc = "resolving" /\ x.end = e
    BY <1>1, <2>2 DEF IsTurn, T!Terminal, Unbegun, Unanswered, Answered
  <2>4. /\ turn' = [turn EXCEPT ![t] = x] /\ attempt' = [attempt EXCEPT ![t] = attempt[t]]
        /\ conv' = conv
    BY <1>2, <1>6, <2>1, <2>2 DEF T!NotDispatched, T!GoTo
  <2>5. Fits(x, attempt[t])
    BY <1>1, <1>6, <2>1, <2>3 DEF T!NotDispatched, Fits, T!Terminal, T!OpenAttempt, Unbegun, Unanswered,
       Answered, T!None
  <2> QED
    BY <1>1, <2>3, <2>4, <2>5, TurnGoesOn
<1>7. CASE T!StreamEnds(t)
  <2>1. PICK e \in {"cancelled", "failed", "succeeded"} : e = IF attempt[t].output = T!None THEN T!Broken(t) ELSE "succeeded"
    BY DEF T!Broken
  <2>2. PICK x : x = [turn[t] EXCEPT !.pc = "observing", !.known = TRUE, !.end = e]
    OBVIOUS
  <2>3. IsTurn(x) /\ x.conv = turn[t].conv /\ x.pc = "observing" /\ x.end = e
    BY <1>1, <2>2 DEF IsTurn, T!Terminal, Unbegun, Unanswered, Answered
  <2>4. /\ turn' = [turn EXCEPT ![t] = x] /\ attempt' = [attempt EXCEPT ![t] = attempt[t]]
        /\ conv' = conv
    BY <1>2, <1>7, <2>1, <2>2 DEF T!StreamEnds, T!GoTo
  <2>5. Fits(x, attempt[t])
    BY <1>1, <1>7, <2>1, <2>3 DEF T!StreamEnds, Fits, T!Terminal, T!OpenAttempt, Unbegun, Unanswered,
       Answered, T!None, T!Broken
  <2> QED
    BY <1>1, <2>3, <2>4, <2>5, TurnGoesOn
<1>8. CASE T!StreamBreaks(t)
  <2>1. PICK e \in {"cancelled", "failed"} : e = T!Broken(t)
    BY DEF T!Broken
  <2>2. PICK x : x = [turn[t] EXCEPT !.pc = "resolving", !.end = e]
    OBVIOUS
  <2>3. IsTurn(x) /\ x.conv = turn[t].conv /\ x.pc = "resolving" /\ x.end = e
    BY <1>1, <2>2 DEF IsTurn, T!Terminal, Unbegun, Unanswered, Answered
  <2>4. /\ turn' = [turn EXCEPT ![t] = x] /\ attempt' = [attempt EXCEPT ![t] = attempt[t]]
        /\ conv' = conv
    BY <1>2, <1>8, <2>1, <2>2 DEF T!StreamBreaks, T!GoTo
  <2>5. Fits(x, attempt[t])
    BY <1>1, <1>8, <2>1, <2>3 DEF T!StreamBreaks, Fits, T!Terminal, T!OpenAttempt, Unbegun, Unanswered,
       Answered, T!None
  <2> QED
    BY <1>1, <2>3, <2>4, <2>5, TurnGoesOn
<1>9. CASE T!Stop(t)
  <2>2. PICK x : x = [turn[t] EXCEPT !.aborted = TRUE]
    OBVIOUS
  <2>3. IsTurn(x) /\ x.conv = turn[t].conv /\ x.pc = turn[t].pc /\ x.end = turn[t].end
    BY <1>1, <2>2 DEF IsTurn, T!Terminal, Unbegun, Unanswered, Answered
  <2>4. /\ turn' = [turn EXCEPT ![t] = x] /\ attempt' = [attempt EXCEPT ![t] = attempt[t]]
        /\ conv' = conv
    BY <1>2, <1>9, <2>2 DEF T!Stop, T!GoTo
  <2>5. Fits(x, attempt[t])
    BY <1>1, <1>9, <2>3 DEF T!Stop, Fits, T!Terminal, T!OpenAttempt, Unbegun, Unanswered,
       Answered, T!None
  <2> QED
    BY <1>1, <2>3, <2>4, <2>5, TurnGoesOn
<1> QED
  BY <1>3, <1>4, <1>5, <1>6, <1>7, <1>8, <1>9

(* Settling a reservation leaves the attempt as it is otherwise.             *)
LEMMA Resolving ==
  ASSUME NEW a, IsAttempt(a), NEW outcome \in {"settled", "released", "retained"}
  PROVE  LET b == T!resolve(a, outcome)
         IN IsAttempt(b) /\ b.status = a.status /\ b.conv = a.conv /\ b.output = a.output
<1>1. CASE a.res # "active"
  BY <1>1 DEF T!resolve
<1>2. CASE a.res = "active"
  <2>1. PICK n : n = CASE outcome = "settled" -> a.cost
                       [] outcome = "retained" -> MaxCharge
                       [] OTHER -> 0
    OBVIOUS
  <2>2. PICK b : b = [a EXCEPT !.res = outcome, !.actual = n]
    OBVIOUS
  <2>3. T!resolve(a, outcome) = b
    BY <1>2, <2>1, <2>2 DEF T!resolve
  <2>4. IsAttempt(b) /\ b.status = a.status /\ b.conv = a.conv /\ b.output = a.output
    BY <2>2 DEF IsAttempt
  <2> QED
    BY <2>3, <2>4
<1> QED
  BY <1>1, <1>2

(* Each step of a handler, or of the call it waits for, that has a choice.   *)
LEMMA CallSteps ==
  ASSUME TurnInv, NEW t \in Turns,
         \/ T!Reserve(t) \/ T!ResponseStarts(t) \/ T!startVisibleOutput(t) \/ T!Observe(t)
         \/ T!TelemetryRetries(t) \/ T!Resolve(t) \/ T!CloseAttempt(t)
  PROVE  TurnInv'
<1>1. IsTurn(turn[t]) /\ IsAttempt(attempt[t]) /\ Fits(turn[t], attempt[t])
  BY DEF TurnInv, TurnTypes
<1>2. turn = [u \in Turns |-> turn[u]] /\ attempt = [u \in Turns |-> attempt[u]]
  BY DEF TurnInv, TurnTypes
<1> DEFINE Placed(pc) == [turn[t] EXCEPT !.pc = pc]
           TurnEnded(e) == [turn[t] EXCEPT !.pc = "resolving", !.end = e]
           Same(a) == /\ IsAttempt(a) /\ a.status = attempt[t].status
                      /\ a.conv = attempt[t].conv /\ a.output = attempt[t].output
<1>3. ASSUME NEW pc \in Unanswered \cup Answered \cup {"streaming", "done"}
      PROVE  /\ IsTurn(Placed(pc)) /\ Placed(pc).pc = pc /\ Placed(pc).conv = turn[t].conv
             /\ Placed(pc).end = turn[t].end
  BY <1>1 DEF IsTurn
<1>4. ASSUME NEW e \in {"cancelled", "failed"}
      PROVE  /\ IsTurn(TurnEnded(e)) /\ TurnEnded(e).pc = "resolving" /\ TurnEnded(e).conv = turn[t].conv
             /\ TurnEnded(e).end = e
  BY <1>1 DEF IsTurn, T!Terminal, Answered
<1>5. T!Broken(t) \in {"cancelled", "failed"}
  BY DEF T!Broken
<1>6. Same(attempt[t])
  BY <1>1
<1> HIDE DEF Placed, TurnEnded
<1>7. ASSUME NEW x, NEW a, IsTurn(x), Same(a), Fits(x, a), conv' = conv,
             turn' = [turn EXCEPT ![t] = x], attempt' = [attempt EXCEPT ![t] = a]
      PROVE  TurnInv'
  BY <1>7, TurnGoesOn
<1>8. CASE T!Reserve(t)
  <2>1. PICK pc \in {"reserved", "refused"},
             a \in {attempt[t], [attempt[t] EXCEPT !.res = "active"]} :
             /\ turn' = [turn EXCEPT ![t] = Placed(pc)] /\ attempt' = [attempt EXCEPT ![t] = a]
             /\ conv' = conv
    BY <1>2, <1>8 DEF T!Reserve, T!GoTo, Placed
  <2>2. Same(a)
    BY <1>1, <2>1 DEF IsAttempt
  <2>3. Fits(Placed(pc), a)
    BY <1>1, <1>3, <1>8, <2>2 DEF T!Reserve, Fits, Unanswered, Answered, Unbegun
  <2> QED
    BY <1>3, <1>7, <2>1, <2>2, <2>3 DEF Unanswered
<1>9. CASE T!Observe(t)
  <2>1. PICK event \in {"stored", "queued"} :
             /\ turn' = [turn EXCEPT ![t] = Placed("resolving")] /\ conv' = conv
             /\ attempt' = [attempt EXCEPT ![t] = [attempt[t] EXCEPT !.event = event]]
    BY <1>2, <1>9 DEF T!Observe, T!GoTo, Placed
  <2>2. PICK a : a = [attempt[t] EXCEPT !.event = event]
    OBVIOUS
  <2>3. Same(a)
    BY <1>1, <2>2 DEF IsAttempt
  <2>4. Fits(Placed("resolving"), a)
    BY <1>1, <1>3, <1>9, <2>3 DEF T!Observe, Fits, Unanswered, Answered, Unbegun
  <2> QED
    BY <1>3, <1>7, <2>1, <2>2, <2>3, <2>4 DEF Answered
<1>10. CASE T!TelemetryRetries(t)
  <2>1. PICK event \in {"stored", T!None} :
             /\ turn' = [turn EXCEPT ![t] = turn[t]] /\ conv' = conv
             /\ attempt' = [attempt EXCEPT ![t] = [attempt[t] EXCEPT !.event = event]]
    BY <1>2, <1>10 DEF T!TelemetryRetries
  <2>2. PICK a : a = [attempt[t] EXCEPT !.event = event]
    OBVIOUS
  <2>3. Same(a)
    BY <1>1, <2>2 DEF IsAttempt
  <2>4. Fits(turn[t], a)
    BY <1>1, <2>3 DEF Fits
  <2> QED
    BY <1>1, <1>7, <2>1, <2>2, <2>3, <2>4
<1>11. CASE T!Resolve(t)
  <2>1. T!Outcome(t) \in {"settled", "released", "retained"}
    BY DEF T!Outcome
  <2>2. PICK a : /\ a \in {attempt[t], T!resolve(attempt[t], T!Outcome(t))} /\ conv' = conv
                 /\ turn' = [turn EXCEPT ![t] = Placed("ending")]
                 /\ attempt' = [attempt EXCEPT ![t] = a]
    BY <1>2, <1>11 DEF T!Resolve, T!GoTo, Placed
  <2>3. Same(a)
    BY <1>1, <2>1, <2>2, Resolving
  <2>4. Fits(Placed("ending"), a)
    BY <1>1, <1>3, <1>11, <2>3 DEF T!Resolve, Fits, Unanswered, Answered, Unbegun
  <2> QED
    BY <1>3, <1>7, <2>2, <2>3, <2>4 DEF Answered
<1>12. CASE T!CloseAttempt(t)
  <2>1. PICK usage \in {"exact", "unavailable"} :
             usage = IF turn[t].known THEN "exact" ELSE "unavailable"
    OBVIOUS
  <2>2. PICK a : a = Closed(attempt[t], turn[t].end, usage)
    OBVIOUS
  <2>3. /\ turn' = [turn EXCEPT ![t] = Placed("done")] /\ conv' = conv
        /\ attempt' = [attempt EXCEPT ![t] = a]
    BY <1>2, <1>12, <2>1, <2>2 DEF T!CloseAttempt, T!GoTo, Placed, Closed
  <2>4. turn[t].end \in T!Terminal
    BY <1>1, <1>12 DEF T!CloseAttempt, Fits, IsTurn, Answered
  <2>5. /\ IsAttempt(a) /\ a.status = turn[t].end /\ a.conv = attempt[t].conv
        /\ a.output = IF attempt[t].output = T!None THEN T!None
                      ELSE IF turn[t].end = "succeeded" THEN "complete" ELSE "interrupted"
    BY <1>1, <2>1, <2>2, <2>4, Finalising
  <2>6. Fits(Placed("done"), a)
    BY <1>1, <1>3, <1>12, <2>4, <2>5
       DEF T!CloseAttempt, Fits, Unanswered, Answered, Unbegun, T!Terminal, T!OpenAttempt, T!None
  <2>7. a.status \notin T!OpenAttempt
    BY <2>4, <2>5 DEF T!Terminal, T!OpenAttempt
  <2> QED
    BY <1>3, <2>3, <2>5, <2>6, <2>7, TurnGoesOn
<1>13. CASE T!ResponseStarts(t)
  <2>1. PICK cost \in 0 .. MaxCharge :
          \/ /\ turn' = [turn EXCEPT ![t] = Placed("streaming")] /\ conv' = conv
             /\ attempt' = [attempt EXCEPT ![t] =
                  [attempt[t] EXCEPT !.cost = cost, !.provider = TRUE, !.status = "streaming"]]
          \/ /\ turn' = [turn EXCEPT ![t] = TurnEnded(T!Broken(t))] /\ conv' = conv
             /\ attempt' = [attempt EXCEPT ![t] = [attempt[t] EXCEPT !.cost = cost]]
    BY <1>2, <1>13 DEF T!ResponseStarts, T!GoTo, Placed, TurnEnded
  <2>2. turn[t].pc = "sent" /\ attempt[t].status = "pending" /\ attempt[t].output = T!None
    BY <1>1, <1>13 DEF T!ResponseStarts, Fits, Unanswered
  <2>3. PICK a : a = [attempt[t] EXCEPT !.cost = cost, !.provider = TRUE, !.status = "streaming"]
    OBVIOUS
  <2>4. /\ IsAttempt(a) /\ a.status = "streaming" /\ a.conv = attempt[t].conv
        /\ a.output = attempt[t].output
    BY <1>1, <2>3 DEF IsAttempt, T!OpenAttempt
  <2>5. Fits(Placed("streaming"), a)
    BY <1>1, <1>3, <2>2, <2>4 DEF Fits, Unbegun, Unanswered, Answered, T!None, T!OpenAttempt
  <2>6. PICK b : b = [attempt[t] EXCEPT !.cost = cost]
    OBVIOUS
  <2>7. Same(b)
    BY <1>1, <2>6 DEF IsAttempt
  <2>8. Fits(TurnEnded(T!Broken(t)), b)
    BY <1>1, <1>4, <1>5, <2>2, <2>7 DEF Fits, Unbegun, Unanswered, Answered, T!None, T!OpenAttempt
  <2>9. attempt[t].status \in T!OpenAttempt
    BY <2>2 DEF T!OpenAttempt
  <2> QED
    BY <1>3, <1>4, <1>5, <1>7, <2>1, <2>3, <2>4, <2>5, <2>6, <2>7, <2>8, <2>9, TurnGoesOn
<1>14. CASE T!startVisibleOutput(t)
  <2>1. \/ /\ turn' = [turn EXCEPT ![t] = turn[t]] /\ conv' = conv
           /\ attempt' = [attempt EXCEPT ![t] = [attempt[t] EXCEPT !.output = "streaming"]]
        \/ /\ turn' = [turn EXCEPT ![t] = TurnEnded(T!Broken(t))] /\ conv' = conv
           /\ attempt' = [attempt EXCEPT ![t] = attempt[t]]
    BY <1>2, <1>14 DEF T!startVisibleOutput, TurnEnded
  <2>2. turn[t].pc = "streaming" /\ attempt[t].status = "streaming"
    BY <1>1, <1>14 DEF T!startVisibleOutput, Fits
  <2>3. PICK a : a = [attempt[t] EXCEPT !.output = "streaming"]
    OBVIOUS
  <2>4. /\ IsAttempt(a) /\ a.status = attempt[t].status /\ a.conv = attempt[t].conv
        /\ a.output = "streaming"
    BY <1>1, <2>3 DEF IsAttempt
  <2>5. Fits(turn[t], a)
    BY <1>1, <2>2, <2>4 DEF Fits, Unbegun, Unanswered, Answered, T!OpenAttempt
  <2>6. Fits(TurnEnded(T!Broken(t)), attempt[t])
    BY <1>1, <1>4, <1>5, <2>2 DEF Fits, Unbegun, Unanswered, Answered, T!None, T!OpenAttempt
  <2> QED
    BY <1>1, <1>4, <1>5, <1>6, <1>7, <2>1, <2>3, <2>4, <2>5, <2>6, TurnGoesOn
<1> QED
  BY <1>8, <1>9, <1>10, <1>11, <1>12, <1>13, <1>14

-----------------------------------------------------------------------------
(* What a user, the plan proposer or the archive does to a conversation:     *)
(* a proposal begins only where no attempt is open.                          *)
LEMMA ThreadGoesOn ==
  ASSUME TurnInv, NEW c \in Conversations, NEW y \in Threads,
         y.proposal => conv[c].proposal \/ ~ T!hasActiveTurnAttempt(c),
         conv' = [conv EXCEPT ![c] = y], UNCHANGED <<attempt, turn>>
  PROVE  TurnInv'
<1>1. /\ conv \in [Conversations -> Threads] /\ conv' \in [Conversations -> Threads]
      /\ conv'[c] = y /\ \A d \in Conversations \ {c} : conv'[d] = conv[d]
  BY DEF TurnInv, TurnTypes
<1>2. TurnTypes'
  BY <1>1 DEF TurnInv, TurnTypes, IsTurn, IsAttempt
<1>3. \A t \in Turns : attempt[t].status \in T!OpenAttempt /\ attempt[t].conv = c
                         => T!hasActiveTurnAttempt(c)
  BY DEF T!hasActiveTurnAttempt, T!AttemptsOf, T!OpenAttempt
<1>4. \A t \in Turns : attempt[t].status \in T!OpenAttempt /\ attempt[t].conv \in Conversations
                         => ~ conv'[attempt[t].conv].proposal
  BY <1>1, <1>3 DEF TurnInv, Apart
<1>5. Apart'
  BY <1>4 DEF TurnInv, Apart
<1> QED
  BY <1>2, <1>5 DEF TurnInv, Fits

(* Each step on a conversation.                                              *)
LEMMA ThreadSteps ==
  ASSUME TurnInv, NEW c \in Conversations,
         \/ T!submitUserMessage(c) \/ T!BeginProposal(c) \/ T!SettleProposal(c)
         \/ T!ArchiveChecks(c) \/ T!ArchiveCommits(c)
  PROVE  TurnInv'
<1>1. conv \in [Conversations -> Threads] /\ conv[c] \in Threads
  BY DEF TurnInv, TurnTypes
<1>2. /\ conv[c].status \in {"active", "archived"} /\ conv[c].msgs \in Nat
      /\ conv[c].msgs + 1 \in Nat
      /\ conv[c].proposal \in BOOLEAN /\ conv[c].archiving \in BOOLEAN
  BY <1>1 DEF Threads
<1>3. CASE T!submitUserMessage(c)
  <2>1. PICK y : y = [conv[c] EXCEPT !.msgs = conv[c].msgs + 1]
    OBVIOUS
  <2>2. conv' = [conv EXCEPT ![c] = y] /\ UNCHANGED <<attempt, turn>>
    BY <1>3, <2>1 DEF T!submitUserMessage
  <2>3. y \in Threads /\ y.proposal = conv[c].proposal
    BY <1>1, <1>2, <2>1 DEF Threads
  <2> QED
    BY <2>2, <2>3, ThreadGoesOn
<1>4. CASE T!BeginProposal(c)
  <2>1. PICK y : y = [conv[c] EXCEPT !.proposal = TRUE]
    OBVIOUS
  <2>2. conv' = [conv EXCEPT ![c] = y] /\ UNCHANGED <<attempt, turn>>
    BY <1>4, <2>1 DEF T!BeginProposal
  <2>3. y \in Threads /\ ~ T!hasActiveTurnAttempt(c)
    BY <1>1, <1>2, <1>4, <2>1 DEF Threads, T!BeginProposal, T!Busy
  <2> QED
    BY <2>2, <2>3, ThreadGoesOn
<1>5. CASE T!SettleProposal(c)
  <2>1. PICK y : y = [conv[c] EXCEPT !.proposal = FALSE]
    OBVIOUS
  <2>2. conv' = [conv EXCEPT ![c] = y] /\ UNCHANGED <<attempt, turn>>
    BY <1>5, <2>1 DEF T!SettleProposal
  <2>3. y \in Threads /\ y.proposal = FALSE
    BY <1>1, <1>2, <2>1 DEF Threads
  <2> QED
    BY <2>2, <2>3, ThreadGoesOn
<1>6. CASE T!ArchiveChecks(c)
  <2>1. PICK y : y = [conv[c] EXCEPT !.archiving = TRUE]
    OBVIOUS
  <2>2. conv' = [conv EXCEPT ![c] = y] /\ UNCHANGED <<attempt, turn>>
    BY <1>6, <2>1 DEF T!ArchiveChecks
  <2>3. y \in Threads /\ y.proposal = conv[c].proposal
    BY <1>1, <1>2, <2>1 DEF Threads
  <2> QED
    BY <2>2, <2>3, ThreadGoesOn
<1>7. CASE T!ArchiveCommits(c)
  <2>1. PICK y : y = [conv[c] EXCEPT !.status = "archived", !.archiving = FALSE]
    OBVIOUS
  <2>2. conv' = [conv EXCEPT ![c] = y] /\ UNCHANGED <<attempt, turn>>
    BY <1>1, <1>7, <2>1 DEF T!ArchiveCommits
  <2>3. y \in Threads /\ y.proposal = conv[c].proposal
    BY <1>1, <1>2, <2>1 DEF Threads
  <2> QED
    BY <2>2, <2>3, ThreadGoesOn
<1> QED
  BY <1>3, <1>4, <1>5, <1>6, <1>7

(* A prepared turn has no attempt yet.                                       *)
LEMMA PrepareSound ==
  ASSUME TurnInv, NEW c \in Conversations, NEW t \in Turns, NEW retry \in BOOLEAN,
         T!Prepare(t, c, retry)
  PROVE  TurnInv'
<1>1. PICK x : x = [T!NoTurn EXCEPT !.pc = "prepared", !.conv = c, !.msg = conv[c].msgs]
  OBVIOUS
<1>2. /\ turn[t].pc = "idle" /\ turn' = [turn EXCEPT ![t] = x] /\ conv' = conv
      /\ attempt' = attempt
  BY <1>1 DEF T!Prepare
<1>3. /\ IsAttempt(attempt[t]) /\ attempt[t].status = "absent" /\ attempt[t].output = T!None
      /\ conv[c].msgs \in Nat /\ attempt' = [attempt EXCEPT ![t] = attempt[t]]
  BY <1>2 DEF TurnInv, TurnTypes, Fits, Unbegun, Threads
<1>4. IsTurn(x) /\ x.pc = "prepared" /\ x.conv = c
  BY <1>1, <1>3 DEF IsTurn, T!NoTurn, Unbegun
<1>5. Fits(x, attempt[t])
  BY <1>3, <1>4 DEF Fits, Unanswered, Answered, T!OpenAttempt, T!None
<1> QED
  BY <1>2, <1>3, <1>4, <1>5, TurnGoesOn

(* An attempt is opened only in a conversation with nothing else open.       *)
LEMMA BeginSound ==
  ASSUME TurnInv, NEW t \in Turns, T!Begin(t)
  PROVE  TurnInv'
<1>1. /\ IsTurn(turn[t]) /\ IsAttempt(attempt[t]) /\ Fits(turn[t], attempt[t])
      /\ turn = [u \in Turns |-> turn[u]] /\ attempt = [u \in Turns |-> attempt[u]]
  BY DEF TurnInv, TurnTypes
<1>2. /\ turn[t].pc = "prepared" /\ turn[t].conv \in Conversations /\ turn[t].msg \in Nat
      /\ attempt[t].status = "absent" /\ attempt[t].output = T!None
  BY <1>1 DEF T!Begin, Fits, Unbegun, IsTurn
<1>3. CASE attempt' = attempt
  <2>1. PICK x : x = [turn[t] EXCEPT !.pc = "done"]
    OBVIOUS
  <2>2. /\ turn' = [turn EXCEPT ![t] = x] /\ attempt' = [attempt EXCEPT ![t] = attempt[t]]
        /\ conv' = conv
    <3>1. [attempt EXCEPT ![t] = [T!NoAttempt EXCEPT !.status = "pending", !.conv = turn[t].conv,
                                                   !.msg = turn[t].msg]] # attempt
      BY <1>1, <1>2 DEF T!NoAttempt
    <3> QED
      BY <1>1, <1>3, <2>1, <3>1 DEF T!Begin, T!GoTo
  <2>3. IsTurn(x) /\ x.pc = "done"
    BY <1>1, <2>1 DEF IsTurn
  <2>4. Fits(x, attempt[t])
    BY <1>2, <2>3 DEF Fits, Unbegun, Unanswered, Answered, T!OpenAttempt, T!None
  <2> QED
    BY <1>1, <2>2, <2>3, <2>4, TurnGoesOn
<1>4. CASE attempt' # attempt
  <2>1. PICK a : a = [T!NoAttempt EXCEPT !.status = "pending", !.conv = turn[t].conv,
                                       !.msg = turn[t].msg]
    OBVIOUS
  <2>2. PICK x : x = [turn[t] EXCEPT !.pc = "begun"]
    OBVIOUS
  <2>3. /\ turn' = [turn EXCEPT ![t] = x] /\ attempt' = [attempt EXCEPT ![t] = a]
        /\ conv' = conv /\ ~ T!Busy(turn[t].conv)
    BY <1>4, <2>1, <2>2 DEF T!Begin, T!GoTo
  <2>4. /\ IsTurn(x) /\ x.pc = "begun"
        /\ IsAttempt(a) /\ a.status = "pending" /\ a.conv = turn[t].conv /\ a.output = T!None
    <3>1. IsTurn(x) /\ x.pc = "begun"
      BY <1>1, <2>2 DEF IsTurn, Unanswered
    <3>2. a = [status |-> "pending", conv |-> turn[t].conv, msg |-> turn[t].msg,
               provider |-> FALSE, output |-> T!None, usage |-> "pending", res |-> T!None,
               dispatching |-> FALSE, actual |-> 0, event |-> T!None, cost |-> 0]
      BY <2>1 DEF T!NoAttempt
    <3> QED
      BY <1>2, <3>1, <3>2 DEF IsAttempt, T!OpenAttempt
  <2>5. Fits(x, a)
    BY <2>4 DEF Fits, Unbegun, Unanswered, Answered, T!None
  <2>6. /\ turn' = [u \in Turns |-> turn'[u]] /\ attempt' = [u \in Turns |-> attempt'[u]]
        /\ turn'[t] = x /\ attempt'[t] = a
        /\ \A u \in Turns \ {t} : turn'[u] = turn[u] /\ attempt'[u] = attempt[u]
    BY <1>1, <2>3
  <2>7. TurnTypes' /\ \A u \in Turns : Fits(turn[u], attempt[u])'
    <3>1. \A u \in Turns : /\ IsTurn(turn'[u]) /\ IsAttempt(attempt'[u])
                           /\ Fits(turn'[u], attempt'[u])
      BY <2>4, <2>5, <2>6 DEF TurnInv, TurnTypes
    <3>2. \A u \in Turns : IsTurn(turn[u])' /\ IsAttempt(attempt[u])'
      BY <3>1 DEF IsTurn, IsAttempt
    <3>3. TurnTypes'
      BY <2>3, <2>6, <3>2 DEF TurnInv, TurnTypes
    <3>4. \A u \in Turns : Fits(turn[u], attempt[u])'
      BY <3>1 DEF Fits
    <3> QED
      BY <3>3, <3>4
  <2>8. \A u \in Turns : attempt[u].status \in T!OpenAttempt => attempt[u].conv # turn[t].conv
    BY <2>3 DEF T!Busy, T!hasActiveTurnAttempt, T!AttemptsOf, T!OpenAttempt
  <2>9. ~ conv[turn[t].conv].proposal
    BY <2>3 DEF T!Busy
  <2>10. Apart'
    BY <2>3, <2>4, <2>6, <2>8, <2>9 DEF TurnInv, Apart
  <2> QED
    BY <2>7, <2>10 DEF TurnInv
<1> QED
  BY <1>3, <1>4

(* A restart, or what is done after it, changes all turns at once.           *)
LEMMA AllGoOn ==
  ASSUME TurnInv, conv' \in [Conversations -> Threads],
         \A c \in Conversations : conv'[c].proposal => conv[c].proposal,
         turn' = [t \in Turns |-> turn'[t]], attempt' = [t \in Turns |-> attempt'[t]],
         \A t \in Turns :
           /\ IsTurn(turn'[t]) /\ IsAttempt(attempt'[t]) /\ Fits(turn'[t], attempt'[t])
           /\ attempt'[t].conv = attempt[t].conv
           /\ attempt'[t].status \in T!OpenAttempt => attempt[t].status \in T!OpenAttempt
  PROVE  TurnInv'
<1>1. \A t \in Turns : IsTurn(turn[t])' /\ IsAttempt(attempt[t])'
  BY DEF IsTurn, IsAttempt
<1>2. TurnTypes'
  BY <1>1 DEF TurnTypes
<1>3. \A t \in Turns : Fits(turn[t], attempt[t])'
  BY DEF Fits
<1>4. Apart'
  BY DEF TurnInv, Apart
<1> QED
  BY <1>2, <1>3, <1>4 DEF TurnInv

(* A server that starts again closes what is open, and finalises its message. *)
LEMMA Reconciling ==
  ASSUME NEW a, IsAttempt(a), a.status = "absent" => a.output = T!None,
         a.output = "streaming" => a.status = "streaming",
         a.status = "succeeded" => a.output = "complete",
         NEW b, b = T!reconcileOrphans(a)
  PROVE  /\ IsAttempt(b) /\ b.conv = a.conv /\ b.status \notin T!OpenAttempt
         /\ b.status = "absent" <=> a.status = "absent"
         /\ b.output = "streaming" => b.status = "streaming"
         /\ b.status = "succeeded" => b.output = "complete"
         /\ b.status = "absent" => b.output = T!None
<1>1. PICK f : f = IF a.event = "queued" THEN [a EXCEPT !.event = T!None] ELSE a
  OBVIOUS
<1>2. IsAttempt(f) /\ f.conv = a.conv /\ f.status = a.status /\ f.output = a.output
  BY <1>1 DEF IsAttempt
<1>3. CASE a.status \notin T!OpenAttempt
  BY <1>1, <1>2, <1>3 DEF T!reconcileOrphans, T!OpenAttempt
<1>4. CASE a.status \in T!OpenAttempt
  <2>1. PICK usage \in {"exact", "unavailable"} :
             usage = IF f.event = "stored" THEN "exact" ELSE "unavailable"
    OBVIOUS
  <2>2. b = Closed(f, "cancelled", usage)
    BY <1>1, <1>4, <2>1 DEF T!reconcileOrphans, Closed
  <2>3. "cancelled" \in T!Terminal
    BY DEF T!Terminal
  <2>4. /\ IsAttempt(b) /\ b.status = "cancelled" /\ b.conv = f.conv
        /\ b.output = IF f.output = T!None THEN T!None ELSE "interrupted"
    BY <1>2, <2>1, <2>2, <2>3, Finalising
  <2> QED
    BY <1>2, <1>4, <2>4 DEF T!OpenAttempt, T!None
<1> QED
  BY <1>3, <1>4

(* All handlers end, all open attempts and proposals are closed.             *)
LEMMA RestartSound ==
  ASSUME TurnInv, T!Restart
  PROVE  TurnInv'
<1>1. /\ attempt' = [t \in Turns |-> T!reconcileOrphans(attempt[t])]
      /\ turn' = [t \in Turns |-> IF turn[t].pc = "idle" THEN turn[t]
                                  ELSE [T!NoTurn EXCEPT !.pc = "done"]]
      /\ conv' = [c \in Conversations |->
                    [conv[c] EXCEPT !.proposal = FALSE, !.archiving = FALSE]]
  BY DEF T!Restart
<1>2. conv \in [Conversations -> Threads]
  BY DEF TurnInv, TurnTypes
<1>3. \A c \in Conversations : conv'[c] \in Threads /\ conv'[c].proposal = FALSE
  BY <1>1, <1>2 DEF Threads
<1>4. conv' \in [Conversations -> Threads]
  BY <1>1, <1>3
<1>5. /\ turn' = [t \in Turns |-> turn'[t]] /\ attempt' = [t \in Turns |-> attempt'[t]]
  BY <1>1
<1>6. ASSUME NEW t \in Turns
      PROVE  /\ IsTurn(turn'[t]) /\ IsAttempt(attempt'[t]) /\ Fits(turn'[t], attempt'[t])
             /\ attempt'[t].conv = attempt[t].conv
             /\ attempt'[t].status \in T!OpenAttempt => attempt[t].status \in T!OpenAttempt
  <2>1. IsTurn(turn[t]) /\ IsAttempt(attempt[t]) /\ Fits(turn[t], attempt[t])
    BY DEF TurnInv, TurnTypes
  <2>2. PICK x : x = turn'[t]
    OBVIOUS
  <2>3. PICK a, b : a = attempt[t] /\ b = attempt'[t]
    OBVIOUS
  <2>4. b = T!reconcileOrphans(a)
    BY <1>1, <2>3
  <2>5. /\ a.status = "absent" => a.output = T!None
        /\ a.output = "streaming" => a.status = "streaming"
        /\ a.status = "succeeded" => a.output = "complete"
    BY <2>1, <2>3 DEF Fits
  <2>6. /\ IsAttempt(b) /\ b.conv = a.conv /\ b.status \notin T!OpenAttempt
        /\ b.status = "absent" <=> a.status = "absent"
        /\ b.output = "streaming" => b.status = "streaming"
        /\ b.status = "succeeded" => b.output = "complete"
        /\ b.status = "absent" => b.output = T!None
    BY <2>1, <2>3, <2>4, <2>5, Reconciling
  <2>7. IsTurn(x) /\ (x.pc = "done" \/ (x.pc = "idle" /\ turn[t].pc = "idle"))
    <3>1. CASE turn[t].pc = "idle"
      BY <1>1, <2>1, <2>2, <3>1
    <3>2. CASE turn[t].pc # "idle"
      <4>1. x = [T!NoTurn EXCEPT !.pc = "done"]
        BY <1>1, <2>2, <3>2
      <4> QED
        BY <4>1 DEF IsTurn, T!NoTurn
    <3> QED
      BY <3>1, <3>2
  <2>8. Fits(x, b)
    BY <2>1, <2>3, <2>6, <2>7 DEF Fits, Unbegun, Unanswered, Answered
  <2> QED
    BY <2>2, <2>3, <2>6, <2>7, <2>8
<1> QED
  BY <1>3, <1>4, <1>5, <1>6, AllGoOn

(* The reservations are settled without touching status or message.          *)
LEMMA ReconcileSound ==
  ASSUME TurnInv, T!reconcileReservations
  PROVE  TurnInv'
<1>1. /\ attempt' = [t \in Turns |-> attempt'[t]] /\ turn' = turn /\ conv' = conv
      /\ \A t \in Turns : \E outcome \in {"settled", "released", "retained"} :
           attempt'[t] = T!resolve(attempt[t], outcome)
  BY DEF T!reconcileReservations
<1>2. conv' \in [Conversations -> Threads] /\ turn' = [t \in Turns |-> turn'[t]]
  BY <1>1 DEF TurnInv, TurnTypes
<1>3. ASSUME NEW t \in Turns
      PROVE  /\ IsTurn(turn'[t]) /\ IsAttempt(attempt'[t]) /\ Fits(turn'[t], attempt'[t])
             /\ attempt'[t].conv = attempt[t].conv
             /\ attempt'[t].status \in T!OpenAttempt => attempt[t].status \in T!OpenAttempt
  <2>1. IsTurn(turn[t]) /\ IsAttempt(attempt[t]) /\ Fits(turn[t], attempt[t])
    BY DEF TurnInv, TurnTypes
  <2>2. PICK outcome \in {"settled", "released", "retained"} :
             attempt'[t] = T!resolve(attempt[t], outcome)
    BY <1>1
  <2>3. /\ IsAttempt(attempt'[t]) /\ attempt'[t].status = attempt[t].status
        /\ attempt'[t].conv = attempt[t].conv /\ attempt'[t].output = attempt[t].output
    BY <2>1, <2>2, Resolving
  <2> QED
    BY <1>1, <2>1, <2>3 DEF Fits
<1> QED
  BY <1>1, <1>2, <1>3, AllGoOn

-----------------------------------------------------------------------------
(* The initial state has no attempts.                                        *)
LEMMA TurnInit == T!Init => TurnInv
<1> SUFFICES ASSUME T!Init PROVE TurnInv
  OBVIOUS
<1>1. /\ conv = [c \in Conversations |-> [status |-> "active", msgs |-> 0, proposal |-> FALSE,
                                          archiving |-> FALSE]]
      /\ attempt = [t \in Turns |-> T!NoAttempt] /\ turn = [t \in Turns |-> T!NoTurn]
  BY DEF T!Init
<1>2. IsTurn(T!NoTurn) /\ IsAttempt(T!NoAttempt)
  BY DEF IsTurn, IsAttempt, T!NoTurn, T!NoAttempt, Unbegun
<1>3. Fits(T!NoTurn, T!NoAttempt) /\ T!NoAttempt.status \notin T!OpenAttempt
  BY DEF Fits, T!NoTurn, T!NoAttempt, Unbegun, Unanswered, Answered, T!OpenAttempt, T!None
<1>4. conv \in [Conversations -> Threads]
  BY <1>1 DEF Threads
<1>5. TurnTypes
  BY <1>1, <1>2, <1>4 DEF TurnTypes
<1> QED
  BY <1>1, <1>3, <1>5 DEF TurnInv, Apart

\* what the composition needs of a step, in one formula without assumptions
TurnSound == TurnInv /\ [T!Next]_(T!turnVars) => TurnInv'

(* Every step of Next keeps the invariant.                                   *)
LEMMA TurnStepSound == TurnSound
<1> SUFFICES ASSUME TurnInv, [T!Next]_(T!turnVars) PROVE TurnInv'
  BY DEF TurnSound
<1>1. CASE UNCHANGED T!turnVars
  <2>1. UNCHANGED <<conv, attempt, turn>>
    BY <1>1 DEF T!turnVars
  <2> QED
    BY <2>1 DEF TurnInv, TurnTypes, Apart, Fits, IsTurn, IsAttempt
<1>2. ASSUME NEW c \in Conversations, NEW t \in Turns, NEW retry \in BOOLEAN,
             T!Prepare(t, c, retry)
      PROVE  TurnInv'
  BY <1>2, PrepareSound
<1>3. ASSUME NEW c \in Conversations,
             \/ T!submitUserMessage(c) \/ T!BeginProposal(c) \/ T!SettleProposal(c)
             \/ T!ArchiveChecks(c) \/ T!ArchiveCommits(c)
      PROVE  TurnInv'
  BY <1>3, ThreadSteps
<1>4. ASSUME NEW t \in Turns, T!Handle(t) \/ T!startVisibleOutput(t) \/ T!Stop(t) \/ T!TelemetryRetries(t)
      PROVE  TurnInv'
  BY <1>4, BeginSound, HandlerSteps, CallSteps DEF T!Handle
<1>5. CASE T!Restart \/ T!reconcileReservations
  BY <1>5, RestartSound, ReconcileSound
<1> QED
  BY <1>1, <1>2, <1>3, <1>4, <1>5 DEF T!Next

(* The invariant gives what the runs check.                                  *)
LEMMA InvSpeaks == TurnInv => T!OneSpeaker
<1> SUFFICES ASSUME TurnInv PROVE T!OneSpeaker
  OBVIOUS
<1>1. ASSUME NEW c \in Conversations, NEW t \in T!AttemptsOf(c), NEW u \in T!AttemptsOf(c),
             {attempt[t].status, attempt[u].status} \subseteq T!OpenAttempt
      PROVE  t = u
  BY <1>1 DEF TurnInv, Apart, T!AttemptsOf
<1>2. ASSUME NEW c \in Conversations, conv[c].proposal
      PROVE  ~ T!hasActiveTurnAttempt(c)
  BY <1>2 DEF TurnInv, Apart, T!AttemptsOf, T!hasActiveTurnAttempt
<1>3. \A t \in Turns : /\ attempt[t].output = "streaming" => attempt[t].status = "streaming"
                       /\ attempt[t].status = "succeeded" => attempt[t].output = "complete"
  BY DEF TurnInv, Fits
<1> QED
  BY <1>1, <1>2, <1>3 DEF T!OneSpeaker

(* Messages, turns, proposals, stops and archiving each check a conversation *)
(* first and write it later (turnService.ts, turnRepository.ts), and a       *)
(* restart cuts turns anywhere: yet one thing at most speaks in it, and no   *)
(* message is left half open.                                                *)
THEOREM OneSpeaks == T!Spec => []T!OneSpeaker
<1>1. TurnInv /\ [T!Next]_(T!turnVars) => TurnInv'
  BY TurnStepSound DEF TurnSound
<1> QED
  BY TurnInit, <1>1, InvSpeaks, PTL DEF T!Spec

-----------------------------------------------------------------------------
(* The call of an attempt leaves once                                        *)

(* Whether the handler x of attempt a has sent its call.                     *)
Sent(x, a) ==
  /\ x.pc \in {"begun", "reserving", "refused", "reserved"} => a.dispatching = FALSE
  /\ x.pc \in {"sent", "streaming"} \cup Answered => a.dispatching = TRUE
SentInv == \A t \in Turns : Sent(turn[t], attempt[t])

(* How one attempt goes on: it is begun, sent, failed unsent, or closed.     *)
Advances(a, b) ==
  \/ b.status = a.status /\ b.dispatching = a.dispatching
  \/ a.status = "absent" /\ b.status = "pending" /\ b.dispatching = FALSE
  \/ /\ a.status = "pending" /\ a.dispatching = FALSE
     /\ \/ b.status = "pending" /\ b.dispatching = TRUE
        \/ b.status = "failed"
  \/ /\ a.status \in T!OpenAttempt /\ a.dispatching = TRUE
     /\ \/ b.status \in T!OpenAttempt /\ b.dispatching = TRUE
        \/ b.status \in T!Terminal

(* A restart closes it, or leaves it.                                        *)
Cut(a, b) ==
  \/ b.status = a.status /\ b.dispatching = a.dispatching
  \/ a.status \in T!OpenAttempt /\ b.status = "cancelled"

(* A step of one turn moves its attempt on.                                  *)
LEMMA OneMoves ==
  ASSUME TurnInv, SentInv, NEW t \in Turns,
         T!Handle(t) \/ T!startVisibleOutput(t) \/ T!Stop(t) \/ T!TelemetryRetries(t)
  PROVE  /\ \A u \in Turns \ {t} : turn'[u] = turn[u] /\ attempt'[u] = attempt[u]
         /\ Sent(turn'[t], attempt'[t]) /\ Advances(attempt[t], attempt'[t])
<1> DEFINE Goal == Sent(turn'[t], attempt'[t]) /\ Advances(attempt[t], attempt'[t])
<1>1. /\ IsTurn(turn[t]) /\ IsAttempt(attempt[t]) /\ Fits(turn[t], attempt[t])
      /\ Sent(turn[t], attempt[t])
  BY DEF TurnInv, TurnTypes, SentInv
<1>2. turn = [u \in Turns |-> turn[u]] /\ attempt = [u \in Turns |-> attempt[u]]
  BY DEF TurnInv, TurnTypes
<1>3. \A u \in Turns \ {t} : turn'[u] = turn[u] /\ attempt'[u] = attempt[u]
  <2>1. CASE T!Begin(t) \/ T!ReserveReads(t) \/ T!Reserve(t) \/ T!FailUnsent(t) \/ T!Dispatch(t)
    BY <1>2, <2>1 DEF T!Begin, T!ReserveReads, T!Reserve, T!FailUnsent, T!Dispatch, T!GoTo
  <2>2. CASE T!NotDispatched(t) \/ T!ResponseStarts(t) \/ T!startVisibleOutput(t)
             \/ T!StreamEnds(t) \/ T!StreamBreaks(t) \/ T!Stop(t)
    BY <1>2, <2>2 DEF T!NotDispatched, T!ResponseStarts, T!startVisibleOutput, T!StreamEnds,
       T!StreamBreaks, T!Stop, T!GoTo
  <2>3. CASE T!Observe(t) \/ T!TelemetryRetries(t) \/ T!Resolve(t) \/ T!CloseAttempt(t)
    BY <1>2, <2>3 DEF T!Observe, T!TelemetryRetries, T!Resolve, T!CloseAttempt, T!GoTo
  <2> QED
    BY <2>1, <2>2, <2>3 DEF T!Handle
<1>0. SUFFICES Goal
  BY <1>3
<1>4. ASSUME attempt'[t].status = attempt[t].status, attempt'[t].dispatching = attempt[t].dispatching,
             \/ turn'[t].pc = turn[t].pc
             \/ /\ turn[t].pc \in {"begun", "reserving"}
                /\ turn'[t].pc \in {"reserving", "reserved", "refused"}
             \/ turn[t].pc \in {"sent", "streaming"} \cup Answered /\ turn'[t].pc \in Answered
      PROVE  Goal
  BY <1>1, <1>4 DEF Sent, Advances, Answered
<1> HIDE DEF Goal
<1>5. CASE T!Begin(t)
  <2>1. turn[t].pc = "prepared"
    BY <1>5 DEF T!Begin
  <2>2. attempt[t].status = "absent"
    BY <1>1, <2>1 DEF Fits, Unbegun
  <2>3. CASE attempt' = attempt /\ T!GoTo(t, "done")
    <3>1. turn'[t].pc = "done" /\ attempt'[t] = attempt[t]
      BY <1>1, <1>2, <2>3 DEF T!GoTo, IsTurn
    <3> QED
      BY <3>1 DEF Goal, Sent, Advances, Answered
  <2>4. CASE ~ (attempt' = attempt /\ T!GoTo(t, "done"))
    <3>1. /\ T!GoTo(t, "begun")
          /\ attempt' = [attempt EXCEPT ![t] =
               [T!NoAttempt EXCEPT !.status = "pending", !.conv = turn[t].conv, !.msg = turn[t].msg]]
      BY <1>5, <2>4 DEF T!Begin
    <3>2. attempt'[t].status = "pending" /\ attempt'[t].dispatching = FALSE
      BY <1>2, <3>1 DEF T!NoAttempt
    <3>3. turn'[t].pc = "begun"
      BY <1>1, <1>2, <3>1 DEF T!GoTo, IsTurn
    <3> QED
      BY <2>2, <3>2, <3>3 DEF Goal, Sent, Advances, Answered
  <2> QED
    BY <2>3, <2>4
<1>6. CASE T!ReserveReads(t)
  <2>1. /\ turn[t].pc = "begun" /\ attempt' = attempt
        /\ turn' = [turn EXCEPT ![t].pc = "reserving", ![t].held = T!held]
    BY <1>6 DEF T!ReserveReads
  <2>2. PICK h : h = T!held
    OBVIOUS
  <2>3. turn'[t].pc = "reserving"
    <3>1. PICK x : x = [turn[t] EXCEPT !.pc = "reserving", !.held = h]
      OBVIOUS
    <3>2. x.pc = "reserving"
      BY <1>1, <3>1 DEF IsTurn
    <3>3. turn' = [turn EXCEPT ![t] = x]
      BY <2>1, <2>2, <3>1
    <3> QED
      BY <1>2, <3>2, <3>3
  <2> QED
    BY <1>4, <2>1, <2>3
<1>7. CASE T!Reserve(t)
  <2>1. turn[t].pc = "reserving" /\ turn'[t].pc \in {"reserved", "refused"}
    BY <1>1, <1>2, <1>7 DEF T!Reserve, T!GoTo, IsTurn
  <2>2. attempt'[t].status = attempt[t].status /\ attempt'[t].dispatching = attempt[t].dispatching
    BY <1>1, <1>2, <1>7 DEF T!Reserve, IsAttempt
  <2> QED
    BY <1>4, <2>1, <2>2
<1>8. CASE T!FailUnsent(t)
  <2>1. turn[t].pc \in {"begun", "refused"} /\ turn'[t].pc = "done"
    BY <1>1, <1>2, <1>8 DEF T!FailUnsent, T!GoTo, IsTurn
  <2>2. attempt'[t].status = "failed"
    BY <1>1, <1>2, <1>8 DEF T!FailUnsent, IsAttempt
  <2>3. attempt[t].status = "pending" /\ attempt[t].dispatching = FALSE
    BY <1>1, <2>1 DEF Fits, Sent, Unanswered
  <2> QED
    BY <2>1, <2>2, <2>3 DEF Goal, Sent, Advances, Answered
<1>9. CASE T!Dispatch(t)
  <2>1. turn[t].pc = "reserved" /\ turn'[t].pc = "sent"
    BY <1>1, <1>2, <1>9 DEF T!Dispatch, T!GoTo, IsTurn
  <2>2. attempt'[t].status = attempt[t].status /\ attempt'[t].dispatching = TRUE
    BY <1>1, <1>2, <1>9 DEF T!Dispatch, IsAttempt
  <2>3. attempt[t].status = "pending" /\ attempt[t].dispatching = FALSE
    BY <1>1, <2>1 DEF Fits, Sent, Unanswered
  <2> QED
    BY <2>1, <2>2, <2>3 DEF Goal, Sent, Advances, Answered
<1>10. CASE T!NotDispatched(t) \/ T!StreamEnds(t) \/ T!StreamBreaks(t)
  <2>1. attempt' = attempt /\ turn[t].pc \in {"sent", "streaming"}
    BY <1>10 DEF T!NotDispatched, T!StreamEnds, T!StreamBreaks
  <2>2. turn'[t].pc \in {"observing", "resolving"}
    BY <1>1, <1>2, <1>10 DEF T!NotDispatched, T!StreamEnds, T!StreamBreaks, IsTurn
  <2> QED
    BY <1>4, <2>1, <2>2 DEF Answered
<1>11. CASE T!Stop(t)
  <2>1. attempt' = attempt /\ turn'[t].pc = turn[t].pc
    BY <1>1, <1>2, <1>11 DEF T!Stop, IsTurn
  <2> QED
    BY <1>4, <2>1
<1>12. CASE T!ResponseStarts(t)
  <2>1. PICK cost \in 0 .. MaxCharge :
          \/ /\ T!GoTo(t, "streaming")
             /\ attempt' = [attempt EXCEPT ![t].cost = cost, ![t].provider = TRUE,
                                           ![t].status = "streaming"]
          \/ /\ turn' = [turn EXCEPT ![t].pc = "resolving", ![t].end = T!Broken(t)]
             /\ attempt' = [attempt EXCEPT ![t].cost = cost]
    BY <1>12 DEF T!ResponseStarts
  <2>2. turn[t].pc = "sent"
    BY <1>12 DEF T!ResponseStarts
  <2>3. attempt[t].status = "pending" /\ attempt[t].dispatching = TRUE
    BY <1>1, <2>2 DEF Fits, Sent, Unanswered
  <2>4. turn'[t].pc \in {"streaming", "resolving"}
    BY <1>1, <1>2, <2>1 DEF T!GoTo, IsTurn
  <2>5. attempt'[t].status \in {"pending", "streaming"} /\ attempt'[t].dispatching = TRUE
    BY <1>1, <1>2, <2>1, <2>3 DEF IsAttempt
  <2> QED
    BY <2>3, <2>4, <2>5 DEF Goal, Sent, Advances, Answered, T!OpenAttempt
<1>13. CASE T!startVisibleOutput(t)
  <2>1. turn[t].pc = "streaming" /\ turn'[t].pc \in {"streaming", "resolving"}
    BY <1>1, <1>2, <1>13 DEF T!startVisibleOutput, IsTurn
  <2>2. attempt'[t].status = attempt[t].status /\ attempt'[t].dispatching = attempt[t].dispatching
    BY <1>1, <1>2, <1>13 DEF T!startVisibleOutput, IsAttempt
  <2> QED
    BY <1>4, <2>1, <2>2 DEF Answered
<1>14. CASE T!Observe(t) \/ T!TelemetryRetries(t)
  <2>1. \/ turn'[t].pc = turn[t].pc
        \/ turn[t].pc = "observing" /\ turn'[t].pc = "resolving"
    <3>1. CASE T!Observe(t)
      <4>1. turn[t].pc = "observing" /\ turn' = [turn EXCEPT ![t].pc = "resolving"]
        BY <3>1 DEF T!Observe, T!GoTo
      <4> QED
        BY <1>1, <1>2, <4>1 DEF IsTurn
    <3>2. CASE T!TelemetryRetries(t)
      BY <3>2 DEF T!TelemetryRetries
    <3> QED
      BY <1>14, <3>1, <3>2
  <2>2. attempt'[t].status = attempt[t].status /\ attempt'[t].dispatching = attempt[t].dispatching
    BY <1>1, <1>2, <1>14 DEF T!Observe, T!TelemetryRetries, IsAttempt
  <2> QED
    BY <1>4, <2>1, <2>2 DEF Answered
<1>15. CASE T!Resolve(t)
  <2>1. turn[t].pc = "resolving" /\ turn'[t].pc = "ending"
    BY <1>1, <1>2, <1>15 DEF T!Resolve, T!GoTo, IsTurn
  <2>2. PICK o : o = T!Outcome(t)
    OBVIOUS
  <2>3. attempt'[t] \in {attempt[t], T!resolve(attempt[t], o)}
    BY <1>2, <1>15, <2>2 DEF T!Resolve
  <2>4. attempt'[t].status = attempt[t].status /\ attempt'[t].dispatching = attempt[t].dispatching
    BY <1>1, <2>3 DEF T!resolve, IsAttempt
  <2> QED
    BY <1>4, <2>1, <2>4 DEF Answered
<1>16. CASE T!CloseAttempt(t)
  <2>1. turn[t].pc = "ending" /\ turn'[t].pc = "done"
    BY <1>1, <1>2, <1>16 DEF T!CloseAttempt, T!GoTo, IsTurn
  <2>2. PICK usage \in {"exact", "unavailable"} :
             usage = IF turn[t].known THEN "exact" ELSE "unavailable"
    OBVIOUS
  <2>3. attempt'[t] = Closed(attempt[t], turn[t].end, usage)
    BY <1>2, <1>16, <2>2 DEF T!CloseAttempt, Closed
  <2>4. turn[t].end \in T!Terminal /\ attempt[t].status \in T!OpenAttempt
        /\ attempt[t].dispatching = TRUE
    BY <1>1, <2>1 DEF Fits, Sent, IsTurn, Answered
  <2>5. attempt'[t].status = turn[t].end
    BY <1>1, <2>2, <2>3, <2>4, Finalising
  <2> QED
    BY <2>1, <2>4, <2>5 DEF Goal, Sent, Advances, Answered
<1> QED
  BY <1>5, <1>6, <1>7, <1>8, <1>9, <1>10, <1>11, <1>12, <1>13, <1>14, <1>15, <1>16 DEF T!Handle

(* A restart, and the reconciling after it, close what was open.             *)
LEMMA AllMove ==
  ASSUME TurnInv, SentInv, T!Restart \/ T!reconcileReservations
  PROVE  SentInv' /\ \A t \in Turns : Cut(attempt[t], attempt'[t])
<1>1. ASSUME NEW t \in Turns
      PROVE  IsTurn(turn[t]) /\ IsAttempt(attempt[t]) /\ Sent(turn[t], attempt[t])
  BY DEF TurnInv, TurnTypes, SentInv
<1>2. CASE T!Restart
  <2>1. ASSUME NEW t \in Turns
        PROVE  turn'[t].pc \in {"idle", "done"}
    <3>1. turn'[t] = IF turn[t].pc = "idle" THEN turn[t] ELSE [T!NoTurn EXCEPT !.pc = "done"]
      BY <1>2 DEF T!Restart
    <3> QED
      BY <3>1 DEF T!NoTurn
  <2>2. ASSUME NEW t \in Turns
        PROVE  Cut(attempt[t], attempt'[t])
    <3>1. PICK a, b : a = attempt[t] /\ b = attempt'[t]
      OBVIOUS
    <3>2. b = T!reconcileOrphans(a)
      BY <1>2, <3>1 DEF T!Restart
    <3>3. PICK f : f = IF a.event = "queued" THEN [a EXCEPT !.event = T!None] ELSE a
      OBVIOUS
    <3>4. IsAttempt(f) /\ f.status = a.status /\ f.dispatching = a.dispatching
      BY <1>1, <3>1, <3>3 DEF IsAttempt
    <3>5. CASE a.status \notin T!OpenAttempt
      BY <3>1, <3>2, <3>3, <3>4, <3>5 DEF T!reconcileOrphans, Cut
    <3>6. CASE a.status \in T!OpenAttempt
      <4>1. PICK usage \in {"exact", "unavailable"} :
                 usage = IF f.event = "stored" THEN "exact" ELSE "unavailable"
        OBVIOUS
      <4>2. b = Closed(f, "cancelled", usage)
        BY <3>2, <3>3, <3>6, <4>1 DEF T!reconcileOrphans, Closed
      <4>3. "cancelled" \in T!Terminal
        BY DEF T!Terminal
      <4>4. b.status = "cancelled"
        BY <3>4, <4>1, <4>2, <4>3, Finalising
      <4> QED
        BY <3>1, <3>6, <4>4 DEF Cut
    <3> QED
      BY <3>5, <3>6
  <2>3. \A t \in Turns : Sent(turn'[t], attempt'[t])
    BY <2>1 DEF Sent, Answered
  <2> QED
    BY <2>2, <2>3 DEF SentInv, Sent
<1>3. CASE T!reconcileReservations
  <2>1. turn' = turn /\ \A t \in Turns : \E o : attempt'[t] = T!resolve(attempt[t], o)
    BY <1>3 DEF T!reconcileReservations
  <2>2. ASSUME NEW t \in Turns
        PROVE  attempt'[t].status = attempt[t].status
               /\ attempt'[t].dispatching = attempt[t].dispatching
    <3>1. PICK o : attempt'[t] = T!resolve(attempt[t], o)
      BY <2>1
    <3> QED
      BY <1>1, <3>1 DEF T!resolve, IsAttempt
  <2>3. \A t \in Turns : Sent(turn'[t], attempt'[t])
    BY <1>1, <2>1, <2>2 DEF Sent
  <2> QED
    BY <2>2, <2>3 DEF SentInv, Sent, Cut
<1> QED
  BY <1>2, <1>3

(* One attempt moves on as leased work does, or open ones are dropped.       *)
Going(v, w) ==
  \/ w = v
  \/ v = "absent" /\ w = "queued"
  \/ v = "queued" /\ w \in {"held", "dropped"}
  \/ v = "held" /\ w \in {"applied", "dropped"}
StatesMove ==
  /\ \A t \in Turns : T!AttemptState(t)' \in {"absent", "queued", "held", "applied", "dropped"}
  /\ \/ \E t \in Turns : /\ Going(T!AttemptState(t), T!AttemptState(t)')
                         /\ \A u \in Turns \ {t} : T!AttemptState(u)' = T!AttemptState(u)
     \/ \A t \in Turns : \/ T!AttemptState(t)' = T!AttemptState(t)
                         \/ T!AttemptState(t) \in {"queued", "held"} /\ T!AttemptState(t)' = "dropped"

\* what the composition needs of a step, in one formula without assumptions
AttemptSound ==
  TurnInv /\ SentInv /\ TurnInv' /\ [T!Next]_(T!turnVars) => SentInv' /\ StatesMove

(* Every step keeps what the handlers have sent, and moves the attempts so.  *)
LEMMA AttemptSteps == AttemptSound
<1> SUFFICES ASSUME TurnInv, SentInv, TurnInv', [T!Next]_(T!turnVars)
             PROVE  SentInv' /\ StatesMove
  BY DEF AttemptSound
<1>1. \A t \in Turns : IsAttempt(attempt[t]) /\ IsAttempt(attempt'[t])
  BY DEF TurnInv, TurnTypes, IsAttempt
<1>2. ASSUME NEW t \in Turns
      PROVE  T!AttemptState(t)' \in {"absent", "queued", "held", "applied", "dropped"}
  <2>1. attempt'[t].status \in {"absent", "succeeded", "failed", "cancelled"} \cup T!OpenAttempt
    BY <1>1 DEF IsAttempt, T!Terminal
  <2> QED
    BY <2>1 DEF T!AttemptState, T!OpenAttempt
<1>3. ASSUME NEW t \in Turns, Advances(attempt[t], attempt'[t])
      PROVE  Going(T!AttemptState(t), T!AttemptState(t)')
  BY <1>3 DEF Advances, Going, T!AttemptState, T!OpenAttempt, T!Terminal
<1>4. ASSUME NEW t \in Turns, Cut(attempt[t], attempt'[t])
      PROVE  \/ T!AttemptState(t)' = T!AttemptState(t)
             \/ T!AttemptState(t) \in {"queued", "held"} /\ T!AttemptState(t)' = "dropped"
  BY <1>4 DEF Cut, T!AttemptState, T!OpenAttempt
<1>5. ASSUME NEW t \in Turns, attempt'[t] = attempt[t]
      PROVE  T!AttemptState(t)' = T!AttemptState(t)
  BY <1>5 DEF T!AttemptState
<1>6. ASSUME NEW t \in Turns,
             T!Handle(t) \/ T!startVisibleOutput(t) \/ T!Stop(t) \/ T!TelemetryRetries(t)
      PROVE  SentInv' /\ StatesMove
  <2>1. /\ \A u \in Turns \ {t} : turn'[u] = turn[u] /\ attempt'[u] = attempt[u]
        /\ Sent(turn'[t], attempt'[t]) /\ Advances(attempt[t], attempt'[t])
    BY <1>6, OneMoves
  <2>2. \A u \in Turns : Sent(turn'[u], attempt'[u])
    BY <2>1 DEF SentInv
  <2> QED
    BY <1>2, <1>3, <1>5, <2>1, <2>2 DEF SentInv, Sent, StatesMove
<1>7. CASE T!Restart \/ T!reconcileReservations
  <2>1. SentInv' /\ \A t \in Turns : Cut(attempt[t], attempt'[t])
    BY <1>7, AllMove
  <2> QED
    BY <1>2, <1>4, <2>1 DEF StatesMove
<1>8. ASSUME attempt' = attempt, \A t \in Turns : turn'[t] = turn[t] \/ turn'[t].pc = "prepared"
      PROVE  SentInv' /\ StatesMove
  <2>1. \A t \in Turns : Sent(turn'[t], attempt'[t])
    BY <1>8 DEF SentInv, Sent, Answered
  <2> QED
    BY <1>2, <1>5, <1>8, <2>1 DEF SentInv, Sent, StatesMove
<1>9. ASSUME NEW c \in Conversations,
             \/ T!submitUserMessage(c) \/ T!BeginProposal(c) \/ T!SettleProposal(c)
             \/ T!ArchiveChecks(c) \/ T!ArchiveCommits(c)
      PROVE  attempt' = attempt /\ turn' = turn
  BY <1>9 DEF T!submitUserMessage, T!BeginProposal, T!SettleProposal, T!ArchiveChecks,
     T!ArchiveCommits
<1>10. ASSUME NEW c \in Conversations, NEW t \in Turns, NEW retry \in BOOLEAN,
              T!Prepare(t, c, retry)
       PROVE  attempt' = attempt /\ \A u \in Turns : turn'[u] = turn[u] \/ turn'[u].pc = "prepared"
  <2>1. turn = [u \in Turns |-> turn[u]]
    BY DEF TurnInv, TurnTypes
  <2>2. /\ attempt' = attempt
        /\ turn' = [turn EXCEPT ![t] =
             [T!NoTurn EXCEPT !.pc = "prepared", !.conv = c, !.msg = conv[c].msgs]]
    BY <1>10 DEF T!Prepare
  <2>3. [T!NoTurn EXCEPT !.pc = "prepared", !.conv = c, !.msg = conv[c].msgs].pc = "prepared"
    BY DEF T!NoTurn
  <2> QED
    BY <2>1, <2>2, <2>3
<1>11. CASE UNCHANGED T!turnVars
  BY <1>8, <1>11 DEF T!turnVars
<1> QED
  BY <1>6, <1>7, <1>8, <1>9, <1>10, <1>11 DEF T!Next

(* No call was sent and no attempt begun at first.                           *)
LEMMA NothingSent ==
  ASSUME T!Init
  PROVE  SentInv /\ \A t \in Turns : T!AttemptState(t) = "absent"
<1>1. \A t \in Turns : turn[t] = T!NoTurn /\ attempt[t] = T!NoAttempt
  BY DEF T!Init
<1> QED
  BY <1>1 DEF SentInv, Sent, Answered, T!NoTurn, T!NoAttempt, T!AttemptState,
     T!OpenAttempt

(* The attempts at an answer are leased work (turnRepository.ts, begin and   *)
(* the closing of an attempt; turnService.ts, the one call between them):    *)
(* each is begun once, its call leaves once, and it is closed once, however  *)
(* streams break, handlers are stopped and the server restarts.              *)
THEOREM TurnsLeased == T!Spec => T!TurnsAreLeasedWork
<1> DEFINE work == [t \in Turns |-> T!AttemptState(t)]
<1>1. T!Init => T!Attempts!Init
  BY NothingSent DEF T!Attempts!Init
<1>2. StatesMove => [T!Attempts!Next]_work
  <2> SUFFICES ASSUME StatesMove
               PROVE  T!Attempts!Step
    BY DEF T!Attempts!Next
  <2>1. \A t \in Turns : work[t] = T!AttemptState(t) /\ work'[t] = T!AttemptState(t)'
    OBVIOUS
  <2>2. work' \in [Turns -> T!Attempts!WorkStates]
    BY DEF StatesMove, T!Attempts!WorkStates
  <2> HIDE DEF work
  <2>3. \A t \in Turns : work'[t] # work[t] => T!Attempts!May(t, work'[t])
    BY <2>1 DEF StatesMove, Going, T!Attempts!May, T!Attempts!Closed, work
  <2>4. \A t, u \in Turns : work'[t] # work[t] /\ work'[u] # work[u] /\ work'[t] = work'[u]
          /\ work'[t] \in {"applied", "held", "queued"} => t = u
    BY <2>1 DEF StatesMove
  <2> QED
    BY <2>2, <2>3, <2>4 DEF T!Attempts!Step, T!Attempts!Moved, work
<1>3. TurnInv /\ [T!Next]_(T!turnVars) => TurnInv'
  BY TurnStepSound DEF TurnSound
<1>4. TurnInv /\ SentInv /\ TurnInv' /\ [T!Next]_(T!turnVars) => SentInv' /\ StatesMove
  BY AttemptSteps DEF AttemptSound
<1>5. T!Init => TurnInv /\ SentInv
  BY TurnInit, NothingSent
<1> QED
  BY <1>1, <1>2, <1>3, <1>4, <1>5, PTL DEF T!Spec, T!TurnsAreLeasedWork, T!Attempts!Spec

-----------------------------------------------------------------------------
(* The money of the turns                                                    *)

(* The policy of a finite number of turns, none of which is named as no      *)
(* turn is.                                                                  *)
Priced == IsFiniteSet(Turns) /\ 0 \notin Turns /\ MaxCharge \in Nat /\ Limit \in Nat

\* what an attempt has cost or may still cost; what its stored event tells of it
Owed(a) == CASE a.res = "settled" -> a.cost
             [] a.res \in {"active", "retained"} -> MaxCharge
             [] OTHER -> 0
Told(a) == IF a.event = "stored" THEN a.cost ELSE 0

OwedOf == [t \in Turns |-> Owed(attempt[t])]
ToldOf == [t \in Turns |-> Told(attempt[t])]
OwedSum == Sum(OwedOf, Turns)
ToldSum == Sum(ToldOf, Turns)

(* The amounts of an attempt's row.                                          *)
MoneyRow(a) ==
  /\ a.cost \in Nat /\ a.cost <= MaxCharge
  /\ a.res = "settled" => a.actual = a.cost
  /\ a.res = "retained" => a.actual = MaxCharge
  /\ a.res \notin {"active", "settled", "retained"} => a.cost = 0
  /\ ~ a.dispatching => a.cost = 0

(* What the place of a handler says of them.                                 *)
MoneyFits(x, a) ==
  /\ x.pc \in Unbegun => a.cost = 0
  /\ x.pc \in {"begun", "reserving"} => a.res = T!None
  /\ x.pc \in {"reserved", "sent"} => a.res = "active" /\ a.cost = 0
  /\ x.pc = "sent" => a.dispatching
  /\ x.pc \notin {"resolving", "ending", "done"} => a.event = T!None
  /\ x.release => a.cost = 0 /\ x.pc \in {"resolving", "ending", "done"}

Resting == {"idle", "done"}

(* A turn that reserves is alone, and what it has read, with what the stored *)
(* events tell by now, is no less than what is owed.                         *)
SpendInv ==
  /\ \A t \in Turns : MoneyRow(attempt[t]) /\ MoneyFits(turn[t], attempt[t])
  /\ booting => \A t \in Turns : turn[t].pc \in Resting
  /\ \A t \in Turns : turn[t].pc = "reserving" =>
       reader = t /\ turn[t].held \in Nat /\ OwedSum <= ToldSum + turn[t].held
  /\ OwedSum <= Limit

(* The amounts are naturals.                                                 *)
LEMMA Amounts ==
  ASSUME MaxCharge \in Nat, NEW a, MoneyRow(a)
  PROVE  Owed(a) \in Nat /\ Told(a) \in Nat /\ a.cost <= Owed(a) /\ Owed(a) <= MaxCharge
BY DEF MoneyRow, Owed, Told

(* The sum that a reservation takes over the open reservations.              *)
LEMMA CountedSum ==
  ASSUME NEW s \in SUBSET Turns, NEW f, \A t \in Turns : f[t] = T!Counted(attempt[t])
  PROVE  T!MapThenSumSet(LAMBDA t : T!Counted(attempt[t]), s) = Sum(f, s)
<1>1. ASSUME NEW g
      PROVE  AddsUp(f, s, g) <=>
               g = [u \in SUBSET s |-> IF u = {} THEN 0
                                       ELSE T!Counted(attempt[First(u)]) + g[u \ {First(u)}]]
  <2>1. \A u \in SUBSET s : u # {} => First(u) \in Turns
    BY DEF First
  <2>2. \A u \in SUBSET s :
          (IF u = {} THEN 0 ELSE T!Counted(attempt[First(u)]) + g[u \ {First(u)}]) =
          (IF u = {} THEN 0 ELSE f[First(u)] + g[u \ {First(u)}])
    BY <2>1
  <2>3. [u \in SUBSET s |-> IF u = {} THEN 0 ELSE T!Counted(attempt[First(u)]) + g[u \ {First(u)}]] =
        [u \in SUBSET s |-> IF u = {} THEN 0 ELSE f[First(u)] + g[u \ {First(u)}]]
    BY <2>2
  <2> QED
    BY <2>3 DEF AddsUp
<1>2. (CHOOSE g : AddsUp(f, s, g)) =
        CHOOSE g : g = [u \in SUBSET s |-> IF u = {} THEN 0
                                           ELSE T!Counted(attempt[First(u)]) + g[u \ {First(u)}]]
  BY <1>1
<1> QED
  BY <1>2, SumFolds DEF T!MapThenSumSet, T!MapThenFoldSet, First

(* The sums over what attempts have cost.                                    *)
LEMMA CostSum ==
  ASSUME NEW s \in SUBSET Turns, NEW f, \A t \in Turns : f[t] = attempt[t].cost
  PROVE  T!MapThenSumSet(LAMBDA t : attempt[t].cost, s) = Sum(f, s)
<1>1. ASSUME NEW g
      PROVE  AddsUp(f, s, g) <=>
               g = [u \in SUBSET s |-> IF u = {} THEN 0
                                       ELSE attempt[First(u)].cost + g[u \ {First(u)}]]
  <2>1. \A u \in SUBSET s : u # {} => First(u) \in Turns
    BY DEF First
  <2>2. \A u \in SUBSET s :
          (IF u = {} THEN 0 ELSE attempt[First(u)].cost + g[u \ {First(u)}]) =
          (IF u = {} THEN 0 ELSE f[First(u)] + g[u \ {First(u)}])
    BY <2>1
  <2>3. [u \in SUBSET s |-> IF u = {} THEN 0 ELSE attempt[First(u)].cost + g[u \ {First(u)}]] =
        [u \in SUBSET s |-> IF u = {} THEN 0 ELSE f[First(u)] + g[u \ {First(u)}]]
    BY <2>2
  <2> QED
    BY <2>3 DEF AddsUp
<1>2. (CHOOSE g : AddsUp(f, s, g)) =
        CHOOSE g : g = [u \in SUBSET s |-> IF u = {} THEN 0
                                           ELSE attempt[First(u)].cost + g[u \ {First(u)}]]
  BY <1>1
<1> QED
  BY <1>2, SumFolds DEF T!MapThenSumSet, T!MapThenFoldSet, First

(* What the policy's rows add up to.                                         *)
LEMMA PolicyReads ==
  ASSUME Priced, \A t \in Turns : MoneyRow(attempt[t])
  PROVE  /\ T!consumed = ToldSum
         /\ T!held \in Nat
         /\ OwedSum <= ToldSum + T!held
         /\ OwedSum \in Nat /\ ToldSum \in Nat
         /\ T!MapThenSumSet(LAMBDA t : attempt[t].cost, Turns) <= OwedSum
         /\ T!MapThenSumSet(LAMBDA t : attempt[t].cost, Turns) \in Nat
<1> DEFINE C == [t \in Turns |-> T!Counted(attempt[t])]
           K == [t \in Turns |-> attempt[t].cost]
           B == [t \in Turns |-> Told(attempt[t]) + T!Counted(attempt[t])]
<1>1. \A t \in Turns : /\ C[t] \in Nat /\ K[t] \in Nat /\ OwedOf[t] \in Nat /\ ToldOf[t] \in Nat
                       /\ K[t] <= OwedOf[t] /\ B[t] \in Nat /\ OwedOf[t] <= B[t]
                       /\ B[t] = ToldOf[t] + C[t]
  BY DEF Priced, MoneyRow, Owed, Told, OwedOf, ToldOf, T!Counted
<1>2. T!held = Sum(C, Turns)
  BY CountedSum DEF T!held
<1>3. T!consumed = Sum(K, {t \in Turns : attempt[t].event = "stored"})
  <2>1. {t \in Turns : attempt[t].event = "stored"} \in SUBSET Turns
    OBVIOUS
  <2> QED
    BY <2>1, CostSum DEF T!consumed
<1>4. T!MapThenSumSet(LAMBDA t : attempt[t].cost, Turns) = Sum(K, Turns)
  BY CostSum
<1>5. \A t \in Turns : ToldOf[t] = IF t \in {u \in Turns : attempt[u].event = "stored"} THEN K[t] ELSE 0
  BY DEF ToldOf, Told
<1> HIDE DEF C, K, B
<1>6. Sum(K, {t \in Turns : attempt[t].event = "stored"}) = ToldSum
  BY <1>1, <1>5, SumInside DEF Priced, ToldSum
<1>7. Sum(B, Turns) = ToldSum + Sum(C, Turns)
  BY <1>1, SumOfBoth DEF Priced, ToldSum
<1>8. OwedSum <= Sum(B, Turns)
  BY <1>1, SumGrows DEF Priced, OwedSum
<1>9. Sum(K, Turns) <= OwedSum
  BY <1>1, SumGrows DEF Priced, OwedSum
<1>10. OwedSum \in Nat /\ ToldSum \in Nat /\ Sum(C, Turns) \in Nat /\ Sum(K, Turns) \in Nat
  BY <1>1, SumIsNat DEF Priced, OwedSum, ToldSum
<1> QED
  BY <1>2, <1>3, <1>4, <1>6, <1>7, <1>8, <1>9, <1>10

(* A step that lets nothing more be owed, nor less be told.                  *)
LEMMA SpendStays ==
  ASSUME Priced, SpendInv,
         \A u \in Turns :
           /\ MoneyRow(attempt'[u]) /\ MoneyFits(turn'[u], attempt'[u])
           /\ Owed(attempt'[u]) <= Owed(attempt[u]) /\ Told(attempt[u]) <= Told(attempt'[u])
           /\ turn'[u].pc = "reserving" => turn'[u] = turn[u] /\ reader' = reader,
         booting' => \A u \in Turns : turn'[u].pc \in Resting
  PROVE  SpendInv'
<1>1. \A u \in Turns : /\ OwedOf'[u] \in Nat /\ OwedOf[u] \in Nat /\ OwedOf'[u] <= OwedOf[u]
                       /\ ToldOf'[u] \in Nat /\ ToldOf[u] \in Nat /\ ToldOf[u] <= ToldOf'[u]
  BY Amounts DEF OwedOf, ToldOf, Priced, SpendInv
<1>2. /\ OwedSum' <= OwedSum /\ ToldSum <= ToldSum'
      /\ OwedSum' \in Nat /\ OwedSum \in Nat /\ ToldSum' \in Nat /\ ToldSum \in Nat
  <2>1. IsFiniteSet(Turns)
    BY DEF Priced
  <2>2. Sum(OwedOf', Turns) <= Sum(OwedOf, Turns) /\ Sum(ToldOf, Turns) <= Sum(ToldOf', Turns)
    BY <1>1, <2>1, SumGrows
  <2>3. /\ Sum(OwedOf', Turns) \in Nat /\ Sum(OwedOf, Turns) \in Nat
        /\ Sum(ToldOf', Turns) \in Nat /\ Sum(ToldOf, Turns) \in Nat
    BY <1>1, <2>1, SumIsNat
  <2>4. OwedSum' = Sum(OwedOf', Turns) /\ ToldSum' = Sum(ToldOf', Turns)
    BY DEF OwedSum, ToldSum
  <2> QED
    BY <2>2, <2>3, <2>4 DEF OwedSum, ToldSum
<1>3. \A t \in Turns : turn'[t].pc = "reserving" =>
        reader' = t /\ turn'[t].held \in Nat /\ OwedSum' <= ToldSum' + turn'[t].held
  BY <1>2 DEF SpendInv
<1>4. OwedSum' <= Limit
  BY <1>2 DEF SpendInv, Priced
<1>5. \A u \in Turns : (MoneyRow(attempt[u]) /\ MoneyFits(turn[u], attempt[u]))'
  BY DEF MoneyRow, MoneyFits
<1> QED
  BY <1>3, <1>4, <1>5 DEF SpendInv

(* A step of one turn that reserves nothing.                                 *)
LEMMA SpendTurn ==
  ASSUME Priced, TurnInv, SpendInv, NEW t \in Turns, NEW x, NEW a,
         turn' = [turn EXCEPT ![t] = x], attempt' = [attempt EXCEPT ![t] = a],
         MoneyRow(a), MoneyFits(x, a),
         Owed(a) <= Owed(attempt[t]), Told(attempt[t]) <= Told(a),
         x.pc # "reserving", reader' = reader \/ turn[t].pc = "reserving",
         booting' => booting /\ x.pc \in Resting
  PROVE  SpendInv'
<1>1. /\ turn = [u \in Turns |-> turn[u]] /\ attempt = [u \in Turns |-> attempt[u]]
  BY DEF TurnInv, TurnTypes
<1>2. /\ turn'[t] = x /\ attempt'[t] = a
      /\ \A u \in Turns \ {t} : turn'[u] = turn[u] /\ attempt'[u] = attempt[u]
  BY <1>1
<1>3. ASSUME NEW u \in Turns
      PROVE  /\ MoneyRow(attempt'[u]) /\ MoneyFits(turn'[u], attempt'[u])
             /\ Owed(attempt'[u]) <= Owed(attempt[u]) /\ Told(attempt[u]) <= Told(attempt'[u])
             /\ turn'[u].pc = "reserving" => turn'[u] = turn[u] /\ reader' = reader
  <2>1. CASE u = t
    BY <1>2, <2>1
  <2>2. CASE u # t
    <3>1. Owed(attempt[u]) \in Nat /\ Told(attempt[u]) \in Nat
      BY Amounts DEF SpendInv, Priced
    <3>2. turn[u].pc = "reserving" => reader = u
      BY DEF SpendInv
    <3>3. turn[t].pc = "reserving" => reader = t
      BY DEF SpendInv
    <3> QED
      BY <1>2, <2>2, <3>1, <3>2, <3>3 DEF SpendInv
  <2> QED
    BY <2>1, <2>2
<1>4. booting' => \A u \in Turns : turn'[u].pc \in Resting
  BY <1>2 DEF SpendInv
<1> QED
  BY <1>3, <1>4, SpendStays

(* One that leaves the amounts of its attempt as they were.                  *)
LEMMA SpendSame ==
  ASSUME Priced, SpendInv, NEW t \in Turns, NEW a, a.res = attempt[t].res,
         a.actual = attempt[t].actual, a.cost = attempt[t].cost, a.event = attempt[t].event,
         attempt[t].dispatching => a.dispatching
  PROVE  /\ MoneyRow(a) /\ Owed(a) <= Owed(attempt[t]) /\ Told(attempt[t]) <= Told(a)
<1>1. MoneyRow(attempt[t])
  BY DEF SpendInv
<1>2. MoneyRow(a)
  BY <1>1 DEF MoneyRow
<1>3. Owed(attempt[t]) \in Nat /\ Told(attempt[t]) \in Nat
  BY <1>1, Amounts DEF Priced
<1> QED
  BY <1>2, <1>3 DEF Owed, Told

(* The steps of a handler around the call.                                   *)
LEMMA SpendHandler ==
  ASSUME Priced, TurnInv, SpendInv, NEW t \in Turns,
         \/ T!Begin(t) \/ T!FailUnsent(t) \/ T!Dispatch(t) \/ T!NotDispatched(t)
         \/ T!StreamEnds(t) \/ T!StreamBreaks(t) \/ T!Stop(t) \/ T!startVisibleOutput(t)
         \/ T!CloseAttempt(t)
  PROVE  SpendInv'
<1>1. IsTurn(turn[t]) /\ IsAttempt(attempt[t]) /\ turn = [u \in Turns |-> turn[u]]
        /\ attempt = [u \in Turns |-> attempt[u]]
  BY DEF TurnInv, TurnTypes
<1>2. MoneyRow(attempt[t]) /\ MoneyFits(turn[t], attempt[t])
        /\ (booting => turn[t].pc \in Resting)
  BY DEF SpendInv
<1>3. attempt = [attempt EXCEPT ![t] = attempt[t]]
  BY <1>1
<1>4. CASE T!Begin(t)
  <2>1. PICK p : p \in {"begun", "done"} /\ turn' = [turn EXCEPT ![t].pc = p]
                 /\ (p = "begun" => attempt' = [attempt EXCEPT ![t] =
                       [T!NoAttempt EXCEPT !.status = "pending", !.conv = turn[t].conv,
                                           !.msg = turn[t].msg]])
                 /\ (p = "done" => attempt' = attempt)
    BY <1>4 DEF T!Begin, T!GoTo
  <2>2. PICK x : x = [turn[t] EXCEPT !.pc = p]
    OBVIOUS
  <2>3. turn' = [turn EXCEPT ![t] = x] /\ x.pc = p /\ x.release = turn[t].release
    BY <1>1, <2>1, <2>2 DEF IsTurn
  <2>4. turn[t].pc = "prepared" /\ reader' = reader /\ booting' = booting
    BY <1>4 DEF T!Begin
  <2>5. CASE p = "done"
    <3>1. MoneyFits(x, attempt[t])
      BY <1>2, <2>3, <2>4, <2>5 DEF MoneyFits, Unbegun
    <3> QED
      BY <1>2, <1>3, <2>1, <2>3, <2>4, <2>5, <3>1, SpendSame, SpendTurn DEF Resting
  <2>6. CASE p = "begun"
    <3>1. PICK a : a = [T!NoAttempt EXCEPT !.status = "pending", !.conv = turn[t].conv,
                                           !.msg = turn[t].msg]
      OBVIOUS
    <3>2. a.res = T!None /\ a.cost = 0 /\ a.event = T!None /\ a.dispatching = FALSE
      BY <3>1 DEF T!NoAttempt
    <3>3. MoneyRow(a) /\ MoneyFits(x, a)
      BY <1>2, <2>3, <2>4, <2>6, <3>2 DEF MoneyRow, MoneyFits, Unbegun, Priced, T!None
    <3>4. Owed(a) = 0 /\ Told(a) = 0 /\ Owed(attempt[t]) \in Nat /\ Told(attempt[t]) = 0
      BY <1>2, <2>4, <3>2, Amounts DEF Owed, Told, Priced, MoneyFits, Unbegun, T!None
    <3>5. /\ attempt' = [attempt EXCEPT ![t] = a]
          /\ Owed(a) <= Owed(attempt[t]) /\ Told(attempt[t]) <= Told(a)
          /\ x.pc # "reserving" /\ reader' = reader /\ ~ booting'
      BY <1>2, <2>1, <2>3, <2>4, <2>6, <3>1, <3>4 DEF Resting
    <3> QED
      BY <2>3, <3>3, <3>5, SpendTurn
  <2> QED
    BY <2>1, <2>5, <2>6
<1>5. CASE T!FailUnsent(t)
  <2>1. PICK x, a : /\ x = [turn[t] EXCEPT !.pc = "done"]
                    /\ a = [attempt[t] EXCEPT !.status = "failed", !.usage = "unavailable"]
    OBVIOUS
  <2>2. /\ turn' = [turn EXCEPT ![t] = x] /\ attempt' = [attempt EXCEPT ![t] = a]
        /\ x.pc = "done" /\ x.release = turn[t].release
        /\ a.res = attempt[t].res /\ a.actual = attempt[t].actual /\ a.cost = attempt[t].cost
        /\ a.event = attempt[t].event /\ a.dispatching = attempt[t].dispatching
        /\ reader' = reader /\ booting' = booting /\ turn[t].pc \in {"begun", "refused"}
    BY <1>1, <1>5, <2>1 DEF T!FailUnsent, T!GoTo, IsTurn, IsAttempt
  <2>3. MoneyFits(x, a)
    BY <1>2, <2>2 DEF MoneyFits, Unbegun
  <2> QED
    BY <1>2, <2>2, <2>3, SpendSame, SpendTurn DEF Resting
<1>6. CASE T!Dispatch(t)
  <2>1. PICK x, a : /\ x = [turn[t] EXCEPT !.pc = "sent"]
                    /\ a = [attempt[t] EXCEPT !.dispatching = TRUE]
    OBVIOUS
  <2>2. /\ turn' = [turn EXCEPT ![t] = x] /\ attempt' = [attempt EXCEPT ![t] = a]
        /\ x.pc = "sent" /\ x.release = turn[t].release
        /\ a.res = attempt[t].res /\ a.actual = attempt[t].actual /\ a.cost = attempt[t].cost
        /\ a.event = attempt[t].event /\ a.dispatching
        /\ reader' = reader /\ booting' = booting /\ turn[t].pc = "reserved"
    BY <1>1, <1>6, <2>1 DEF T!Dispatch, T!GoTo, IsTurn, IsAttempt
  <2>3. MoneyFits(x, a)
    BY <1>2, <2>2 DEF MoneyFits, Unbegun
  <2> QED
    BY <1>2, <2>2, <2>3, SpendSame, SpendTurn DEF Resting
<1>7. CASE T!NotDispatched(t)
  <2>1. PICK x : x = [turn[t] EXCEPT !.pc = "resolving", !.end = T!Broken(t), !.release = TRUE]
    OBVIOUS
  <2>2. /\ turn' = [turn EXCEPT ![t] = x] /\ attempt' = attempt /\ x.pc = "resolving"
        /\ reader' = reader /\ booting' = booting /\ turn[t].pc = "sent"
    BY <1>1, <1>7, <2>1 DEF T!NotDispatched, IsTurn
  <2>3. MoneyFits(x, attempt[t])
    BY <1>2, <2>2 DEF MoneyFits, Unbegun
  <2> QED
    BY <1>2, <1>3, <2>2, <2>3, SpendSame, SpendTurn DEF Resting
<1>8. CASE T!StreamEnds(t)
  <2>1. PICK x : x = [turn[t] EXCEPT !.pc = "observing", !.known = TRUE,
                        !.end = IF attempt[t].output = T!None THEN T!Broken(t) ELSE "succeeded"]
    OBVIOUS
  <2>2. /\ turn' = [turn EXCEPT ![t] = x] /\ attempt' = attempt /\ x.pc = "observing"
        /\ x.release = turn[t].release
        /\ reader' = reader /\ booting' = booting /\ turn[t].pc = "streaming"
    BY <1>1, <1>8, <2>1 DEF T!StreamEnds, IsTurn
  <2>3. MoneyFits(x, attempt[t])
    BY <1>2, <2>2 DEF MoneyFits, Unbegun
  <2> QED
    BY <1>2, <1>3, <2>2, <2>3, SpendSame, SpendTurn DEF Resting
<1>9. CASE T!StreamBreaks(t)
  <2>1. PICK x : x = [turn[t] EXCEPT !.pc = "resolving", !.end = T!Broken(t)]
    OBVIOUS
  <2>2. /\ turn' = [turn EXCEPT ![t] = x] /\ attempt' = attempt /\ x.pc = "resolving"
        /\ x.release = turn[t].release
        /\ reader' = reader /\ booting' = booting /\ turn[t].pc = "streaming"
    BY <1>1, <1>9, <2>1 DEF T!StreamBreaks, IsTurn
  <2>3. MoneyFits(x, attempt[t])
    BY <1>2, <2>2 DEF MoneyFits, Unbegun
  <2> QED
    BY <1>2, <1>3, <2>2, <2>3, SpendSame, SpendTurn DEF Resting
<1>10. CASE T!Stop(t)
  <2>1. PICK x : x = [turn[t] EXCEPT !.aborted = TRUE]
    OBVIOUS
  <2>2. /\ turn' = [turn EXCEPT ![t] = x] /\ attempt' = attempt /\ x.pc = turn[t].pc
        /\ x.release = turn[t].release
        /\ reader' = reader /\ booting' = booting /\ turn[t].pc \in {"sent", "streaming"}
    BY <1>1, <1>10, <2>1 DEF T!Stop, IsTurn
  <2>3. MoneyFits(x, attempt[t])
    BY <1>2, <2>2 DEF MoneyFits, Unbegun
  <2> QED
    BY <1>2, <1>3, <2>2, <2>3, SpendSame, SpendTurn DEF Resting
<1>11. CASE T!startVisibleOutput(t)
  <2>1. PICK p, o : /\ p \in {"streaming", "resolving"}
                    /\ attempt' = [attempt EXCEPT ![t].output = o]
                    /\ \/ turn' = turn /\ p = "streaming"
                       \/ turn' = [turn EXCEPT ![t].pc = p, ![t].end = T!Broken(t)]
                          /\ p = "resolving"
    <3>1. attempt = [attempt EXCEPT ![t].output = attempt[t].output]
      BY <1>1 DEF IsAttempt
    <3> QED
      BY <1>11, <3>1 DEF T!startVisibleOutput
  <2>2. PICK x, a : /\ a = [attempt[t] EXCEPT !.output = o]
                    /\ x = IF p = "streaming" THEN turn[t]
                           ELSE [turn[t] EXCEPT !.pc = p, !.end = T!Broken(t)]
    OBVIOUS
  <2>3. turn[t].pc = "streaming" /\ reader' = reader /\ booting' = booting
    BY <1>11 DEF T!startVisibleOutput
  <2>4. /\ turn' = [turn EXCEPT ![t] = x] /\ attempt' = [attempt EXCEPT ![t] = a]
        /\ x.pc = p /\ x.release = turn[t].release
        /\ a.res = attempt[t].res /\ a.actual = attempt[t].actual /\ a.cost = attempt[t].cost
        /\ a.event = attempt[t].event /\ a.dispatching = attempt[t].dispatching
    BY <1>1, <2>1, <2>2, <2>3 DEF IsTurn, IsAttempt
  <2>5. MoneyFits(x, a)
    BY <1>2, <2>1, <2>3, <2>4 DEF MoneyFits, Unbegun
  <2>6. x.pc # "reserving" /\ ~ booting'
    BY <1>2, <2>1, <2>3, <2>4 DEF Resting
  <2>7. MoneyRow(a) /\ Owed(a) <= Owed(attempt[t]) /\ Told(attempt[t]) <= Told(a)
    BY <2>4, SpendSame
  <2> QED
    BY <2>3, <2>4, <2>5, <2>6, <2>7, SpendTurn
<1>12. CASE T!CloseAttempt(t)
  <2>1. PICK x, a : /\ x = [turn[t] EXCEPT !.pc = "done"]
                    /\ a = Closed(attempt[t], turn[t].end,
                                  IF turn[t].known THEN "exact" ELSE "unavailable")
    OBVIOUS
  <2>2. /\ turn' = [turn EXCEPT ![t] = x] /\ attempt' = [attempt EXCEPT ![t] = a]
        /\ x.pc = "done" /\ x.release = turn[t].release
        /\ a.res = attempt[t].res /\ a.actual = attempt[t].actual /\ a.cost = attempt[t].cost
        /\ a.event = attempt[t].event /\ a.dispatching = attempt[t].dispatching
        /\ reader' = reader /\ booting' = booting /\ turn[t].pc = "ending"
    BY <1>1, <1>12, <2>1 DEF T!CloseAttempt, T!GoTo, Closed, T!Finalised, IsTurn, IsAttempt
  <2>3. MoneyFits(x, a)
    BY <1>2, <2>2 DEF MoneyFits, Unbegun
  <2> QED
    BY <1>2, <2>2, <2>3, SpendSame, SpendTurn DEF Resting
<1> QED
  BY <1>4, <1>5, <1>6, <1>7, <1>8, <1>9, <1>10, <1>11, <1>12

(* The call itself, what is recorded of it, and how its reservation ends.    *)
LEMMA SpendCall ==
  ASSUME Priced, TurnInv, SpendInv, NEW t \in Turns,
         T!ResponseStarts(t) \/ T!Observe(t) \/ T!TelemetryRetries(t) \/ T!Resolve(t)
  PROVE  SpendInv'
<1>1. IsTurn(turn[t]) /\ IsAttempt(attempt[t]) /\ turn = [u \in Turns |-> turn[u]]
        /\ attempt = [u \in Turns |-> attempt[u]]
  BY DEF TurnInv, TurnTypes
<1>2. MoneyRow(attempt[t]) /\ MoneyFits(turn[t], attempt[t])
        /\ (booting => turn[t].pc \in Resting)
  BY DEF SpendInv
<1>3. attempt = [attempt EXCEPT ![t] = attempt[t]] /\ turn = [turn EXCEPT ![t] = turn[t]]
  BY <1>1
<1>4. CASE T!ResponseStarts(t)
  <2>1. PICK cost, p, x, a :
             /\ cost \in 0 .. MaxCharge
             /\ p \in {"streaming", "resolving"}
             /\ a = IF p = "resolving" THEN [attempt[t] EXCEPT !.cost = cost]
                    ELSE [attempt[t] EXCEPT !.cost = cost, !.provider = TRUE,
                                            !.status = "streaming"]
             /\ x = IF p = "resolving" THEN [turn[t] EXCEPT !.pc = p, !.end = T!Broken(t)]
                    ELSE [turn[t] EXCEPT !.pc = p]
             /\ turn' = [turn EXCEPT ![t] = x] /\ attempt' = [attempt EXCEPT ![t] = a]
    <3>1. PICK cost \in 0 .. MaxCharge :
            \/ /\ attempt' = [attempt EXCEPT ![t].cost = cost, ![t].provider = TRUE,
                                             ![t].status = "streaming"]
               /\ turn' = [turn EXCEPT ![t].pc = "streaming"]
            \/ /\ attempt' = [attempt EXCEPT ![t].cost = cost]
               /\ turn' = [turn EXCEPT ![t].pc = "resolving", ![t].end = T!Broken(t)]
      BY <1>4 DEF T!ResponseStarts, T!GoTo
    <3>2. CASE turn' = [turn EXCEPT ![t].pc = "streaming"]
               /\ attempt' = [attempt EXCEPT ![t].cost = cost, ![t].provider = TRUE,
                                             ![t].status = "streaming"]
      <4>1. PICK x, a : /\ a = [attempt[t] EXCEPT !.cost = cost, !.provider = TRUE,
                                                  !.status = "streaming"]
                        /\ x = [turn[t] EXCEPT !.pc = "streaming"]
        OBVIOUS
      <4>2. turn' = [turn EXCEPT ![t] = x] /\ attempt' = [attempt EXCEPT ![t] = a]
        BY <1>1, <3>2, <4>1
      <4> QED
        BY <4>1, <4>2
    <3>3. CASE turn' = [turn EXCEPT ![t].pc = "resolving", ![t].end = T!Broken(t)]
               /\ attempt' = [attempt EXCEPT ![t].cost = cost]
      <4>1. PICK x, a : /\ a = [attempt[t] EXCEPT !.cost = cost]
                        /\ x = [turn[t] EXCEPT !.pc = "resolving", !.end = T!Broken(t)]
        OBVIOUS
      <4>2. turn' = [turn EXCEPT ![t] = x] /\ attempt' = [attempt EXCEPT ![t] = a]
        BY <1>1, <3>3, <4>1
      <4> QED
        BY <4>1, <4>2
    <3> QED
      BY <3>1, <3>2, <3>3
  <2>2. /\ x.pc = p /\ x.release = turn[t].release
        /\ a.res = attempt[t].res /\ a.cost = cost
        /\ a.event = attempt[t].event /\ a.dispatching = attempt[t].dispatching
        /\ reader' = reader /\ booting' = booting /\ turn[t].pc = "sent"
    BY <1>1, <1>4, <2>1 DEF T!ResponseStarts, IsTurn, IsAttempt
  <2>3. a.res = "active" /\ a.dispatching /\ a.event = T!None /\ ~ x.release
    BY <1>2, <2>2 DEF MoneyFits, Unbegun
  <2>4. MoneyRow(a) /\ MoneyFits(x, a)
    BY <2>1, <2>2, <2>3 DEF Priced, MoneyRow, MoneyFits, Unbegun
  <2>5. Owed(a) = MaxCharge /\ Owed(attempt[t]) = MaxCharge /\ Told(a) = 0 /\ Told(attempt[t]) = 0
    BY <2>2, <2>3 DEF Owed, Told, T!None
  <2>6. /\ Owed(a) <= Owed(attempt[t]) /\ Told(attempt[t]) <= Told(a)
        /\ x.pc # "reserving" /\ ~ booting'
    BY <1>2, <2>1, <2>2, <2>5 DEF Priced, Resting
  <2> QED
    BY <2>1, <2>2, <2>4, <2>6, SpendTurn
<1>5. CASE T!Observe(t)
  <2>1. PICK e \in {"stored", "queued"} : attempt' = [attempt EXCEPT ![t].event = e]
    BY <1>5 DEF T!Observe
  <2>2. PICK x, a : x = [turn[t] EXCEPT !.pc = "resolving"] /\ a = [attempt[t] EXCEPT !.event = e]
    OBVIOUS
  <2>3. /\ turn' = [turn EXCEPT ![t] = x] /\ attempt' = [attempt EXCEPT ![t] = a]
        /\ x.pc = "resolving" /\ x.release = turn[t].release
        /\ a.res = attempt[t].res /\ a.actual = attempt[t].actual /\ a.cost = attempt[t].cost
        /\ a.event = e /\ a.dispatching = attempt[t].dispatching
        /\ reader' = reader /\ booting' = booting /\ turn[t].pc = "observing"
    BY <1>1, <1>5, <2>1, <2>2 DEF T!Observe, T!GoTo, IsTurn, IsAttempt
  <2>4. MoneyRow(a) /\ MoneyFits(x, a) /\ attempt[t].event = T!None
    BY <1>2, <2>3 DEF MoneyRow, MoneyFits, Unbegun
  <2>5. Owed(a) = Owed(attempt[t]) /\ Owed(a) \in Nat /\ Told(a) \in Nat /\ Told(attempt[t]) = 0
    BY <2>3, <2>4, Amounts DEF Owed, Told, Priced, T!None
  <2>6. /\ Owed(a) <= Owed(attempt[t]) /\ Told(attempt[t]) <= Told(a)
        /\ x.pc # "reserving" /\ ~ booting'
    BY <1>2, <2>3, <2>5 DEF Resting
  <2> QED
    BY <2>3, <2>4, <2>6, SpendTurn
<1>6. CASE T!TelemetryRetries(t)
  <2>1. PICK e \in {"stored", T!None} : attempt' = [attempt EXCEPT ![t].event = e]
    BY <1>6 DEF T!TelemetryRetries
  <2>2. PICK a : a = [attempt[t] EXCEPT !.event = e]
    OBVIOUS
  <2>3. /\ turn' = turn /\ attempt' = [attempt EXCEPT ![t] = a]
        /\ a.res = attempt[t].res /\ a.actual = attempt[t].actual /\ a.cost = attempt[t].cost
        /\ a.event = e /\ a.dispatching = attempt[t].dispatching
        /\ reader' = reader /\ booting' = booting /\ attempt[t].event = "queued"
    BY <1>1, <1>6, <2>1, <2>2 DEF T!TelemetryRetries, IsAttempt
  <2>4. turn[t].pc \in {"resolving", "ending", "done"}
    BY <1>2, <2>3 DEF MoneyFits, T!None
  <2>5. MoneyRow(a) /\ MoneyFits(turn[t], a)
    BY <1>2, <2>3, <2>4 DEF MoneyRow, MoneyFits, Unbegun
  <2>6. Owed(a) = Owed(attempt[t]) /\ Owed(a) \in Nat /\ Told(a) \in Nat /\ Told(attempt[t]) = 0
    BY <2>3, <2>5, Amounts DEF Owed, Told, Priced
  <2>7. /\ Owed(a) <= Owed(attempt[t]) /\ Told(attempt[t]) <= Told(a)
        /\ turn[t].pc # "reserving" /\ (booting' => booting /\ turn[t].pc \in Resting)
        /\ turn' = [turn EXCEPT ![t] = turn[t]]
    BY <1>2, <1>3, <2>3, <2>4, <2>6
  <2> QED
    BY <2>3, <2>5, <2>7, SpendTurn
<1>7. CASE T!Resolve(t)
  <2>1. PICK o, a : /\ o \in {"kept", "settled", "released", "retained"}
                    /\ a = IF o = "kept" THEN attempt[t] ELSE T!resolve(attempt[t], o)
                    /\ o = "released" => turn[t].release
                    /\ attempt' = [attempt EXCEPT ![t] = a]
    BY <1>3, <1>7 DEF T!Resolve, T!Outcome
  <2>2. PICK x : x = [turn[t] EXCEPT !.pc = "ending"]
    OBVIOUS
  <2>3. /\ turn' = [turn EXCEPT ![t] = x]
        /\ x.pc = "ending" /\ x.release = turn[t].release
        /\ reader' = reader /\ booting' = booting /\ turn[t].pc = "resolving"
    BY <1>1, <1>7, <2>2 DEF T!Resolve, T!GoTo, IsTurn
  <2>4. /\ a.cost = attempt[t].cost /\ a.event = attempt[t].event
        /\ a.dispatching = attempt[t].dispatching
        /\ IF o = "kept" \/ attempt[t].res # "active"
           THEN a.res = attempt[t].res /\ a.actual = attempt[t].actual
           ELSE /\ a.res = o /\ attempt[t].res = "active"
                /\ o = "settled" => a.actual = attempt[t].cost
                /\ o = "retained" => a.actual = MaxCharge
    BY <1>1, <2>1 DEF T!resolve, IsAttempt
  <2>5. turn[t].release => a.cost = 0
    BY <1>2, <2>4 DEF MoneyFits
  <2>6. MoneyRow(a) /\ MoneyFits(x, a)
    BY <1>2, <2>1, <2>3, <2>4, <2>5 DEF MoneyRow, MoneyFits, Unbegun
  <2>7. Owed(a) <= Owed(attempt[t]) /\ Told(attempt[t]) <= Told(a)
    BY <1>2, <2>1, <2>4, <2>6, Amounts DEF Owed, Told, Priced, MoneyRow
  <2>8. x.pc # "reserving" /\ ~ booting'
    BY <1>2, <2>3 DEF Resting
  <2> QED
    BY <2>1, <2>3, <2>6, <2>7, <2>8, SpendTurn
<1> QED
  BY <1>4, <1>5, <1>6, <1>7

(* A reservation reads under the policy's lock,                              *)
LEMMA ReadsSpend ==
  ASSUME Priced, TurnInv, SpendInv, NEW t \in Turns, T!ReserveReads(t)
  PROVE  SpendInv'
<1>1. turn[t].pc = "begun" /\ reader = 0 /\ reader' = t /\ attempt' = attempt /\ booting' = booting
  BY DEF T!ReserveReads
<1>2. turn' = [turn EXCEPT ![t] = [turn[t] EXCEPT !.pc = "reserving", !.held = T!held]]
  BY DEF T!ReserveReads, TurnInv, TurnTypes, IsTurn
<1>3. /\ turn'[t].pc = "reserving" /\ turn'[t].held = T!held
      /\ turn'[t].release = turn[t].release
      /\ \A u \in Turns \ {t} : turn'[u] = turn[u]
  BY <1>2 DEF TurnInv, TurnTypes, IsTurn
<1>4. /\ T!held \in Nat /\ OwedSum <= ToldSum + T!held
  BY PolicyReads DEF SpendInv
<1>5. OwedSum' = OwedSum /\ ToldSum' = ToldSum
  BY <1>1 DEF OwedSum, ToldSum, OwedOf, ToldOf
<1>6. \A u \in Turns : MoneyRow(attempt'[u]) /\ MoneyFits(turn'[u], attempt'[u])
  <2>1. MoneyRow(attempt[t]) /\ MoneyFits(turn[t], attempt[t])
    BY DEF SpendInv
  <2>2. MoneyFits(turn'[t], attempt[t])
    BY <1>1, <1>3, <2>1 DEF MoneyFits, Unbegun
  <2> QED
    BY <1>1, <1>3, <2>2 DEF SpendInv
<1>7. \A u \in Turns : (MoneyRow(attempt[u]) /\ MoneyFits(turn[u], attempt[u]))'
  BY <1>6 DEF MoneyRow, MoneyFits
<1>8. ~ booting'
  BY <1>1 DEF SpendInv, Resting
<1>9. \A u \in Turns : turn'[u].pc = "reserving" =>
        reader' = u /\ turn'[u].held \in Nat /\ OwedSum' <= ToldSum' + turn'[u].held
  BY <1>1, <1>3, <1>4, <1>5 DEF SpendInv, Priced
<1> QED
  BY <1>5, <1>7, <1>8, <1>9 DEF SpendInv

(* and then reserves what the limit leaves, or nothing.                      *)
LEMMA ReservesSpend ==
  ASSUME Priced, TurnInv, SpendInv, NEW t \in Turns, T!Reserve(t)
  PROVE  SpendInv'
<1>1. turn[t].pc = "reserving" /\ reader' = 0 /\ booting' = booting
  BY DEF T!Reserve
<1>2. IsTurn(turn[t]) /\ IsAttempt(attempt[t]) /\ turn = [u \in Turns |-> turn[u]]
        /\ attempt = [u \in Turns |-> attempt[u]]
  BY DEF TurnInv, TurnTypes
<1>3. MoneyRow(attempt[t]) /\ MoneyFits(turn[t], attempt[t]) /\ ~ booting
        /\ reader = t /\ turn[t].held \in Nat /\ OwedSum <= ToldSum + turn[t].held
  BY <1>1 DEF SpendInv, Resting
<1>4. CASE T!consumed + turn[t].held + MaxCharge <= Limit
  <2>1. PICK x, a : x = [turn[t] EXCEPT !.pc = "reserved"] /\ a = [attempt[t] EXCEPT !.res = "active"]
    OBVIOUS
  <2>2. /\ turn' = [turn EXCEPT ![t] = x] /\ attempt' = [attempt EXCEPT ![t] = a]
        /\ x.pc = "reserved" /\ x.release = turn[t].release /\ a.res = "active"
        /\ a.actual = attempt[t].actual /\ a.cost = attempt[t].cost
        /\ a.event = attempt[t].event /\ a.dispatching = attempt[t].dispatching
    BY <1>2, <1>4, <2>1 DEF T!Reserve, T!GoTo, IsTurn, IsAttempt
  <2>3. /\ turn'[t] = x /\ attempt'[t] = a
        /\ \A u \in Turns \ {t} : turn'[u] = turn[u] /\ attempt'[u] = attempt[u]
    BY <1>2, <2>2
  <2>4. a.cost = 0 /\ a.event = T!None /\ ~ x.release /\ attempt[t].res = T!None
    BY <1>1, <1>3, <2>2 DEF MoneyRow, MoneyFits, Unbegun, T!None
  <2>5. MoneyRow(a) /\ MoneyFits(x, a)
    BY <2>2, <2>4 DEF MoneyRow, MoneyFits, Unbegun, Priced
  <2>6. \A u \in Turns : (MoneyRow(attempt[u]) /\ MoneyFits(turn[u], attempt[u]))'
    <3>1. \A u \in Turns : MoneyRow(attempt'[u]) /\ MoneyFits(turn'[u], attempt'[u])
      BY <2>3, <2>5 DEF SpendInv
    <3> QED
      BY <3>1 DEF MoneyRow, MoneyFits
  <2>7. Owed(a) = MaxCharge /\ Owed(attempt[t]) = 0
    BY <2>2, <2>4 DEF Owed, T!None
  <2>8. OwedSum' = OwedSum + MaxCharge
    <3>1. \A u \in Turns : /\ OwedOf[u] \in Nat /\ OwedOf'[u] \in Nat
                           /\ u # t => OwedOf'[u] = OwedOf[u]
      BY <2>3, <2>7, Amounts DEF OwedOf, Priced, SpendInv
    <3>2. OwedOf[t] = 0 /\ OwedOf'[t] = MaxCharge
      BY <2>3, <2>7 DEF OwedOf
    <3>3. Sum(OwedOf', Turns) + OwedOf[t] = Sum(OwedOf, Turns) + OwedOf'[t]
      BY <3>1, SumChanges DEF Priced
    <3>4. Sum(OwedOf', Turns) \in Nat /\ Sum(OwedOf, Turns) \in Nat /\ MaxCharge \in Nat
      BY <3>1, SumIsNat DEF Priced
    <3>5. OwedSum' = Sum(OwedOf', Turns) /\ OwedSum = Sum(OwedOf, Turns)
      BY DEF OwedSum
    <3> QED
      BY <3>2, <3>3, <3>4, <3>5
  <2>9. T!consumed = ToldSum /\ OwedSum \in Nat /\ ToldSum \in Nat
    BY PolicyReads DEF SpendInv
  <2>10. OwedSum' <= Limit
    BY <1>3, <1>4, <2>8, <2>9 DEF Priced
  <2>11. \A u \in Turns : turn'[u].pc # "reserving"
    BY <1>3, <2>2, <2>3 DEF SpendInv
  <2> QED
    BY <1>1, <1>3, <2>6, <2>10, <2>11 DEF SpendInv
<1>5. CASE ~ (T!consumed + turn[t].held + MaxCharge <= Limit)
  <2>1. PICK x : x = [turn[t] EXCEPT !.pc = "refused"]
    OBVIOUS
  <2>2. /\ turn' = [turn EXCEPT ![t] = x] /\ attempt' = [attempt EXCEPT ![t] = attempt[t]]
        /\ x.pc = "refused" /\ x.release = turn[t].release
    BY <1>2, <1>5, <2>1 DEF T!Reserve, T!GoTo, IsTurn
  <2>3. MoneyFits(x, attempt[t])
    BY <1>1, <1>3, <2>2 DEF MoneyFits, Unbegun
  <2> QED
    BY <1>1, <1>3, <2>2, <2>3, SpendSame, SpendTurn DEF Resting
<1> QED
  BY <1>4, <1>5

(* A turn that is prepared has cost nothing yet.                             *)
LEMMA PreparesSpend ==
  ASSUME Priced, TurnInv, SpendInv, NEW t \in Turns, NEW c, NEW retry, T!Prepare(t, c, retry)
  PROVE  SpendInv'
<1>1. attempt = [u \in Turns |-> attempt[u]]
  BY DEF TurnInv, TurnTypes
<1>2. PICK x : x = [T!NoTurn EXCEPT !.pc = "prepared", !.conv = c, !.msg = conv[c].msgs]
  OBVIOUS
<1>3. /\ turn' = [turn EXCEPT ![t] = x] /\ attempt' = [attempt EXCEPT ![t] = attempt[t]]
      /\ reader' = reader /\ ~ booting' /\ turn[t].pc = "idle"
      /\ x.pc = "prepared" /\ x.release = FALSE
  BY <1>1, <1>2 DEF T!Prepare, T!NoTurn
<1>4. MoneyFits(x, attempt[t])
  <2>1. MoneyFits(turn[t], attempt[t])
    BY DEF SpendInv
  <2> QED
    BY <1>3, <2>1 DEF MoneyFits, Unbegun
<1> QED
  BY <1>3, <1>4, SpendSame, SpendTurn

(* A restart forgets what was queued, and cuts the handlers off.             *)
LEMMA RestartSpend ==
  ASSUME Priced, TurnInv, SpendInv, T!Restart
  PROVE  SpendInv'
<1>1. ASSUME NEW u \in Turns
      PROVE  /\ MoneyRow(attempt'[u]) /\ MoneyFits(turn'[u], attempt'[u])
             /\ Owed(attempt'[u]) <= Owed(attempt[u]) /\ Told(attempt[u]) <= Told(attempt'[u])
             /\ turn'[u].pc \in Resting
  <2>1. /\ IsTurn(turn[u]) /\ IsAttempt(attempt[u])
        /\ MoneyRow(attempt[u]) /\ MoneyFits(turn[u], attempt[u])
    BY DEF TurnInv, TurnTypes, SpendInv
  <2>2. /\ attempt'[u] = T!reconcileOrphans(attempt[u])
        /\ turn'[u] = IF turn[u].pc = "idle" THEN turn[u] ELSE [T!NoTurn EXCEPT !.pc = "done"]
    BY DEF T!Restart
  <2>3. PICK a : a = attempt'[u]
    OBVIOUS
  <2>4. /\ a.res = attempt[u].res /\ a.actual = attempt[u].actual /\ a.cost = attempt[u].cost
        /\ a.dispatching = attempt[u].dispatching
        /\ a.event = IF attempt[u].event = "queued" THEN T!None ELSE attempt[u].event
    BY <2>1, <2>2, <2>3 DEF IsAttempt, T!reconcileOrphans, T!Finalised
  <2>5. turn'[u].pc \in {"idle", "done"} /\ (turn'[u].pc = "idle" => turn'[u] = turn[u])
          /\ (turn'[u].pc = "done" => turn'[u] = [T!NoTurn EXCEPT !.pc = "done"] \/ turn'[u] = turn[u])
    BY <2>1, <2>2 DEF T!NoTurn
  <2>6. MoneyRow(a)
    BY <2>1, <2>4 DEF MoneyRow
  <2>7. MoneyFits(turn'[u], a)
    <3>1. CASE turn[u].pc = "idle"
      BY <2>1, <2>2, <2>4, <3>1 DEF MoneyFits, Unbegun
    <3>2. CASE turn[u].pc # "idle"
      <4>1. turn'[u].pc = "done" /\ turn'[u].release = FALSE
        BY <2>2, <3>2 DEF T!NoTurn
      <4> QED
        BY <4>1 DEF MoneyFits, Unbegun
    <3> QED
      BY <3>1, <3>2
  <2>8. Owed(a) = Owed(attempt[u]) /\ Told(a) = Told(attempt[u])
    BY <2>4 DEF Owed, Told, T!None
  <2>9. Owed(a) \in Nat /\ Told(a) \in Nat
    BY <2>6, Amounts DEF Priced
  <2> QED
    BY <2>3, <2>5, <2>6, <2>7, <2>8, <2>9 DEF Resting
<1>2. \A u \in Turns : turn'[u].pc # "reserving"
  BY <1>1 DEF Resting
<1> QED
  BY <1>1, <1>2, SpendStays

(* The reservations found open are settled, released or charged in full.     *)
LEMMA ReconcileSpend ==
  ASSUME Priced, TurnInv, SpendInv, T!reconcileReservations
  PROVE  SpendInv'
<1>1. ASSUME NEW u \in Turns
      PROVE  /\ MoneyRow(attempt'[u]) /\ MoneyFits(turn'[u], attempt'[u])
             /\ Owed(attempt'[u]) <= Owed(attempt[u]) /\ Told(attempt[u]) <= Told(attempt'[u])
             /\ turn'[u].pc # "reserving"
  <2>1. /\ IsAttempt(attempt[u]) /\ MoneyRow(attempt[u]) /\ MoneyFits(turn[u], attempt[u])
        /\ turn[u].pc \in Resting /\ turn' = turn
    BY DEF TurnInv, TurnTypes, SpendInv, T!reconcileReservations
  <2>2. PICK o, a : /\ o \in {"settled", "released", "retained"}
                    /\ a = T!resolve(attempt[u], o) /\ a = attempt'[u]
                    /\ o = "released" => ~ attempt[u].dispatching
    BY DEF T!reconcileReservations
  <2>4. /\ a.cost = attempt[u].cost /\ a.event = attempt[u].event
        /\ a.dispatching = attempt[u].dispatching
        /\ IF attempt[u].res # "active"
           THEN a.res = attempt[u].res /\ a.actual = attempt[u].actual
           ELSE /\ a.res = o /\ attempt[u].res = "active"
                /\ o = "settled" => a.actual = attempt[u].cost
                /\ o = "retained" => a.actual = MaxCharge
    BY <2>1, <2>2 DEF T!resolve, IsAttempt
  <2>5. MoneyRow(a)
    BY <2>1, <2>2, <2>4 DEF MoneyRow
  <2>6. MoneyFits(turn[u], a)
    BY <2>1, <2>4 DEF MoneyFits, Unbegun, Resting
  <2>7. Owed(a) <= Owed(attempt[u]) /\ Told(attempt[u]) <= Told(a)
    BY <2>1, <2>2, <2>4, <2>5, Amounts DEF Owed, Told, Priced, MoneyRow
  <2> QED
    BY <2>1, <2>2, <2>5, <2>6, <2>7 DEF Resting
<1>2. ~ booting'
  BY DEF T!reconcileReservations
<1> QED
  BY <1>1, <1>2, SpendStays

(* Nothing is owed at first.                                                 *)
LEMMA SpendInit == Priced /\ T!Init => SpendInv
<1> SUFFICES ASSUME Priced, T!Init
             PROVE  SpendInv
  OBVIOUS
<1>1. \A t \in Turns : attempt[t] = T!NoAttempt /\ turn[t] = T!NoTurn
  BY DEF T!Init
<1>2. \A t \in Turns : MoneyRow(attempt[t]) /\ MoneyFits(turn[t], attempt[t])
  BY <1>1 DEF T!NoAttempt, T!NoTurn, T!None, MoneyRow, MoneyFits, Priced, Unbegun
<1>3. OwedSum = 0
  <2>1. \A t \in Turns : OwedOf[t] = 0
    BY <1>1 DEF OwedOf, Owed, T!NoAttempt, T!None
  <2> QED
    BY <2>1, SumOfZeros DEF OwedSum, Priced
<1>4. ~ booting /\ \A t \in Turns : turn[t].pc # "reserving"
  BY <1>1 DEF T!Init, T!NoTurn
<1> QED
  BY <1>2, <1>3, <1>4 DEF SpendInv, Priced

\* what the composition needs of a step, in one formula without assumptions
SpendSound == Priced /\ TurnInv /\ SpendInv /\ [T!Next]_(T!turnVars) => SpendInv'

(* Every step of Next keeps what is owed within the limit.                   *)
LEMMA SpendStepSound == SpendSound
<1> SUFFICES ASSUME Priced, TurnInv, SpendInv, [T!Next]_(T!turnVars)
             PROVE  SpendInv'
  BY DEF SpendSound
<1>1. ASSUME attempt' = attempt, turn' = turn, reader' = reader, booting' = booting
      PROVE  SpendInv'
  <2>1. \A u \in Turns : Owed(attempt[u]) \in Nat /\ Told(attempt[u]) \in Nat
    BY Amounts DEF SpendInv, Priced
  <2> QED
    BY <1>1, <2>1, SpendStays DEF SpendInv
<1>2. CASE UNCHANGED T!turnVars
  BY <1>1, <1>2 DEF T!turnVars
<1>3. ASSUME NEW c \in Conversations, NEW t \in Turns, NEW retry \in BOOLEAN,
             T!Prepare(t, c, retry)
      PROVE  SpendInv'
  BY <1>3, PreparesSpend
<1>4. ASSUME NEW c \in Conversations,
             \/ T!submitUserMessage(c) \/ T!BeginProposal(c) \/ T!SettleProposal(c)
             \/ T!ArchiveChecks(c) \/ T!ArchiveCommits(c)
      PROVE  SpendInv'
  BY <1>1, <1>4 DEF T!submitUserMessage, T!BeginProposal, T!SettleProposal, T!ArchiveChecks,
                    T!ArchiveCommits
<1>5. ASSUME NEW t \in Turns,
             T!Handle(t) \/ T!startVisibleOutput(t) \/ T!Stop(t) \/ T!TelemetryRetries(t)
      PROVE  SpendInv'
  BY <1>5, SpendHandler, SpendCall, ReadsSpend, ReservesSpend DEF T!Handle
<1>6. CASE T!Restart \/ T!reconcileReservations
  BY <1>6, RestartSpend, ReconcileSpend
<1> QED
  BY <1>2, <1>3, <1>4, <1>5, <1>6 DEF T!Next

(* What was charged is owed.                                                 *)
LEMMA InvWithin == Priced /\ SpendInv => T!SpendWithinPolicy
<1> SUFFICES ASSUME Priced, SpendInv
             PROVE  T!SpendWithinPolicy
  OBVIOUS
<1>1. PICK n : n = T!MapThenSumSet(LAMBDA t : attempt[t].cost, Turns)
  OBVIOUS
<1>2. n <= OwedSum /\ n \in Nat /\ OwedSum \in Nat
  BY <1>1, PolicyReads DEF SpendInv
<1>3. n <= Limit
  BY <1>2 DEF SpendInv, Priced
<1> QED
  BY <1>1, <1>3 DEF T!SpendWithinPolicy

(* Turns reserve side by side, their charges move from reservation to usage  *)
(* event in two steps (pmTurn.ts, usagePolicy.ts), and a restart resolves    *)
(* what it finds: what the provider charges stays within the policy's limit. *)
THEOREM SpendKept == Priced /\ T!Spec => []T!SpendWithinPolicy
<1>1. TurnInv /\ [T!Next]_(T!turnVars) => TurnInv'
  BY TurnStepSound DEF TurnSound
<1>2. Priced /\ TurnInv /\ SpendInv /\ [T!Next]_(T!turnVars) => SpendInv'
  BY SpendStepSound DEF SpendSound
<1>3. Priced => Priced'
  BY DEF Priced
<1> QED
  BY TurnInit, SpendInit, <1>1, <1>2, <1>3, InvWithin, PTL DEF T!Spec
=============================================================================
