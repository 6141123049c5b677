--------------------------- MODULE WorkflowProofs ---------------------------
(***************************************************************************)
(* The component theorems, carried over to the composition that TLC        *)
(* explores: a behaviour of MCWorkflows that picks a component is a         *)
(* behaviour of that component, so it has what the component's own module  *)
(* proves for every value of its constants.                                *)
(***************************************************************************)
EXTENDS MCWorkflows, Integers, Sequences, TLAPS

-----------------------------------------------------------------------------
(* The money of a run's model calls                                        *)

CallRows ==
  [pc : G!Open \cup {"idle", "refused", "done", "lost"}, path : G!Paths \cup {"none"},
   charge : Nat, seen : Nat, cost : Nat, observed : BOOLEAN]

(* The type of each variable of the gateway.                                 *)
GatewayTypes ==
  /\ calls \in [Workers -> CallRows]
  /\ held \in [G!Paths -> Int]
  /\ settled \in Nat /\ spent \in Nat
  /\ lapsed \in BOOLEAN
  /\ \A c \in Workers : calls[c].pc \in G!Open => calls[c].path \in G!Paths

(* An open call c accounts for what is held and for all that was spent since *)
(* the last usage event.                                                     *)
Accounts(c) ==
  /\ \A b \in G!Paths :
       held[b] = IF c.pc \in G!Holding /\ c.path = b THEN c.charge ELSE 0
  /\ c.pc = "read" => c.seen = settled
  /\ c.pc \in {"held", "answered", "metering"} => c.charge + settled <= Amount
  /\ c.pc \in {"answered", "metering"} =>
       spent = settled + c.cost /\ c.cost <= c.charge + MaxExcess
  /\ c.pc \in {"authorized", "read", "held"} => spent = settled

(* Of an agent that makes one call at a time, whose charges are metered.     *)
OneCall ==
  /\ \A c, d \in Workers : calls[c].pc \in G!Open /\ calls[d].pc \in G!Open => c = d
  /\ \A c \in Workers : calls[c].pc \in G!Open => Accounts(calls[c])
  /\ (\A c \in Workers : calls[c].pc \notin G!Open) =>
       spent = settled /\ held = [b \in G!Paths |-> 0]
  /\ spent <= Amount + MaxExcess

GatewayInv == GatewayTypes /\ (~ lapsed => OneCall)

(* A step that changes one call, of a run that makes one call at a time.     *)
LEMMA CallGoesOn ==
  ASSUME GatewayInv, NEW c \in Workers, NEW x \in CallRows, calls[c].pc \in G!Open,
         calls' = [calls EXCEPT ![c] = x],
         x.pc \in G!Open => x.path \in G!Paths,
         held' \in [G!Paths -> Int], settled' \in Nat, spent' \in Nat, lapsed' \in BOOLEAN,
         ~ lapsed' =>
           /\ ~ lapsed
           /\ spent' <= Amount + MaxExcess
           /\ x.pc \in G!Open => Accounts(x)'
           /\ x.pc \notin G!Open => spent' = settled' /\ held' = [b \in G!Paths |-> 0]
  PROVE  GatewayInv'
<1>1. /\ calls \in [Workers -> CallRows] /\ calls' \in [Workers -> CallRows]
      /\ calls'[c] = x /\ \A d \in Workers \ {c} : calls'[d] = calls[d]
  BY DEF GatewayInv, GatewayTypes
<1>2. GatewayTypes'
  BY <1>1 DEF GatewayInv, GatewayTypes
<1>3. ASSUME ~ lapsed'
      PROVE  OneCall'
  <2>1. \A d \in Workers \ {c} : calls'[d].pc \notin G!Open
    BY <1>1, <1>3 DEF GatewayInv, OneCall
  <2>2. \A a, d \in Workers : calls'[a].pc \in G!Open /\ calls'[d].pc \in G!Open => a = d
    BY <2>1
  <2>3. \A d \in Workers : calls'[d].pc \in G!Open => Accounts(calls[d])'
    BY <1>1, <1>3, <2>1 DEF Accounts
  <2>4. (\A d \in Workers : calls'[d].pc \notin G!Open) =>
          spent' = settled' /\ held' = [b \in G!Paths |-> 0]
    BY <1>1, <1>3
  <2> QED
    BY <1>3, <2>2, <2>3, <2>4 DEF OneCall
<1> QED
  BY <1>2, <1>3 DEF GatewayInv

(* Dropping the only hold leaves nothing held.                               *)
LEMMA LastHold ==
  ASSUME held \in [G!Paths -> Int], NEW c \in Workers, calls[c].path \in G!Paths,
         calls[c].charge \in Nat, calls[c].pc \in G!Holding, Accounts(calls[c]), G!Drop(c)
  PROVE  held' = [b \in G!Paths |-> 0]
<1>1. \A b \in G!Paths : held[b] = IF calls[c].path = b THEN calls[c].charge ELSE 0
  BY DEF Accounts
<1>2. held' = [held EXCEPT ![calls[c].path] = held[calls[c].path] - calls[c].charge]
  BY DEF G!Drop
<1>3. \A b \in G!Paths : held'[b] = 0
  BY <1>1, <1>2
<1> QED
  BY <1>2, <1>3

(* Each request of the gateway of a call that is in progress keeps it.       *)
LEMMA CallSteps ==
  ASSUME GatewayInv, NEW c \in Workers, Amount \in Nat, MaxExcess \in Nat,
         G!ReadSettled(c) \/ G!Hold(c) \/ G!Unreachable(c) \/ G!Answered(c) \/ G!Settle(c)
           \/ G!Meter(c)
  PROVE  GatewayInv'
<1>1. /\ calls \in [Workers -> CallRows] /\ calls[c] \in CallRows
      /\ held \in [G!Paths -> Int] /\ settled \in Nat /\ spent \in Nat /\ lapsed \in BOOLEAN
      /\ calls[c].pc \in G!Open => calls[c].path \in G!Paths
  BY DEF GatewayInv, GatewayTypes
<1>2. /\ calls[c].path \in G!Paths \cup {"none"} /\ calls[c].charge \in Nat
      /\ calls[c].seen \in Nat /\ calls[c].cost \in Nat /\ calls[c].observed \in BOOLEAN
      /\ calls[c] = [pc |-> calls[c].pc, path |-> calls[c].path, charge |-> calls[c].charge,
                     seen |-> calls[c].seen, cost |-> calls[c].cost,
                     observed |-> calls[c].observed]
  BY <1>1 DEF CallRows
<1>3. ASSUME ~ lapsed, calls[c].pc \in G!Open
      PROVE  Accounts(calls[c]) /\ spent <= Amount + MaxExcess
  BY <1>3 DEF GatewayInv, OneCall
<1>4. CASE G!ReadSettled(c)
  <2>1. PICK p \in {"read", "refused"} :
             calls' = [calls EXCEPT ![c] = [calls[c] EXCEPT !.pc = p, !.seen = settled]]
    BY <1>1, <1>4 DEF G!ReadSettled
  <2>2. PICK x : x = [calls[c] EXCEPT !.pc = p, !.seen = settled]
    OBVIOUS
  <2>3. /\ x \in CallRows /\ x.pc = p /\ x.path = calls[c].path /\ x.seen = settled
        /\ calls' = [calls EXCEPT ![c] = x]
    BY <1>1, <1>2, <2>1, <2>2 DEF CallRows, G!Open
  <2>5. /\ calls[c].pc \in G!Open /\ (x.pc \in G!Open => x.path \in G!Paths)
        /\ held' \in [G!Paths -> Int] /\ settled' \in Nat /\ spent' \in Nat /\ lapsed' \in BOOLEAN
    BY <1>1, <1>2, <1>4, <2>3 DEF G!ReadSettled, G!Open
  <2>6. ASSUME ~ lapsed'
        PROVE  ~ lapsed /\ Accounts(calls[c]) /\ spent <= Amount + MaxExcess
    BY <1>1, <1>3, <1>4, <2>5, <2>6 DEF G!ReadSettled
  <2>7. ASSUME ~ lapsed'
        PROVE  /\ spent' <= Amount + MaxExcess
               /\ x.pc \in G!Open => Accounts(x)'
               /\ x.pc \notin G!Open => spent' = settled' /\ held' = [b \in G!Paths |-> 0]
    BY <1>1, <1>2, <1>4, <2>3, <2>5, <2>6, <2>7
       DEF G!ReadSettled, Accounts, G!Open, G!Holding, G!Paths
  <2> QED
    BY <2>3, <2>5, <2>6, <2>7, CallGoesOn
<1>5. CASE G!Hold(c)
  <2>1. PICK x : x = [calls[c] EXCEPT !.pc = IF calls[c].charge > Amount - calls[c].seen
                                                  - held[calls[c].path]
                                              THEN "refused" ELSE "held"]
    OBVIOUS
  <2>2. /\ x \in CallRows /\ x.path = calls[c].path /\ x.charge = calls[c].charge
        /\ calls' = [calls EXCEPT ![c] = x]
    BY <1>1, <1>2, <1>5, <2>1 DEF CallRows, G!Open, G!Hold, G!Ends
  <2>5. /\ calls[c].pc \in G!Open /\ (x.pc \in G!Open => x.path \in G!Paths)
        /\ held' \in [G!Paths -> Int] /\ settled' \in Nat /\ spent' \in Nat /\ lapsed' \in BOOLEAN
    BY <1>1, <1>2, <1>5, <2>1, <2>2 DEF G!Hold, G!Open
  <2>6. ASSUME ~ lapsed'
        PROVE  ~ lapsed /\ Accounts(calls[c]) /\ spent <= Amount + MaxExcess
    BY <1>1, <1>3, <1>5, <2>5, <2>6 DEF G!Hold
  <2>7. ASSUME ~ lapsed'
        PROVE  /\ spent' <= Amount + MaxExcess
               /\ x.pc \in G!Open => Accounts(x)'
               /\ x.pc \notin G!Open => spent' = settled' /\ held' = [b \in G!Paths |-> 0]
    BY <1>1, <1>2, <1>5, <2>1, <2>2, <2>5, <2>6, <2>7
       DEF G!Hold, Accounts, G!Open, G!Holding, G!Paths
  <2> QED
    BY <2>2, <2>5, <2>6, <2>7, CallGoesOn
<1>6. CASE G!Unreachable(c)
  <2>1. PICK x : x = [calls[c] EXCEPT !.pc = "done"]
    OBVIOUS
  <2>2. x \in CallRows /\ x.pc = "done" /\ calls' = [calls EXCEPT ![c] = x]
    BY <1>1, <1>2, <1>6, <2>1 DEF CallRows, G!Open, G!Unreachable, G!Ends
  <2>5. /\ calls[c].pc \in G!Open /\ (x.pc \in G!Open => x.path \in G!Paths)
        /\ held' \in [G!Paths -> Int] /\ settled' \in Nat /\ spent' \in Nat /\ lapsed' \in BOOLEAN
    BY <1>1, <1>2, <1>6, <2>2 DEF G!Unreachable, G!Drop, G!Open
  <2>6. ASSUME ~ lapsed'
        PROVE  ~ lapsed /\ Accounts(calls[c]) /\ spent <= Amount + MaxExcess
    BY <1>1, <1>3, <1>6, <2>5, <2>6 DEF G!Unreachable
  <2>7. ASSUME ~ lapsed'
        PROVE  /\ spent' <= Amount + MaxExcess
               /\ x.pc \in G!Open => Accounts(x)'
               /\ x.pc \notin G!Open => spent' = settled' /\ held' = [b \in G!Paths |-> 0]
    <3>1. held' = [b \in G!Paths |-> 0]
      BY <1>1, <1>2, <1>6, <2>5, <2>6, <2>7, LastHold DEF G!Unreachable, G!Holding
    <3> QED
      BY <1>1, <1>2, <1>6, <2>2, <2>6, <2>7, <3>1 DEF G!Unreachable, Accounts, G!Open, G!Holding
  <2> QED
    BY <2>2, <2>5, <2>6, <2>7, CallGoesOn
<1>7. CASE G!Answered(c)
  <2>1. PICK cost \in 0 .. calls[c].charge + MaxExcess, observed \in BOOLEAN :
             /\ calls' = [calls EXCEPT ![c] = [calls[c] EXCEPT !.pc = "answered", !.cost = cost,
                                                               !.observed = observed]]
             /\ spent' = spent + cost /\ UNCHANGED <<held, settled, lapsed>>
             /\ calls[c].pc = "held"
    BY <1>1, <1>7 DEF G!Answered
  <2>4. cost \in Nat /\ spent + cost \in Nat
    BY <1>1, <1>2, <2>1
  <2>2. PICK x : x = [calls[c] EXCEPT !.pc = "answered", !.cost = cost, !.observed = observed]
    OBVIOUS
  <2>3. /\ x \in CallRows /\ x.pc = "answered" /\ x.path = calls[c].path
        /\ x.charge = calls[c].charge /\ x.cost = cost /\ calls' = [calls EXCEPT ![c] = x]
    BY <1>1, <1>2, <2>1, <2>2, <2>4 DEF CallRows, G!Open
  <2>5. /\ calls[c].pc \in G!Open /\ (x.pc \in G!Open => x.path \in G!Paths)
        /\ held' \in [G!Paths -> Int] /\ settled' \in Nat /\ spent' \in Nat /\ lapsed' \in BOOLEAN
    BY <1>1, <1>2, <1>7, <2>1, <2>3, <2>4 DEF G!Open
  <2>6. ASSUME ~ lapsed'
        PROVE  ~ lapsed /\ Accounts(calls[c]) /\ spent <= Amount + MaxExcess
    BY <1>3, <2>1, <2>5, <2>6
  <2>7. ASSUME ~ lapsed'
        PROVE  /\ spent' <= Amount + MaxExcess
               /\ x.pc \in G!Open => Accounts(x)'
               /\ x.pc \notin G!Open => spent' = settled' /\ held' = [b \in G!Paths |-> 0]
    <3>1. Accounts(x)'
      BY <1>1, <1>2, <2>1, <2>3, <2>6, <2>7, <2>4 DEF Accounts, G!Holding
    <3>2. spent' <= Amount + MaxExcess
      BY <1>1, <1>2, <2>1, <2>6, <2>7, <2>4 DEF Accounts
    <3> QED
      BY <2>3, <3>1, <3>2 DEF G!Open
  <2> QED
    BY <2>3, <2>5, <2>6, <2>7, CallGoesOn
<1>8. CASE G!Settle(c)
  <2>1. PICK x : x = [calls[c] EXCEPT !.pc = IF calls[c].observed THEN "metering" ELSE "done"]
    OBVIOUS
  <2>2. /\ x \in CallRows /\ x.path = calls[c].path /\ x.charge = calls[c].charge
        /\ x.cost = calls[c].cost /\ x.pc = IF calls[c].observed THEN "metering" ELSE "done"
        /\ calls' = [calls EXCEPT ![c] = x]
    BY <1>1, <1>2, <1>8, <2>1 DEF CallRows, G!Open, G!Settle, G!Ends
  <2>5. /\ calls[c].pc \in G!Open /\ (x.pc \in G!Open => x.path \in G!Paths)
        /\ held' \in [G!Paths -> Int] /\ settled' \in Nat /\ spent' \in Nat /\ lapsed' \in BOOLEAN
    BY <1>1, <1>2, <1>8, <2>2 DEF G!Settle, G!Drop, G!Open
  <2>6. ASSUME ~ lapsed'
        PROVE  ~ lapsed /\ Accounts(calls[c]) /\ spent <= Amount + MaxExcess
    BY <1>1, <1>3, <1>8, <2>5, <2>6 DEF G!Settle
  <2>7. ASSUME ~ lapsed'
        PROVE  /\ spent' <= Amount + MaxExcess
               /\ x.pc \in G!Open => Accounts(x)'
               /\ x.pc \notin G!Open => spent' = settled' /\ held' = [b \in G!Paths |-> 0]
    <3>1. held' = [b \in G!Paths |-> 0]
      BY <1>1, <1>2, <1>8, <2>5, <2>6, <2>7, LastHold DEF G!Settle, G!Holding
    <3> QED
      BY <1>1, <1>2, <1>8, <2>2, <2>6, <2>7, <3>1 DEF G!Settle, Accounts, G!Open, G!Holding
  <2> QED
    BY <2>2, <2>5, <2>6, <2>7, CallGoesOn
<1>9. CASE G!Meter(c)
  <2>1. PICK x : x = [calls[c] EXCEPT !.pc = "done"]
    OBVIOUS
  <2>2. x \in CallRows /\ x.pc = "done" /\ calls' = [calls EXCEPT ![c] = x]
    BY <1>1, <1>2, <1>9, <2>1 DEF CallRows, G!Open, G!Meter, G!Ends
  <2>5. /\ calls[c].pc \in G!Open /\ (x.pc \in G!Open => x.path \in G!Paths)
        /\ held' \in [G!Paths -> Int] /\ settled' \in Nat /\ spent' \in Nat /\ lapsed' \in BOOLEAN
    <3>1. settled + calls[c].cost \in Nat
      BY <1>1, <1>2
    <3> QED
      BY <1>1, <1>9, <2>2, <3>1 DEF G!Meter, G!Open
  <2>6. ASSUME ~ lapsed'
        PROVE  ~ lapsed /\ Accounts(calls[c]) /\ spent <= Amount + MaxExcess
    BY <1>1, <1>3, <1>9, <2>5, <2>6 DEF G!Meter
  <2>7. ASSUME ~ lapsed'
        PROVE  /\ spent' <= Amount + MaxExcess
               /\ x.pc \in G!Open => Accounts(x)'
               /\ x.pc \notin G!Open => spent' = settled' /\ held' = [b \in G!Paths |-> 0]
    BY <1>1, <1>2, <1>9, <2>2, <2>5, <2>6, <2>7
       DEF G!Meter, Accounts, G!Open, G!Holding, G!Paths
  <2> QED
    BY <2>2, <2>5, <2>6, <2>7, CallGoesOn
<1> QED
  BY <1>4, <1>5, <1>6, <1>7, <1>8, <1>9

(* So does a call that comes in, alone or while another one is open.         *)
LEMMA CallArrives ==
  ASSUME GatewayInv, NEW c \in Workers, NEW path \in G!Paths, NEW charge \in Nat,
         G!Authorize(c, path, charge)
  PROVE  GatewayInv'
<1>1. /\ calls \in [Workers -> CallRows] /\ calls[c].pc \notin G!Open /\ lapsed \in BOOLEAN
  BY DEF GatewayInv, GatewayTypes, G!Authorize, G!Open
<1>2. PICK x : x = [G!NoCall EXCEPT !.path = path, !.charge = charge,
                      !.pc = IF /\ G!authorizeProxiedRunAccess
                                /\ path = "gateway" => minted.credential = "live"
                             THEN "authorized" ELSE "refused"]
  OBVIOUS
<1>3. /\ x \in CallRows /\ x.path = path /\ x.pc \in {"authorized", "refused"}
      /\ calls' = [calls EXCEPT ![c] = x] /\ calls' \in [Workers -> CallRows]
  BY <1>1, <1>2 DEF CallRows, G!NoCall, G!Open, G!Authorize
<1>4. calls'[c] = x /\ \A d \in Workers \ {c} : calls'[d] = calls[d]
  BY <1>1, <1>3
<1>5. /\ UNCHANGED <<held, settled, spent>>
      /\ lapsed' = (lapsed \/ \E d \in Workers : calls[d].pc \in G!Open)
  BY DEF G!Authorize
<1>6. GatewayTypes'
  BY <1>1, <1>3, <1>4, <1>5 DEF GatewayInv, GatewayTypes
<1>7. ASSUME ~ lapsed'
      PROVE  OneCall'
  <2>1. /\ \A d \in Workers : calls[d].pc \notin G!Open
        /\ spent = settled /\ held = [b \in G!Paths |-> 0] /\ spent <= Amount + MaxExcess
    BY <1>5, <1>7 DEF GatewayInv, OneCall
  <2>2. \A d \in Workers \ {c} : calls'[d].pc \notin G!Open
    BY <1>4, <2>1
  <2>3. Accounts(x)'
    BY <1>3, <1>5, <2>1 DEF Accounts, G!Holding
  <2>4. \A d \in Workers : calls'[d].pc \in G!Open => Accounts(calls[d])'
    BY <1>4, <2>2, <2>3 DEF Accounts
  <2> QED
    BY <1>4, <1>5, <2>1, <2>2, <2>4 DEF OneCall
<1> QED
  BY <1>6, <1>7 DEF GatewayInv

(* And a restart, which loses the calls and the holds together.              *)
LEMMA CallsLost ==
  ASSUME GatewayInv, G!Restart
  PROVE  GatewayInv'
<1>1. /\ calls \in [Workers -> CallRows] /\ held' = [b \in G!Paths |-> 0]
      /\ calls' = [c \in Workers |-> IF calls[c].pc \in G!Open
                                     THEN [calls[c] EXCEPT !.pc = "lost"] ELSE calls[c]]
      /\ lapsed' = (lapsed \/ \E c \in Workers : calls[c].pc \in G!Open)
      /\ UNCHANGED <<settled, spent>> /\ lapsed \in BOOLEAN
  BY DEF GatewayInv, GatewayTypes, G!Restart
<1>2. \A c \in Workers : calls'[c] \in CallRows /\ calls'[c].pc \notin G!Open
  BY <1>1 DEF CallRows, G!Open
<1>3. calls' \in [Workers -> CallRows] /\ held' \in [G!Paths -> Int]
  BY <1>1, <1>2
<1>4. GatewayTypes'
  BY <1>1, <1>2, <1>3 DEF GatewayInv, GatewayTypes
<1>5. ASSUME ~ lapsed'
      PROVE  OneCall'
  BY <1>1, <1>2, <1>5 DEF GatewayInv, OneCall
<1> QED
  BY <1>4, <1>5 DEF GatewayInv

(* A step of the composition is a step of the gateway when it is the part.   *)
LEMMA GatewayStep ==
  ASSUME [Next]_vars
  PROVE  /\ part' = part
         /\ part = "gateway" => G!Next \/ UNCHANGED gatewayVars
<1>1. CASE UNCHANGED vars
  BY <1>1 DEF vars, gatewayVars
<1>2. CASE Debating \/ Reviewing \/ KickingOff \/ Planning
  BY <1>2 DEF Debating, Reviewing, KickingOff, Planning
<1>3. CASE Talking \/ Steered \/ Publishing
  BY <1>3 DEF Talking, Steered, Publishing
<1>4. CASE Proxying
  BY <1>4 DEF Proxying
<1> QED
  BY <1>1, <1>2, <1>3, <1>4 DEF Next

(* The gateway's invariant holds at first,                                   *)
LEMMA GatewayInit ==
  ASSUME Amount \in Nat, MaxExcess \in Nat, Init, part = "gateway"
  PROVE  GatewayInv
<1>1. /\ calls = [c \in Workers |-> G!NoCall] /\ held = [b \in G!Paths |-> 0]
      /\ settled = 0 /\ spent = 0 /\ lapsed = FALSE
  BY DEF Init, G!Init
<1>2. G!NoCall \in CallRows /\ G!NoCall.pc \notin G!Open
  BY DEF CallRows, G!NoCall, G!Open
<1>3. GatewayTypes
  <2>1. calls \in [Workers -> CallRows] /\ held \in [G!Paths -> Int]
    BY <1>1, <1>2
  <2>2. \A c \in Workers : calls[c].pc \notin G!Open
    BY <1>1, <1>2
  <2> QED
    BY <1>1, <2>1, <2>2 DEF GatewayTypes
<1>4. OneCall
  BY <1>1, <1>2 DEF OneCall
<1> QED
  BY <1>3, <1>4 DEF GatewayInv

(* and every step of it keeps it.                                            *)
LEMMA GatewayKept ==
  ASSUME Amount \in Nat, Charges \subseteq Nat, MaxExcess \in Nat, GatewayInv,
         G!Next \/ UNCHANGED gatewayVars
  PROVE  GatewayInv'
<1>1. CASE G!Mint \/ G!CredentialExpires \/ G!RunEnds
  <2>1. UNCHANGED <<calls, held, settled, spent, lapsed>>
    BY <1>1 DEF G!Mint, G!CredentialExpires, G!RunEnds
  <2> QED
    BY <2>1 DEF GatewayInv, GatewayTypes, OneCall, Accounts
<1>2. CASE G!Restart
  BY <1>2, CallsLost
<1>3. ASSUME NEW c \in Workers, NEW path \in G!Paths, NEW charge \in Charges,
             G!Authorize(c, path, charge)
      PROVE  GatewayInv'
  BY <1>3, CallArrives
<1>4. ASSUME NEW c \in Workers,
             G!ReadSettled(c) \/ G!Hold(c) \/ G!Unreachable(c) \/ G!Answered(c)
               \/ G!Settle(c) \/ G!Meter(c)
      PROVE  GatewayInv'
  BY <1>4, CallSteps
<1>5. CASE UNCHANGED gatewayVars
  BY <1>5 DEF gatewayVars, GatewayInv, GatewayTypes, OneCall, Accounts
<1> QED
  BY <1>1, <1>2, <1>3, <1>4, <1>5 DEF G!Next

(* An agent that makes one call at a time, and whose charges are metered,    *)
(* exceeds its reservation by at most the excess of one call: reserve reads  *)
(* the metered spend before it adds its hold, and settle comes before the    *)
(* usage event (SqlRunReservationBudget), but no second call is in between.  *)
THEOREM SequentialOverrun ==
  ASSUME Amount \in Nat, Charges \subseteq Nat, MaxExcess \in Nat
  PROVE  Spec => []SequentialOverrunBounded
<1>1. Init => (part = "gateway" => GatewayInv)
  BY GatewayInit
<1>2. (part = "gateway" => GatewayInv) /\ [Next]_vars => (part = "gateway" => GatewayInv)'
  BY GatewayKept, GatewayStep
<1>3. (part = "gateway" => GatewayInv) => SequentialOverrunBounded
  BY DEF SequentialOverrunBounded, G!SequentialOverrunBounded, GatewayInv, OneCall
<1> QED
  BY <1>1, <1>2, <1>3, PTL DEF Spec

-----------------------------------------------------------------------------
(* A suspended run: its steering keeps the money                             *)

(* A question in hand, and a checkpoint its run is still suspended at.       *)
WaitOpen == {"awaiting_human", "continuation_queued"}
PointOpen == {"paused", "resume_queued", "leased"}

WaitRows ==
  [status : WaitOpen \cup {"resumed", "failed", "expired"},
   cont : {"none", "queued", "leased", "provisioned", "dispatched", "resumed", "applied",
           "failed"},
   late : BOOLEAN]

(* A checkpoint's row; the action that resumes it and its place among the     *)
(* others may be anything.                                                   *)
IsPoint(x) ==
  x \in [status : PointOpen \cup {"none", "provisioned", "dispatched", "failed", "resumed"},
         resume : {x.resume}, at : {x.at}, current : BOOLEAN, late : BOOLEAN]

SteeringTypes ==
  /\ waits \in Seq(WaitRows)
  /\ point = [p \in Things |-> point[p]]
  /\ \A p \in Things : IsPoint(point[p])
  /\ job \in [for : {job.for}, status : {"queued", "delivered", "closed"}]

(* A run is suspended by something that is still open and that no command is *)
(* under way for; its money is settled only after that has run out.          *)
Suspended ==
  run = "waiting_for_human" =>
    /\ job.status = "closed"
    /\ \/ \E i \in DOMAIN waits : H!Wait(i) \in suspendedBy /\ waits[i].status \in WaitOpen
       \/ \E p \in Things : H!Pause(p) \in suspendedBy /\ point[p].status \in PointOpen
    /\ money = "settled" => \E p \in Things : H!Pause(p) \in suspendedBy /\ point[p].late

SteeringInv == SteeringTypes /\ Suspended

(* A step that suspends no run, loses nothing that is open and takes no time *)
(* back.                                                                     *)
LEMMA StaysSuspended ==
  ASSUME SteeringInv, SteeringTypes',
         run' = "waiting_for_human" =>
           /\ run = "waiting_for_human" /\ job' = job /\ suspendedBy' = suspendedBy
           /\ money' = "settled" => money = "settled"
           /\ DOMAIN waits' = DOMAIN waits
           /\ \A i \in DOMAIN waits :
                waits[i].status \in WaitOpen => waits'[i].status \in WaitOpen
           /\ \A p \in Things :
                /\ point[p].status \in PointOpen => point'[p].status \in PointOpen
                /\ point[p].late => point'[p].late
  PROVE  SteeringInv'
BY DEF SteeringInv, Suspended, H!Wait, H!Pause

(* The human confirms, actions are delivered, a crash cuts a chain: neither  *)
(* rows nor run change.                                                      *)
LEMMA ActionSteps ==
  ASSUME SteeringInv,
         \/ \E a \in H!Acts : \/ H!Confirm(a) \/ H!ClaimLive(a) \/ H!Fallback(a) \/ H!Sent(a)
                              \/ H!applyCommandAck(a) \/ H!ClaimCheckpoint(a)
                              \/ H!PauseTask(a) \/ H!ResumeTask(a)
         \/ H!Crash
  PROVE  SteeringInv'
<1>1. UNCHANGED <<run, money, waits, point, job, suspendedBy>>
  BY DEF H!Confirm, H!ClaimLive, H!Fallback, H!Sent, H!applyCommandAck, H!ClaimCheckpoint,
     H!PauseTask, H!ResumeTask, H!Crash
<1> QED
  BY <1>1 DEF SteeringInv, SteeringTypes, Suspended, IsPoint

(* One question is answered, claimed, released or runs late.                 *)
LEMMA WaitSteps ==
  ASSUME SteeringInv, NEW i \in DOMAIN waits,
         H!confirmAnswer(i) \/ H!ClaimWait(i) \/ H!ReleaseWait(i) \/ H!WaitLapses(i)
  PROVE  SteeringInv'
<1>1. waits \in Seq(WaitRows) /\ waits[i] \in WaitRows
  BY DEF SteeringInv, SteeringTypes
<1>2. PICK x \in WaitRows : /\ waits' = [waits EXCEPT ![i] = x]
                            /\ waits[i].status \in WaitOpen => x.status \in WaitOpen
  <2>1. CASE H!confirmAnswer(i)
    <3>1. PICK x : x = [waits[i] EXCEPT !.status = "continuation_queued", !.cont = "queued"]
      OBVIOUS
    <3>2. x \in WaitRows /\ (waits[i].status \in WaitOpen => x.status \in WaitOpen)
      BY <1>1, <3>1 DEF WaitRows, WaitOpen
    <3> QED
      BY <2>1, <3>1, <3>2 DEF H!confirmAnswer
  <2>2. CASE H!ClaimWait(i)
    <3>1. PICK x : x = [waits[i] EXCEPT !.cont = "leased"]
      OBVIOUS
    <3>2. x \in WaitRows /\ (waits[i].status \in WaitOpen => x.status \in WaitOpen)
      BY <1>1, <3>1 DEF WaitRows, WaitOpen
    <3> QED
      BY <2>2, <3>1, <3>2 DEF H!ClaimWait
  <2>3. CASE H!ReleaseWait(i)
    <3>1. PICK x : x = [waits[i] EXCEPT !.cont = "queued"]
      OBVIOUS
    <3>2. x \in WaitRows /\ (waits[i].status \in WaitOpen => x.status \in WaitOpen)
      BY <1>1, <3>1 DEF WaitRows, WaitOpen
    <3> QED
      BY <2>3, <3>1, <3>2 DEF H!ReleaseWait
  <2>4. CASE H!WaitLapses(i)
    <3>1. PICK x : x = [waits[i] EXCEPT !.late = TRUE]
      OBVIOUS
    <3>2. x \in WaitRows /\ (waits[i].status \in WaitOpen => x.status \in WaitOpen)
      BY <1>1, <3>1 DEF WaitRows, WaitOpen
    <3> QED
      BY <2>4, <3>1, <3>2 DEF H!WaitLapses
  <2> QED
    BY <2>1, <2>2, <2>3, <2>4
<1>3. /\ waits' \in Seq(WaitRows) /\ DOMAIN waits' = DOMAIN waits
      /\ \A j \in DOMAIN waits : waits[j].status \in WaitOpen => waits'[j].status \in WaitOpen
  BY <1>1, <1>2
<1>4. /\ UNCHANGED <<run, point, job, suspendedBy>>
      /\ money' = "settled" => money = "settled"
  BY DEF H!confirmAnswer, H!ClaimWait, H!ReleaseWait, H!WaitLapses, H!Renewed, H!Reserved
<1>5. SteeringTypes'
  BY <1>3, <1>4 DEF SteeringInv, SteeringTypes, IsPoint
<1> QED
  BY <1>3, <1>4, <1>5, StaysSuspended

(* A checkpoint is resumed, claimed, released or runs late.                  *)
LEMMA PointSteps ==
  ASSUME SteeringInv, NEW p \in Things,
         \/ \E a \in H!Acts : H!ResumePaused(a, p)
         \/ H!ClaimPause(p) \/ H!ReleasePause(p) \/ H!PointLapses(p)
  PROVE  SteeringInv'
<1>1. point = [q \in Things |-> point[q]] /\ \A q \in Things : IsPoint(point[q])
  BY DEF SteeringInv, SteeringTypes
<1>2. PICK x : /\ point' = [point EXCEPT ![p] = x] /\ IsPoint(x)
               /\ point[p].status \in PointOpen => x.status \in PointOpen
               /\ point[p].late => x.late
  <2>1. ASSUME NEW a \in H!Acts, H!ResumePaused(a, p)
        PROVE  \E x : /\ point' = [point EXCEPT ![p] = x] /\ IsPoint(x)
                      /\ point[p].status \in PointOpen => x.status \in PointOpen
                      /\ point[p].late => x.late
    <3>1. CASE point' = point
      <4>1. point' = [point EXCEPT ![p] = point[p]]
        BY <1>1, <3>1
      <4> QED
        BY <1>1, <4>1
    <3>2. PICK x : x = [point[p] EXCEPT !.status = "resume_queued", !.resume = a]
      OBVIOUS
    <3>3. IsPoint(x) /\ x.status = "resume_queued" /\ x.late = point[p].late
      BY <1>1, <3>2 DEF IsPoint, PointOpen
    <3>4. point' = point \/ point' = [point EXCEPT ![p] = x]
      BY <2>1, <3>2 DEF H!ResumePaused
    <3> QED
      BY <3>1, <3>3, <3>4 DEF PointOpen
  <2>2. ASSUME NEW s \in PointOpen, point' = [point EXCEPT ![p].status = s] \/ point' = point
        PROVE  \E x : /\ point' = [point EXCEPT ![p] = x] /\ IsPoint(x)
                      /\ point[p].status \in PointOpen => x.status \in PointOpen
                      /\ point[p].late => x.late
    <3>1. PICK x : x = [point[p] EXCEPT !.status = s]
      OBVIOUS
    <3>2. IsPoint(x) /\ x.status = s /\ x.late = point[p].late
      BY <1>1, <2>2, <3>1 DEF IsPoint, PointOpen
    <3>3. CASE point' = point
      <4>1. point' = [point EXCEPT ![p] = point[p]]
        BY <1>1, <3>3
      <4> QED
        BY <1>1, <4>1
    <3> QED
      BY <2>2, <3>1, <3>2, <3>3
  <2>3. CASE H!PointLapses(p)
    <3>1. PICK x : x = [point[p] EXCEPT !.late = TRUE]
      OBVIOUS
    <3>2. IsPoint(x) /\ x.status = point[p].status /\ x.late
      BY <1>1, <3>1 DEF IsPoint
    <3> QED
      BY <2>3, <3>1, <3>2 DEF H!PointLapses
  <2>4. H!ClaimPause(p) => point' = [point EXCEPT ![p].status = "leased"]
    BY DEF H!ClaimPause
  <2>5. H!ReleasePause(p) => \/ point' = point
                             \/ point' = [point EXCEPT ![p].status = "resume_queued"]
    BY DEF H!ReleasePause
  <2>6. "leased" \in PointOpen /\ "resume_queued" \in PointOpen
    BY DEF PointOpen
  <2> QED
    BY <2>1, <2>2, <2>3, <2>4, <2>5, <2>6
<1>3. /\ point' = [q \in Things |-> point'[q]]
      /\ \A q \in Things : /\ IsPoint(point'[q])
                           /\ point[q].status \in PointOpen => point'[q].status \in PointOpen
                           /\ point[q].late => point'[q].late
  BY <1>1, <1>2
<1>4. /\ UNCHANGED <<run, waits, job, suspendedBy>>
      /\ money' = "settled" => money = "settled"
  BY DEF H!ResumePaused, H!ClaimPause, H!ReleasePause, H!PointLapses, H!Renewed
<1>5. SteeringTypes'
  BY <1>3, <1>4 DEF SteeringInv, SteeringTypes, IsPoint
<1> QED
  BY <1>3, <1>4, <1>5, StaysSuspended

(* A command is made, moves or ends, or the run ends: no run waits then.     *)
LEMMA CommandSteps ==
  ASSUME SteeringInv,
         \/ \E i \in DOMAIN waits : \/ H!ProvisionWait(i) \/ H!applyContinuationContext(i)
                                    \/ H!expireOne(i)
         \/ \E p \in Things : H!ProvisionPause(p)
         \/ H!markDelivered \/ H!cancelStaleCommand \/ H!deadLetter \/ H!Started
         \/ H!RunStatus \/ H!TerminalAck \/ H!expireStaleDispatches \/ H!DeviceStops
  PROVE  SteeringInv'
<1>1. /\ waits \in Seq(WaitRows) /\ \A i \in DOMAIN waits : waits[i] \in WaitRows
      /\ point = [q \in Things |-> point[q]] /\ \A q \in Things : IsPoint(point[q])
      /\ job \in [for : {job.for}, status : {"queued", "delivered", "closed"}]
  BY DEF SteeringInv, SteeringTypes
<1>2. run' # "waiting_for_human"
  <2>1. job.status # "closed" => run # "waiting_for_human"
    BY DEF SteeringInv, Suspended
  <2> QED
    BY <2>1 DEF H!ProvisionWait, H!applyContinuationContext, H!expireOne, H!ProvisionPause,
       H!markDelivered, H!cancelStaleCommand, H!deadLetter, H!Started, H!RunStatus,
       H!TerminalAck, H!expireStaleDispatches, H!DeviceStops, H!Redispatch, H!Live
<1>3. job' \in [for : {job'.for}, status : {"queued", "delivered", "closed"}]
  <2>1. PICK x : x = [job EXCEPT !.status = "closed"]
    OBVIOUS
  <2>2. PICK y : y = [job EXCEPT !.status = "delivered"]
    OBVIOUS
  <2>3. /\ x \in [for : {x.for}, status : {"queued", "delivered", "closed"}]
        /\ y \in [for : {y.for}, status : {"queued", "delivered", "closed"}]
    BY <1>1, <2>1, <2>2
  <2>4. job' \in {job, x, y} \/ \E s : job' = [for |-> s, status |-> "queued"]
    BY <2>1, <2>2 DEF H!ProvisionWait, H!applyContinuationContext, H!expireOne,
       H!ProvisionPause, H!markDelivered, H!cancelStaleCommand, H!deadLetter, H!Started,
       H!RunStatus, H!TerminalAck, H!expireStaleDispatches, H!DeviceStops, H!Redispatch
  <2>5. ASSUME NEW s, job' = [for |-> s, status |-> "queued"]
        PROVE  job' \in [for : {job'.for}, status : {"queued", "delivered", "closed"}]
    BY <2>5
  <2> QED
    BY <1>1, <2>3, <2>4, <2>5
<1>4. waits' \in Seq(WaitRows)
  <2> DEFINE Kept(f) == f \in [DOMAIN waits -> WaitRows]
  <2>1. ASSUME Kept(waits')
        PROVE  waits' \in Seq(WaitRows)
    BY <1>1, <2>1
  <2>2. ASSUME NEW i \in DOMAIN waits, NEW c \in {"provisioned", "dispatched", "resumed", "failed"}
        PROVE  [waits[i] EXCEPT !.cont = c] \in WaitRows
    BY <1>1, <2>2 DEF WaitRows
  <2>3. ASSUME NEW i \in DOMAIN waits
        PROVE  /\ [waits[i] EXCEPT !.cont = "applied", !.status = "resumed"] \in WaitRows
               /\ [waits[i] EXCEPT !.cont = "failed", !.status = "failed"] \in WaitRows
               /\ [waits[i] EXCEPT !.status = "expired"] \in WaitRows
    <3>1. waits[i] \in WaitRows
      BY <1>1
    <3> QED
      BY <3>1 DEF WaitRows
  <2>4. Kept(waits)
    BY <1>1
  <2>5. ASSUME NEW i \in DOMAIN waits
        PROVE  /\ H!ProvisionWait(i) => Kept(waits')
               /\ H!applyContinuationContext(i) => Kept(waits')
               /\ H!expireOne(i) => Kept(waits')
    BY <1>1, <2>2, <2>3, <2>4
       DEF H!ProvisionWait, H!applyContinuationContext, H!expireOne
  <2>6. ASSUME NEW c \in {"dispatched", "resumed"}, NEW s, H!Advance(c, s)
        PROVE  Kept(waits')
    BY <1>1, <2>2, <2>6 DEF H!Advance
  <2>7. H!cancelStaleCommand \/ H!deadLetter => Kept(waits')
    <3>1. ASSUME NEW x, \A i \in DOMAIN waits : x[i] \in WaitRows,
                 waits' = [i \in DOMAIN waits |->
                   IF job.for = H!Wait(i) THEN x[i] ELSE waits[i]]
          PROVE  Kept(waits')
      BY <1>1, <3>1
    <3>2. CASE H!cancelStaleCommand
      <4> DEFINE x == [i \in DOMAIN waits |-> [waits[i] EXCEPT !.cont = "failed"]]
      <4>1. \A i \in DOMAIN waits : x[i] \in WaitRows
        BY <2>2
      <4>2. waits' = [i \in DOMAIN waits |-> IF job.for = H!Wait(i) THEN x[i] ELSE waits[i]]
        BY <3>2 DEF H!cancelStaleCommand
      <4> QED
        BY <3>1, <4>1, <4>2
    <3>3. CASE H!deadLetter
      <4> DEFINE x == [i \in DOMAIN waits |->
                        [waits[i] EXCEPT !.cont = "failed", !.status = "failed"]]
      <4>1. \A i \in DOMAIN waits : x[i] \in WaitRows
        BY <2>3
      <4>2. waits' = [i \in DOMAIN waits |-> IF job.for = H!Wait(i) THEN x[i] ELSE waits[i]]
        BY <3>3 DEF H!deadLetter
      <4> QED
        BY <3>1, <4>1, <4>2
    <3> QED
      BY <3>2, <3>3
  <2>8. \/ H!RunStatus \/ H!TerminalAck \/ H!expireStaleDispatches \/ H!DeviceStops
        \/ \E p \in Things : H!ProvisionPause(p)
        => waits' = waits
    BY DEF H!RunStatus, H!TerminalAck, H!expireStaleDispatches, H!DeviceStops, H!ProvisionPause
  <2>9. H!markDelivered => H!Advance("dispatched", "sent")
    BY DEF H!markDelivered
  <2>10. H!Started => H!Advance("resumed", "applied") \/ waits' = waits
    BY DEF H!Started
  <2> QED
    BY <2>1, <2>4, <2>5, <2>6, <2>7, <2>8, <2>9, <2>10
<1>5. /\ point' = [q \in Things |-> point'[q]]
      /\ \A q \in Things : IsPoint(point'[q])
  <2> DEFINE Rows == /\ point' = [q \in Things |-> point'[q]]
                     /\ \A q \in Things : IsPoint(point'[q])
  <2>1. ASSUME NEW q \in Things, NEW s \in {"provisioned", "dispatched", "resumed", "failed"}
        PROVE  IsPoint([point[q] EXCEPT !.status = s])
    <3>1. PICK x : x = [point[q] EXCEPT !.status = s]
      OBVIOUS
    <3>2. IsPoint(x)
      BY <1>1, <3>1 DEF IsPoint
    <3> QED
      BY <3>1, <3>2
  <2>2. ASSUME NEW p \in Things, H!ProvisionPause(p)
        PROVE  Rows
    BY <1>1, <2>1, <2>2 DEF H!ProvisionPause
  <2>3. ASSUME NEW s \in {"dispatched", "resumed", "failed"},
               point' = [p \in Things |->
                 IF job.for = H!Pause(p) THEN [point[p] EXCEPT !.status = s] ELSE point[p]]
        PROVE  Rows
    BY <1>1, <2>1, <2>3
  <2>4. ASSUME point' = point
        PROVE  Rows
    BY <1>1, <2>4
  <2>5. H!markDelivered => H!Advance("dispatched", "sent")
    BY DEF H!markDelivered
  <2>6. H!Started => H!Advance("resumed", "applied") \/ point' = point
    BY DEF H!Started
  <2>7. ASSUME NEW s, NEW t, H!Advance(s, t)
        PROVE  point' = [p \in Things |->
                 IF job.for = H!Pause(p) THEN [point[p] EXCEPT !.status = s] ELSE point[p]]
    BY <2>7 DEF H!Advance
  <2>8. H!deadLetter => point' = [p \in Things |->
                 IF job.for = H!Pause(p) THEN [point[p] EXCEPT !.status = "failed"] ELSE point[p]]
    BY DEF H!deadLetter
  <2>9. \/ H!RunStatus \/ H!TerminalAck \/ H!expireStaleDispatches \/ H!DeviceStops
        \/ H!cancelStaleCommand
        \/ \E i \in DOMAIN waits : \/ H!ProvisionWait(i) \/ H!applyContinuationContext(i)
                                   \/ H!expireOne(i)
        => point' = point
    BY DEF H!RunStatus, H!TerminalAck, H!expireStaleDispatches, H!DeviceStops,
       H!cancelStaleCommand, H!ProvisionWait, H!applyContinuationContext, H!expireOne
  <2> HIDE DEF Rows
  <2>10. Rows
    BY <2>2, <2>3, <2>4, <2>5, <2>6, <2>7, <2>8, <2>9
  <2> QED
    BY <2>10 DEF Rows
<1>6. SteeringTypes'
  BY <1>3, <1>4, <1>5 DEF SteeringTypes, IsPoint
<1> QED
  BY <1>2, <1>6 DEF SteeringInv, Suspended

(* The run is suspended by a question or by the pauses that were queued.     *)
LEMMA SuspendSteps ==
  ASSUME SteeringInv, H!openHumanWait \/ H!applyQueuedPauseAtTerminal
  PROVE  SteeringInv'
<1>1. /\ waits \in Seq(WaitRows)
      /\ point = [q \in Things |-> point[q]] /\ \A q \in Things : IsPoint(point[q])
      /\ job \in [for : {job.for}, status : {"queued", "delivered", "closed"}]
  BY DEF SteeringInv, SteeringTypes
<1>2. job'.status = "closed" /\ job' \in [for : {job'.for}, status : {"closed"}]
  <2>1. PICK x : x = [job EXCEPT !.status = "closed"]
    OBVIOUS
  <2>2. x.status = "closed" /\ x \in [for : {x.for}, status : {"closed"}]
    BY <1>1, <2>1
  <2>3. job' = x
    BY <2>1 DEF H!openHumanWait, H!applyQueuedPauseAtTerminal
  <2> QED
    BY <2>2, <2>3
<1>3. money' # "settled"
  BY DEF H!openHumanWait, H!applyQueuedPauseAtTerminal, H!Reserved, H!Renewed
<1>4. ASSUME NEW newer \in BOOLEAN, NEW q \in Things
      PROVE  H!Publish(newer)[q] = [point[q] EXCEPT !.current = @ /\ ~ newer]
             /\ IsPoint(H!Publish(newer)[q])
  <2>1. PICK x : x = [point[q] EXCEPT !.current = @ /\ ~ newer]
    OBVIOUS
  <2>2. IsPoint(x)
    BY <1>1, <2>1 DEF IsPoint
  <2>3. H!Publish(newer)[q] = x
    BY <2>1 DEF H!Publish
  <2> QED
    BY <2>1, <2>2, <2>3
<1>5. CASE H!openHumanWait
  <2> DEFINE x == [status |-> "awaiting_human", cont |-> "none", late |-> FALSE]
  <2>1. x \in WaitRows /\ x.status \in WaitOpen
    BY DEF WaitRows, WaitOpen
  <2>2. waits' = Append(waits, x) /\ suspendedBy' = {H!Wait(Len(waits) + 1)}
    BY <1>5 DEF H!openHumanWait
  <2>3. /\ waits' \in Seq(WaitRows)
        /\ Len(waits) + 1 \in DOMAIN waits' /\ waits'[Len(waits) + 1] = x
    BY <1>1, <2>1, <2>2
  <2>4. PICK newer \in BOOLEAN : point' = H!Publish(newer)
    BY <1>5 DEF H!openHumanWait
  <2>5. point' = [q \in Things |-> point'[q]]
    BY <2>4 DEF H!Publish
  <2>6. \A q \in Things : IsPoint(point'[q])
    BY <1>4, <2>4
  <2>7. SteeringTypes'
    BY <1>2, <2>3, <2>5, <2>6 DEF SteeringTypes, IsPoint
  <2>8. \E i \in DOMAIN waits' : H!Wait(i)' \in suspendedBy' /\ waits'[i].status \in WaitOpen
    <3>1. H!Wait(Len(waits) + 1) \in suspendedBy'
      BY <2>2
    <3> QED
      BY <2>1, <2>3, <3>1
  <2> QED
    BY <1>2, <1>3, <2>7, <2>8 DEF SteeringInv, Suspended
<1>6. CASE H!applyQueuedPauseAtTerminal
  <2>1. PICK newer \in BOOLEAN :
          point' = [p \in Things |-> IF p \in H!QueuedPauses
            THEN [point[p] EXCEPT !.status = "paused",
                    !.at = H!Cardinality({q \in Things : point[q].status # "none"})]
            ELSE H!Publish(newer)[p]]
    BY <1>6 DEF H!applyQueuedPauseAtTerminal
  <2>2. PICK p \in Things : p \in H!QueuedPauses
    BY <1>6 DEF H!applyQueuedPauseAtTerminal, H!QueuedPauses
  <2>3. waits' = waits /\ suspendedBy' = {H!Pause(q) : q \in H!QueuedPauses}
    BY <1>6 DEF H!applyQueuedPauseAtTerminal
  <2> DEFINE n == H!Cardinality({q \in Things : point[q].status # "none"})
  <2>4. ASSUME NEW q \in Things
        PROVE  IsPoint(point'[q]) /\ (q \in H!QueuedPauses => point'[q].status = "paused")
    <3>1. PICK x : x = [point[q] EXCEPT !.status = "paused", !.at = n]
      OBVIOUS
    <3>2. IsPoint(x) /\ x.status = "paused"
      BY <1>1, <3>1 DEF IsPoint, PointOpen
    <3>3. q \in H!QueuedPauses => point'[q] = x
      BY <2>1, <3>1
    <3>4. q \notin H!QueuedPauses => point'[q] = H!Publish(newer)[q]
      BY <2>1
    <3>5. IsPoint(H!Publish(newer)[q])
      BY <1>4
    <3> QED
      BY <3>2, <3>3, <3>4, <3>5
  <2>5. point' = [q \in Things |-> point'[q]]
    BY <2>1
  <2>6. SteeringTypes'
    BY <1>1, <1>2, <2>3, <2>4, <2>5 DEF SteeringTypes, IsPoint
  <2>7. H!Pause(p)' \in suspendedBy' /\ point'[p].status \in PointOpen
    <3>1. H!Pause(p) \in suspendedBy'
      BY <2>2, <2>3
    <3> QED
      BY <2>2, <2>4, <3>1 DEF PointOpen
  <2> QED
    BY <1>2, <1>3, <2>6, <2>7 DEF SteeringInv, Suspended
<1> QED
  BY <1>5, <1>6

(* The reservation runs out, and the sweep releases it: only when nothing    *)
(* that suspended the run keeps it any longer.                               *)
LEMMA MoneySteps ==
  ASSUME SteeringInv, H!ReservationLapses \/ H!ReleaseOrphan
  PROVE  SteeringInv'
<1>1. UNCHANGED <<run, waits, point, job, suspendedBy>>
  BY DEF H!ReservationLapses, H!ReleaseOrphan
<1>2. SteeringTypes'
  BY <1>1 DEF SteeringInv, SteeringTypes, IsPoint
<1>3. CASE H!ReservationLapses
  BY <1>1, <1>2, <1>3, StaysSuspended DEF H!ReservationLapses
<1>4. CASE H!ReleaseOrphan
  <2>1. /\ \A i \in DOMAIN waits : waits[i].status \notin WaitOpen
        /\ \A p \in Things : point[p].late \/ point[p].status \notin PointOpen
    BY <1>4 DEF H!ReleaseOrphan, H!findOrphanCandidates, WaitOpen, PointOpen
  <2>2. Suspended'
    BY <1>1, <2>1 DEF SteeringInv, Suspended, H!Wait, H!Pause
  <2> QED
    BY <1>2, <2>2 DEF SteeringInv
<1> QED
  BY <1>3, <1>4

(* A step of the composition is a step of the steering when that is the      *)
(* part.                                                                     *)
LEMMA SteeringStep ==
  ASSUME [Next]_vars
  PROVE  /\ part' = part
         /\ part = "steering" => H!Next \/ UNCHANGED steeringVars
<1>1. CASE UNCHANGED vars
  BY <1>1 DEF vars
<1>2. CASE Debating \/ Reviewing \/ KickingOff \/ Planning
  BY <1>2 DEF Debating, Reviewing, KickingOff, Planning
<1>3. CASE Proxying \/ Talking \/ Publishing
  BY <1>3 DEF Proxying, Talking, Publishing
<1>4. CASE Steered
  BY <1>4 DEF Steered
<1> QED
  BY <1>1, <1>2, <1>3, <1>4 DEF Next

(* However questions, pauses, answers, late deadlines, sweeps, lost commands *)
(* and device stops meet (phase4RecoveryMonitor.ts, the continuation         *)
(* workers), the money of a suspended run is settled only after what         *)
(* suspended it has run out.                                                 *)
THEOREM BudgetKept == Spec => []SuspendedRunKeepsBudget
<1>1. Init => (part = "steering" => SteeringInv)
  <2>1. ASSUME Init, part = "steering"
        PROVE  SteeringInv
    <3>1. H!Init
      BY <2>1 DEF Init
    <3>2. /\ waits = <<>> /\ run = "running" /\ job = [for |-> H!Nothing, status |-> "delivered"]
          /\ point = [p \in Things |-> [status |-> "none", resume |-> "none", at |-> 0,
                                       current |-> TRUE, late |-> FALSE]]
      BY <3>1 DEF H!Init
    <3>3. SteeringTypes
      BY <3>2 DEF SteeringTypes, IsPoint
    <3> QED
      BY <3>2, <3>3 DEF SteeringInv, Suspended
  <2> QED
    BY <2>1
<1>2. ASSUME SteeringInv, H!Next
      PROVE  SteeringInv'
  <2>1. ASSUME NEW a \in H!Acts, H!Deliver(a)
        PROVE  SteeringInv'
    BY <1>2, <2>1, ActionSteps, PointSteps DEF H!Deliver
  <2>2. CASE H!Continue
    BY <1>2, <2>2, WaitSteps, PointSteps, CommandSteps DEF H!Continue
  <2>3. CASE H!Runner
    <3>1. \A a \in Things : a \in H!Acts
      BY DEF H!Acts
    <3> QED
      BY <1>2, <2>3, <3>1, ActionSteps, CommandSteps, SuspendSteps DEF H!Runner
  <2>4. CASE H!Sweep
    BY <1>2, <2>4, CommandSteps, MoneySteps DEF H!Sweep
  <2>5. CASE H!Environment
    BY <1>2, <2>5, ActionSteps, WaitSteps, PointSteps, MoneySteps, CommandSteps DEF H!Environment
  <2>6. CASE H!markDelivered
    BY <1>2, <2>6, CommandSteps
  <2> QED
    BY <1>2, <2>1, <2>2, <2>3, <2>4, <2>5, <2>6 DEF H!Next
<1>3. ASSUME SteeringInv, UNCHANGED steeringVars
      PROVE  SteeringInv'
  BY <1>3 DEF steeringVars, SteeringInv, SteeringTypes, Suspended, IsPoint
<1>4. (part = "steering" => SteeringInv) /\ [Next]_vars => (part = "steering" => SteeringInv)'
  BY <1>2, <1>3, SteeringStep
<1>5. (part = "steering" => SteeringInv) => SuspendedRunKeepsBudget
  BY DEF SuspendedRunKeepsBudget, H!SuspendedRunKeepsBudget, SteeringInv, Suspended
<1> QED
  BY <1>1, <1>4, <1>5, PTL DEF Spec

-----------------------------------------------------------------------------
(* Publication                                                             *)

BP == INSTANCE PublicationProofs WITH
        MaxAttempts <- 2, MaxFaults <- 1, run <- attempts, overdue <- writes

(* The steps of the composition's publication are those the proofs are about. *)
LEMMA PublicationNext == B!Next <=> BP!Next
BY DEF B!Next, BP!Next,
   B!schedule, B!runEnds, B!requestStop, B!reauthorizePublication, B!issue, B!consume,
   B!unguarded, B!permitRefused, B!applyPublished, B!committed, B!fenceArrives, B!push,
   B!remoteTip, B!force, B!integrateIntoBase, B!report, B!runnerDies, B!Attempts, B!Commits,
   B!Absent, B!Fault, B!Go, B!Fails, B!Writes, B!OnceOnBranch, B!Guards, B!Publishing,
   B!expectedRevision, B!authorizedPublicationScope, B!serverVars, B!runnerVars, B!remoteVars,
   BP!schedule, BP!runEnds, BP!requestStop, BP!reauthorizePublication, BP!issue, BP!consume,
   BP!unguarded, BP!permitRefused, BP!applyPublished, BP!committed, BP!fenceArrives, BP!push,
   BP!remoteTip, BP!force, BP!integrateIntoBase, BP!report, BP!runnerDies, BP!Attempts,
   BP!Commits, BP!Absent, BP!Fault, BP!Go, BP!Fails, BP!Writes, BP!OnceOnBranch, BP!Guards,
   BP!Publishing, BP!expectedRevision, BP!authorizedPublicationScope, BP!serverVars,
   BP!runnerVars, BP!remoteVars

(* A step of the composition leaves its part alone, and is a step of the     *)
(* publication when that is the part.                                        *)
LEMMA PublicationStep ==
  ASSUME [Next]_vars
  PROVE  /\ part' = part
         /\ part = "publication" => [BP!Next]_(BP!vars)
<1>1. CASE UNCHANGED vars
  BY <1>1 DEF vars, publishVars, BP!vars, BP!serverVars, BP!runnerVars, BP!remoteVars
<1>2. CASE Debating \/ Reviewing \/ KickingOff \/ Planning
  BY <1>2 DEF Debating, Reviewing, KickingOff, Planning
<1>3. CASE Proxying \/ Talking \/ Steered
  BY <1>3 DEF Proxying, Talking, Steered
<1>4. CASE Publishing
  BY <1>4, PublicationNext DEF Publishing
<1> QED
  BY <1>1, <1>2, <1>3, <1>4 DEF Next

(* The publication's inductive invariant holds in the composition.           *)
LEMMA PublicationHolds == Spec => [](part = "publication" => BP!PubInv)
<1>1. 2 \in Nat
  OBVIOUS
<1>2. Init => (part = "publication" => BP!PubInv)
  <2>1. ASSUME Init, part = "publication"
        PROVE  BP!Init
    BY <2>1 DEF Init, B!Init, BP!Init, B!Attempts, B!Commits, B!Absent, BP!Attempts,
       BP!Commits, BP!Absent
  <2> QED
    BY <1>1, <2>1, BP!InitInv
<1>3. (part = "publication" => BP!PubInv) /\ [Next]_vars => (part = "publication" => BP!PubInv)'
  BY <1>1, PublicationStep, BP!StepInv
<1> QED
  BY <1>2, <1>3, PTL DEF Spec

(* A run that was fenced or ended while its device was publishing writes to  *)
(* the git remote at most once more (publicationPermits.ts).                 *)
THEOREM StoppedWritesOnce == Spec => []StoppedRunWritesOnce
<1>1. (part = "publication" => BP!PubInv) => StoppedRunWritesOnce
  BY DEF StoppedRunWritesOnce, B!StoppedRunWritesOnce, BP!PubInv, BP!WriteInv,
     B!Attempts, BP!Attempts
<1> QED
  BY <1>1, PublicationHolds, PTL

(* The commit of an attempt on the task's branch is never replaced by that   *)
(* of an earlier attempt that publishes late (GitPublisher.push).            *)
THEOREM NewerStands == Spec => NewerWorkStands
<1>1. (part = "publication" => BP!PubInv) /\ [Next]_vars
      => [(part = "publication" => B!NewerWorkStep)]_publishVars
  BY PublicationStep, BP!BranchStep
     DEF BP!NewerWorkStep, B!NewerWorkStep, B!Attempts, BP!Attempts
<1> QED
  BY <1>1, PublicationHolds, PTL DEF Spec, NewerWorkStands

(* The observed head only moves to work built on it, in whatever order the   *)
(* run_published events of the attempts arrive (phase4EventProcessor).       *)
THEOREM HeadForwards == Spec => HeadMovesForward
<1>1. (part = "publication" => BP!PubInv) /\ [Next]_vars
      => [(part = "publication" => B!HeadStep)]_publishVars
  BY PublicationStep, BP!HeadForward DEF BP!HeadStep, B!HeadStep
<1> QED
  BY <1>1, PublicationHolds, PTL DEF Spec, HeadMovesForward

-----------------------------------------------------------------------------
(* Debates and planning runs                                               *)

WP == INSTANCE WorkerProofs WITH
        RoundSize <- Size, MaxRounds <- Size, TurnCharge <- 1, MaxCost <- 3,
        ActorBudget <- 2, MaxActorTurns <- 2, MaxAttempts <- 2, MaxCommands <- 1,
        PlanRounds <- 2, MaxModify <- 1, PlanFaults <- 2,
        Conversations <- Things, Turns <- {1, 2}, MaxMessages <- 1, MaxCharge <- 1,
        Limit <- 1, MaxFaults <- 0

(* The steps of the composition's debate are those the proofs are about.     *)
LEMMA DebateNext == D!Next <=> WP!Next
<1>1. \A d, to : D!transitionRunState(d, to) = WP!transitionRunState(d, to)
  BY DEF D!transitionRunState, D!Throw, D!RunTransitions, WP!transitionRunState,
     WP!Throw, WP!RunTransitions
<1>2. \A d, actor : D!WithinBudget(d, actor) <=> WP!WithinBudget(d, actor)
  BY DEF D!WithinBudget, D!CommittedCost, D!CommittedOf, D!Committed, D!Attempts,
     D!OfActor, D!MapThenSumSet, D!MapThenFoldSet, WP!WithinBudget, WP!CommittedCost,
     WP!CommittedOf, WP!Committed, WP!Attempts, WP!OfActor, WP!MapThenSumSet,
     WP!MapThenFoldSet
<1>3. \A d : D!UsageCost(d) = WP!UsageCost(d)
  BY DEF D!UsageCost, D!Attempts, D!MapThenSumSet, D!MapThenFoldSet, WP!UsageCost,
     WP!Attempts, WP!MapThenSumSet, WP!MapThenFoldSet
<1>4. \A d, a, to, st, res, paid :
        D!Close(d, a, to, st, res, paid) = WP!Close(d, a, to, st, res, paid)
  BY DEF D!Close, D!Nobody, WP!Close, WP!Nobody
<1>5. \A d, t, n : D!AddAttempt(d, t, n) = WP!AddAttempt(d, t, n)
  BY DEF D!AddAttempt, D!Attempt, D!Nobody, WP!AddAttempt, WP!Attempt, WP!Nobody
<1>6. \A d : D!AssumeFullCharge(d) = WP!AssumeFullCharge(d)
  BY DEF D!AssumeFullCharge, WP!AssumeFullCharge
<1>7. \A d : D!completeRun(d) = WP!completeRun(d)
  BY <1>1 DEF D!completeRun, D!Attempts, WP!completeRun, WP!Attempts
<1>8. \A d, actor, round :
        D!scheduleTurn(d, actor, round) = WP!scheduleTurn(d, actor, round)
  BY <1>1, <1>2, <1>7 DEF D!scheduleTurn, D!InsertFinalOutput, D!Attempt, D!Nobody,
     D!Turn, D!Cardinality, WP!scheduleTurn, WP!InsertFinalOutput, WP!Attempt, WP!Nobody,
     WP!Turn, WP!Cardinality
<1>9. \A d, round, over, semantic :
        D!evaluateV2DebateStopping(d, round, over, semantic) <=> WP!evaluateV2DebateStopping(d, round, over, semantic)
  BY <1>3 DEF D!evaluateV2DebateStopping, WP!evaluateV2DebateStopping
<1>10. \A d, t, over, semantic :
        D!advance(d, t, over, semantic) = WP!advance(d, t, over, semantic)
  BY <1>1, <1>7, <1>8, <1>9 DEF D!advance, D!InsertFinalOutput, D!Synthesizer,
     WP!advance, WP!InsertFinalOutput, WP!Synthesizer
<1>11. \A d, a : D!storeTurn(d, a) = WP!storeTurn(d, a)
  BY <1>4 DEF D!storeTurn, WP!storeTurn
<1>12. \A d, a : D!storeOutput(d, a) = WP!storeOutput(d, a)
  BY <1>11 DEF D!storeOutput, D!InsertFinalOutput, D!Throw, D!Synthesizer,
     WP!storeOutput, WP!InsertFinalOutput, WP!Throw, WP!Synthesizer
<1>13. \A d : D!dropQueued(d) = WP!dropQueued(d)
  BY DEF D!dropQueued, WP!dropQueued
<1>14. \A d, w, a, over, semantic :
        D!complete(d, w, a, over, semantic) = WP!complete(d, w, a, over, semantic)
  BY <1>1, <1>10, <1>12, <1>13 DEF D!complete, D!Holds, D!Throw, D!Terminal, WP!complete,
     WP!Holds, WP!Throw, WP!Terminal
<1>15. \A d, w, a, kind : D!fail(d, w, a, kind) = WP!fail(d, w, a, kind)
  BY <1>1, <1>4, <1>5 DEF D!fail, D!Holds, WP!fail, WP!Holds
<1>16. \A d, w, a : D!failClaimPreparation(d, w, a) = WP!failClaimPreparation(d, w, a)
  BY <1>1, <1>4 DEF D!failClaimPreparation, D!Holds, WP!failClaimPreparation, WP!Holds
<1>17. \A d, w, a : D!stopAtDeadline(d, w, a) = WP!stopAtDeadline(d, w, a)
  BY <1>1, <1>4 DEF D!stopAtDeadline, D!InsertFinalOutput, D!Holds, WP!stopAtDeadline,
     WP!InsertFinalOutput, WP!Holds
<1>18. \A d, a : D!abandon(d, a) = WP!abandon(d, a)
  BY <1>1, <1>4 DEF D!abandon, WP!abandon
<1>19. \A d : D!closeRun(d) = WP!closeRun(d)
  BY DEF D!closeRun, WP!closeRun
<1>20. \A s : D!Max(s) = WP!Max(s)
  BY DEF D!Max, WP!Max
<1>21. \A w : D!Claim(w) <=> WP!Claim(w)
  BY <1>18 DEF D!Claim, D!Commit, D!Idle, D!Leased, D!Attempts, D!Queued, WP!Claim,
     WP!Commit, WP!Idle, WP!Leased, WP!Attempts, WP!Queued
<1>22. \A w : D!LoadClaimFails(w) <=> WP!LoadClaimFails(w)
  BY <1>16 DEF D!LoadClaimFails, D!Ends, D!Idle, D!Commit, WP!LoadClaimFails, WP!Ends,
     WP!Idle, WP!Commit
<1>23. \A w : D!StopAtDeadline(w) <=> WP!StopAtDeadline(w)
  BY <1>17 DEF D!StopAtDeadline, D!Ends, D!Idle, D!Commit, WP!StopAtDeadline, WP!Ends,
     WP!Idle, WP!Commit
<1>24. \A w : D!PrepareFails(w) <=> WP!PrepareFails(w)
  BY <1>15 DEF D!PrepareFails, D!Ends, D!Idle, D!Commit, WP!PrepareFails, WP!Ends,
     WP!Idle, WP!Commit
<1>25. \A w : D!RecordPromptDispatch(w) <=> WP!RecordPromptDispatch(w)
  BY DEF D!RecordPromptDispatch, D!Holds, WP!RecordPromptDispatch, WP!Holds
<1>26. \A w : D!CallProvider(w) <=> WP!CallProvider(w)
  BY DEF D!CallProvider, WP!CallProvider
<1>27. \A w : D!ProviderAnswers(w) <=> WP!ProviderAnswers(w)
  BY DEF D!ProviderAnswers, WP!ProviderAnswers
<1>28. \A w : D!Complete(w) <=> WP!Complete(w)
  BY <1>14 DEF D!Complete, D!Commit, D!Idle, WP!Complete, WP!Commit, WP!Idle
<1>29. \A w : D!Fail(w) <=> WP!Fail(w)
  BY <1>15 DEF D!Fail, D!Ends, D!Idle, D!Commit, WP!Fail, WP!Ends, WP!Idle, WP!Commit
<1>30. \A w : D!ExtendLease(w) <=> WP!ExtendLease(w)
  BY DEF D!ExtendLease, D!Holds, WP!ExtendLease, WP!Holds
<1>31. \A w : D!Crash(w) <=> WP!Crash(w)
  BY DEF D!Crash, D!Ends, D!Idle, WP!Crash, WP!Ends, WP!Idle
<1>32. D!LeaseRunsOut <=> WP!LeaseRunsOut
  BY DEF D!LeaseRunsOut, D!Leased, D!Attempts, WP!LeaseRunsOut, WP!Leased, WP!Attempts
<1>33. D!DeadlinePasses <=> WP!DeadlinePasses
  BY DEF D!DeadlinePasses, WP!DeadlinePasses
<1>34. D!Start <=> WP!Start
  BY DEF D!Start, D!Attempt, D!Nobody, D!Turn, D!NoRun, WP!Start, WP!Attempt, WP!Nobody,
     WP!Turn, WP!NoRun
<1>35. D!Pause <=> WP!Pause
  BY <1>1 DEF D!Pause, D!Commanded, D!Commit, D!Open, D!Terminal, WP!Pause, WP!Commanded,
     WP!Commit, WP!Open, WP!Terminal
<1>36. D!Resume <=> WP!Resume
  BY DEF D!Resume, D!Open, D!Terminal, D!AssumeFullCharge, D!AddAttempt, D!Attempt,
     D!Nobody, D!WithinBudget, D!CommittedCost, D!CommittedOf, D!Committed, D!Attempts,
     D!OfActor, D!Queued, D!Max, D!MapThenSumSet, D!MapThenFoldSet, WP!Resume, WP!Open,
     WP!Terminal, WP!AssumeFullCharge, WP!AddAttempt, WP!Attempt, WP!Nobody,
     WP!WithinBudget, WP!CommittedCost, WP!CommittedOf, WP!Committed, WP!Attempts,
     WP!OfActor, WP!Queued, WP!Max, WP!MapThenSumSet, WP!MapThenFoldSet
<1>37. D!Cancel <=> WP!Cancel
  BY <1>1, <1>6, <1>19 DEF D!Cancel, D!Commanded, D!Commit, D!Open, D!Terminal, D!Leased,
     D!Attempts, WP!Cancel, WP!Commanded, WP!Commit, WP!Open, WP!Terminal, WP!Leased,
     WP!Attempts
<1>38. D!StopAfter <=> WP!StopAfter
  BY DEF D!StopAfter, D!Commanded, D!Commit, D!Open, D!Terminal, WP!StopAfter,
     WP!Commanded, WP!Commit, WP!Open, WP!Terminal
<1>39. D!Intervene <=> WP!Intervene
  BY DEF D!Intervene, D!Commanded, D!Commit, D!Open, D!Terminal, WP!Intervene,
     WP!Commanded, WP!Commit, WP!Open, WP!Terminal
<1> QED
  BY <1>21, <1>22, <1>23, <1>24, <1>25, <1>26, <1>27, <1>28, <1>29, <1>30, <1>31, <1>32,
     <1>33, <1>34, <1>35, <1>36, <1>37, <1>38, <1>39 DEF D!Tick, D!Next, WP!Tick, WP!Next

(* A step of the composition is a step of the debate when that is the part.  *)
LEMMA DebateStep ==
  ASSUME [Next]_vars
  PROVE  /\ part' = part
         /\ part = "debates" => WP!Next \/ UNCHANGED WP!debateVars
<1>1. CASE UNCHANGED vars
  BY <1>1 DEF vars, debateVars, WP!debateVars
<1>2. CASE Reviewing \/ KickingOff \/ Planning \/ Proxying
  BY <1>2 DEF Reviewing, KickingOff, Planning, Proxying
<1>3. CASE Talking \/ Publishing \/ Steered
  BY <1>3 DEF Talking, Publishing, Steered
<1>4. CASE Debating
  BY <1>4, DebateNext DEF Debating
<1> QED
  BY <1>1, <1>2, <1>3, <1>4 DEF Next

(* The debate's inductive invariant holds in the composition.                *)
LEMMA DebateHolds == Spec => [](part = "debates" => WP!DebateInv)
<1>1. Init => (part = "debates" => WP!DebateInv)
  <2>1. ASSUME Init, part = "debates"
        PROVE  WP!Init
    BY <2>1 DEF Init, D!Init, WP!Init, D!NoRun, WP!NoRun, D!Idle, WP!Idle
  <2> QED
    BY <2>1, WP!DebateInit
<1>2. (part = "debates" => WP!DebateInv) /\ [Next]_vars => (part = "debates" => WP!DebateInv)'
  BY DebateStep, WP!DebateSound DEF WP!Sound
<1> QED
  BY <1>1, <1>2, PTL DEF Spec

(* However the workers' calls, expired leases, retries, the deadline and the *)
(* human's commands meet (worker.ts, service.ts), a charge that nobody knows  *)
(* keeps the run paused with no job queued or under way.                     *)
THEOREM AmbiguityStops == Spec => []AmbiguityStopsTheRun
<1>1. (part = "debates" => WP!DebateInv) => AmbiguityStopsTheRun
  BY WP!UnpaidStops DEF AmbiguityStopsTheRun, D!AmbiguityStopsTheRun,
     WP!AmbiguityStopsTheRun, D!Attempts, WP!Attempts, D!Queued, WP!Queued, D!Leased, WP!Leased
<1> QED
  BY <1>1, DebateHolds, PTL

(* What a debate has settled, retained and reserved stays within the budget  *)
(* of the run and of each actor, whatever workers, retries, the deadline and *)
(* the human's commands do (worker.ts scheduleTurn, service.ts control).     *)
THEOREM DebateBudgets == Spec => []DebateBudgetHeld
<1> DEFINE Inv == part = "debates" => /\ WP!DebateInv /\ WP!Solvent(debate)
                                      /\ WP!Backed(debate)
<1>1. Init => Inv
  <2> SUFFICES ASSUME Init, part = "debates"
               PROVE  WP!DebateInv /\ WP!Solvent(debate) /\ WP!Backed(debate)
    OBVIOUS
  <2>1. WP!Init /\ debate.atts = <<>>
    BY DEF Init, D!Init, WP!Init, D!NoRun, WP!NoRun, D!Idle, WP!Idle
  <2>2. WP!DebateInv
    BY <2>1, WP!DebateInit
  <2>3. WP!Solvent(debate) /\ WP!Backed(debate)
    BY <2>1, WP!NothingCharged
  <2> QED
    BY <2>2, <2>3
<1>2. Inv /\ [Next]_vars => Inv'
  BY DebateStep, WP!DebateSound DEF WP!Sound, WP!Pays
<1>3. Inv => DebateBudgetHeld
  <2>1. Inv => (part = "debates" => WP!DebateBudgetHeld)
    BY WP!SolventBudgets
  <2>2. WP!DebateBudgetHeld => D!DebateBudgetHeld
    BY DEF D!DebateBudgetHeld, D!CommittedCost, D!CommittedOf, D!Committed, D!Attempts,
       D!OfActor, D!MapThenSumSet, D!MapThenFoldSet, WP!DebateBudgetHeld,
       WP!CommittedCost, WP!CommittedOf, WP!Committed, WP!Attempts, WP!OfActor,
       WP!MapThenSumSet, WP!MapThenFoldSet
  <2> QED
    BY <2>1, <2>2 DEF DebateBudgetHeld
<1> QED
  BY <1>1, <1>2, <1>3, PTL DEF Spec

(* The steps of the composition's planning are those the proofs are about.   *)
LEMMA PlanningNext == P!Next <=> WP!P!Next
BY DEF
   P!Next, P!Claim, P!ExecuteFails, P!RoundReported, P!PlanReady, P!QuickApproved,
   P!claimQuickKickoff, P!completeQuickKickoff, P!DeadlineHits, P!retryQuickKickoff,
   P!LateRound, P!create, P!RetryTimeComes, P!Decide, P!Restart, P!Work, P!None,
   P!Working, P!Decidable, P!Looping, P!NoExec, P!Owns, P!Released, P!Write, P!Done,
   P!fail, P!Report, P!MayReport, P!persistProgress, P!Reported, P!persistTerminal,
   P!persistQuickApproval, P!reconcileOrphans,
   WP!P!Next, WP!P!Claim, WP!P!ExecuteFails, WP!P!RoundReported, WP!P!PlanReady,
   WP!P!QuickApproved, WP!P!claimQuickKickoff, WP!P!completeQuickKickoff, WP!P!DeadlineHits,
   WP!P!retryQuickKickoff, WP!P!LateRound, WP!P!create, WP!P!RetryTimeComes, WP!P!Decide,
   WP!P!Restart, WP!P!Work, WP!P!None, WP!P!Working, WP!P!Decidable, WP!P!Looping, WP!P!NoExec,
   WP!P!Owns, WP!P!Released, WP!P!Write, WP!P!Done, WP!P!fail, WP!P!Report, WP!P!MayReport,
   WP!P!persistProgress, WP!P!Reported, WP!P!persistTerminal, WP!P!persistQuickApproval,
   WP!P!reconcileOrphans

(* A step of the composition is a step of the planning run when that is the  *)
(* part.                                                                     *)
LEMMA PlanningStep ==
  ASSUME [Next]_vars
  PROVE  /\ part' = part
         /\ part = "planning" => [WP!P!Next]_(WP!P!planningVars)
<1>1. CASE UNCHANGED vars
  BY <1>1 DEF vars, planVars, WP!P!planningVars
<1>2. CASE Debating \/ Reviewing \/ KickingOff \/ Publishing
  BY <1>2 DEF Debating, Reviewing, KickingOff, Publishing
<1>3. CASE Proxying \/ Talking \/ Steered
  BY <1>3 DEF Proxying, Talking, Steered
<1>4. CASE Planning
  BY <1>4, PlanningNext DEF Planning
<1> QED
  BY <1>1, <1>2, <1>3, <1>4 DEF Next

(* A planning run in a worker's hands has exactly one call that can write to *)
(* it, and one out of its hands none (the lease token of planning_runs,      *)
(* runWorker.ts): no late round or verdict follows a deadline or a restart.  *)
THEOREM PlanningOneWriter == Spec => []RunHasOneWriter
<1> DEFINE Inv == part = "planning" => WP!PlanInv
<1>1. Init => Inv
  <2>1. ASSUME Init, part = "planning"
        PROVE  WP!P!Init
    BY <2>1 DEF Init, P!Init, WP!P!Init, P!None, WP!P!None, P!NoExec, WP!P!NoExec
  <2> QED
    BY <2>1, WP!PlanInit
<1>2. Inv /\ [Next]_vars => Inv'
  BY PlanningStep, WP!PlanStep
<1>3. Inv => RunHasOneWriter
  BY WP!OneWriter DEF RunHasOneWriter, P!RunHasOneWriter, WP!P!RunHasOneWriter, P!Working,
     WP!P!Working, P!Owns, WP!P!Owns
<1> QED
  BY <1>1, <1>2, <1>3, PTL DEF Spec

-----------------------------------------------------------------------------
(* The conversations                                                         *)

\* the restarted server's conversation; what differs from WP
WQ == INSTANCE WorkerProofs WITH
        RoundSize <- Size, MaxRounds <- Size, TurnCharge <- 1, MaxCost <- 3,
        ActorBudget <- 2, MaxActorTurns <- 2, MaxAttempts <- 2, MaxCommands <- 1,
        PlanRounds <- 2, MaxModify <- 1, PlanFaults <- 2,
        Conversations <- {"c"}, Turns <- 1 .. Size, MaxMessages <- 1, MaxCharge <- 1,
        Limit <- 1, MaxFaults <- 1

(* The steps of the conversations are those the proofs are about. *)
LEMMA TurnNext == T!Next <=> WP!T!Next
BY DEF
   T!None, T!OpenAttempt, T!NoAttempt, T!NoTurn, T!AttemptsOf, T!hasActiveTurnAttempt,
   T!Busy, T!GoTo, T!submitUserMessage, T!BeginProposal, T!SettleProposal,
   T!ArchiveChecks, T!ArchiveCommits, T!Prepare, T!Begin, T!ReserveReads, T!Reserve,
   T!FailUnsent, T!Dispatch, T!Broken, T!NotDispatched, T!ResponseStarts,
   T!startVisibleOutput, T!StreamEnds, T!StreamBreaks, T!Stop, T!Observe,
   T!TelemetryRetries, T!resolve, T!Outcome, T!Resolve, T!Finalised, T!CloseAttempt,
   T!reconcileOrphans, T!Restart, T!reconcileReservations, T!Handle, T!Next, T!held,
   T!consumed, T!LatestFor, T!Counted, T!MapThenSumSet, T!MapThenFoldSet, T!Max,
   WP!T!None, WP!T!OpenAttempt, WP!T!NoAttempt, WP!T!NoTurn, WP!T!AttemptsOf,
   WP!T!hasActiveTurnAttempt, WP!T!Busy, WP!T!GoTo, WP!T!submitUserMessage, WP!T!BeginProposal,
   WP!T!SettleProposal, WP!T!ArchiveChecks, WP!T!ArchiveCommits, WP!T!Prepare, WP!T!Begin,
   WP!T!ReserveReads, WP!T!Reserve, WP!T!FailUnsent, WP!T!Dispatch, WP!T!Broken,
   WP!T!NotDispatched, WP!T!ResponseStarts, WP!T!startVisibleOutput, WP!T!StreamEnds,
   WP!T!StreamBreaks, WP!T!Stop, WP!T!Observe, WP!T!TelemetryRetries, WP!T!resolve, WP!T!Outcome,
   WP!T!Resolve, WP!T!Finalised, WP!T!CloseAttempt, WP!T!reconcileOrphans, WP!T!Restart,
   WP!T!reconcileReservations, WP!T!Handle, WP!T!Next, WP!T!held, WP!T!consumed, WP!T!LatestFor,
   WP!T!Counted, WP!T!MapThenSumSet, WP!T!MapThenFoldSet, WP!T!Max

(* The steps of the restarted server are those the proofs are about. *)
LEMMA RestartedNext == U!Next <=> WQ!T!Next
BY DEF
   U!None, U!OpenAttempt, U!NoAttempt, U!NoTurn, U!AttemptsOf, U!hasActiveTurnAttempt,
   U!Busy, U!GoTo, U!submitUserMessage, U!BeginProposal, U!SettleProposal,
   U!ArchiveChecks, U!ArchiveCommits, U!Prepare, U!Begin, U!ReserveReads, U!Reserve,
   U!FailUnsent, U!Dispatch, U!Broken, U!NotDispatched, U!ResponseStarts,
   U!startVisibleOutput, U!StreamEnds, U!StreamBreaks, U!Stop, U!Observe,
   U!TelemetryRetries, U!resolve, U!Outcome, U!Resolve, U!Finalised, U!CloseAttempt,
   U!reconcileOrphans, U!Restart, U!reconcileReservations, U!Handle, U!Next, U!held,
   U!consumed, U!LatestFor, U!Counted, U!MapThenSumSet, U!MapThenFoldSet, U!Max,
   WQ!T!None, WQ!T!OpenAttempt, WQ!T!NoAttempt, WQ!T!NoTurn, WQ!T!AttemptsOf,
   WQ!T!hasActiveTurnAttempt, WQ!T!Busy, WQ!T!GoTo, WQ!T!submitUserMessage, WQ!T!BeginProposal,
   WQ!T!SettleProposal, WQ!T!ArchiveChecks, WQ!T!ArchiveCommits, WQ!T!Prepare, WQ!T!Begin,
   WQ!T!ReserveReads, WQ!T!Reserve, WQ!T!FailUnsent, WQ!T!Dispatch, WQ!T!Broken,
   WQ!T!NotDispatched, WQ!T!ResponseStarts, WQ!T!startVisibleOutput, WQ!T!StreamEnds,
   WQ!T!StreamBreaks, WQ!T!Stop, WQ!T!Observe, WQ!T!TelemetryRetries, WQ!T!resolve, WQ!T!Outcome,
   WQ!T!Resolve, WQ!T!Finalised, WQ!T!CloseAttempt, WQ!T!reconcileOrphans, WQ!T!Restart,
   WQ!T!reconcileReservations, WQ!T!Handle, WQ!T!Next, WQ!T!held, WQ!T!consumed, WQ!T!LatestFor,
   WQ!T!Counted, WQ!T!MapThenSumSet, WQ!T!MapThenFoldSet, WQ!T!Max

(* A step of the composition is a step of the conversations when they are    *)
(* the part.                                                                 *)
LEMMA TurnStep ==
  ASSUME [Next]_vars
  PROVE  /\ part' = part
         /\ part = "turns" => [WP!T!Next]_(WP!T!turnVars)
         /\ part = "restarts" => [WQ!T!Next]_(WQ!T!turnVars)
<1>1. CASE UNCHANGED vars
  BY <1>1 DEF vars, turnVars, WP!T!turnVars, WQ!T!turnVars
<1>2. CASE Debating \/ Reviewing \/ KickingOff \/ Planning
  BY <1>2 DEF Debating, Reviewing, KickingOff, Planning
<1>3. CASE Proxying \/ Steered \/ Publishing
  BY <1>3 DEF Proxying, Steered, Publishing
<1>4. CASE Talking
  BY <1>4, TurnNext, RestartedNext DEF Talking
<1> QED
  BY <1>1, <1>2, <1>3, <1>4 DEF Next

(* However messages, turns, proposals, stops, archiving and a restart meet   *)
(* (turnService.ts, turnRepository.ts), one thing at most speaks in a        *)
(* conversation, and no message is left half open.                           *)
THEOREM OneSpeaks == Spec => []OneSpeaker
<1> DEFINE Inv == /\ part = "turns" => WP!TurnInv
                  /\ part = "restarts" => WQ!TurnInv
<1>1. Init => Inv
  <2>1. ASSUME Init, part = "turns"
        PROVE  WP!T!Init
    BY <2>1 DEF Init, T!Init, WP!T!Init, T!NoAttempt, WP!T!NoAttempt, T!NoTurn, WP!T!NoTurn, T!None,
       WP!T!None
  <2>2. ASSUME Init, part = "restarts"
        PROVE  WQ!T!Init
    BY <2>2 DEF Init, U!Init, WQ!T!Init, U!NoAttempt, WQ!T!NoAttempt, U!NoTurn, WQ!T!NoTurn, U!None,
       WQ!T!None
  <2> QED
    BY <2>1, <2>2, WP!TurnInit, WQ!TurnInit
<1>2. Inv /\ [Next]_vars => Inv'
  BY TurnStep, WP!TurnStepSound, WQ!TurnStepSound DEF WP!TurnSound, WQ!TurnSound
<1>3. /\ WP!T!OneSpeaker => T!OneSpeaker
      /\ WQ!T!OneSpeaker => U!OneSpeaker
  BY DEF T!OneSpeaker, WP!T!OneSpeaker, U!OneSpeaker, WQ!T!OneSpeaker, T!AttemptsOf, WP!T!AttemptsOf,
     U!AttemptsOf, WQ!T!AttemptsOf, T!OpenAttempt, WP!T!OpenAttempt, U!OpenAttempt, WQ!T!OpenAttempt,
     T!hasActiveTurnAttempt, WP!T!hasActiveTurnAttempt, U!hasActiveTurnAttempt,
     WQ!T!hasActiveTurnAttempt
<1>4. Inv => OneSpeaker
  BY <1>3, WP!InvSpeaks, WQ!InvSpeaks DEF OneSpeaker
<1> QED
  BY <1>1, <1>2, <1>4, PTL DEF Spec

(* Two conversations share a usage policy, or one is cut by a restart: what  *)
(* the provider charges for their turns stays within the policy's limit      *)
(* (usagePolicy.ts), also when nobody learns the outcome of a call.          *)
THEOREM SpendKept ==
  ASSUME Size \in Nat
  PROVE  Spec => []SpendWithinPolicy
<1> DEFINE Inv == /\ part = "turns" => WP!TurnInv /\ WP!SpendInv
                  /\ part = "restarts" => WQ!TurnInv /\ WQ!SpendInv
<1>1. WP!Priced /\ WQ!Priced
  <2>1. \A n \in Nat : WP!IsFiniteSet(1 .. n)
    BY WP!FS_Interval
  <2>2. WQ!IsFiniteSet(1 .. Size)
    BY WQ!FS_Interval
  <2>3. PICK n \in Nat : n = 2
    OBVIOUS
  <2>4. {1, 2} = 1 .. n
    BY <2>3
  <2>5. WP!IsFiniteSet({1, 2})
    BY <2>1, <2>4
  <2> QED
    BY <2>2, <2>5 DEF WP!Priced, WQ!Priced
<1>2. Init => Inv
  <2>1. ASSUME Init, part = "turns"
        PROVE  WP!T!Init
    BY <2>1 DEF Init, T!Init, WP!T!Init, T!NoAttempt, WP!T!NoAttempt, T!NoTurn, WP!T!NoTurn,
       T!None, WP!T!None
  <2>2. ASSUME Init, part = "restarts"
        PROVE  WQ!T!Init
    BY <2>2 DEF Init, U!Init, WQ!T!Init, U!NoAttempt, WQ!T!NoAttempt, U!NoTurn, WQ!T!NoTurn,
       U!None, WQ!T!None
  <2> QED
    BY <1>1, <2>1, <2>2, WP!TurnInit, WQ!TurnInit, WP!SpendInit, WQ!SpendInit
<1>3. Inv /\ [Next]_vars => Inv'
  BY <1>1, TurnStep, WP!TurnStepSound, WQ!TurnStepSound, WP!SpendStepSound, WQ!SpendStepSound
     DEF WP!TurnSound, WQ!TurnSound, WP!SpendSound, WQ!SpendSound
<1>4. /\ WP!T!SpendWithinPolicy => T!SpendWithinPolicy
      /\ WQ!T!SpendWithinPolicy => U!SpendWithinPolicy
  BY DEF T!SpendWithinPolicy, WP!T!SpendWithinPolicy, U!SpendWithinPolicy,
     WQ!T!SpendWithinPolicy, T!MapThenSumSet, WP!T!MapThenSumSet, U!MapThenSumSet,
     WQ!T!MapThenSumSet, T!MapThenFoldSet, WP!T!MapThenFoldSet, U!MapThenFoldSet,
     WQ!T!MapThenFoldSet
<1>5. Inv => SpendWithinPolicy
  BY <1>1, <1>4, WP!InvWithin, WQ!InvWithin DEF SpendWithinPolicy
<1> QED
  BY <1>2, <1>3, <1>5, PTL DEF Spec

-----------------------------------------------------------------------------
(* The calls that are paid for                                               *)

\* where each call stands, as MCWorkflows maps it
CallWork ==
  [i \in CallIds |->
     CASE part = "debates" /\ i \in D!JobIds    -> D!JobState(i)
       [] part = "turns" /\ i \in {1, 2}        -> T!AttemptState(i)
       [] part = "restarts" /\ i \in 1 .. Size  -> U!AttemptState(i)
       [] OTHER                                 -> "absent"]

(* A step of a debate, in the queue of all calls.                            *)
LEMMA DebateCalls ==
  ASSUME part = "debates", WP!DebateInv, [Next]_vars
  PROVE  [PaidCalls!Next]_CallWork
<1> SUFFICES ASSUME CallWork' # CallWork
             PROVE  PaidCalls!Next
  OBVIOUS
<1>1. part' = part /\ [WP!Jobs!Next]_[i \in WP!JobIds |-> WP!JobState(i)]
  BY DebateStep, WP!JobsStep
<1>2. /\ D!JobIds = WP!JobIds /\ WP!JobIds \subseteq CallIds
      /\ \A i : D!JobState(i) = WP!JobState(i) /\ D!JobState(i)' = WP!JobState(i)'
  BY DEF D!JobIds, WP!JobIds, D!JobState, WP!JobState, D!Attempts, WP!Attempts, CallIds
<1>3. \A i \in CallIds :
        /\ CallWork[i] = IF i \in WP!JobIds THEN WP!JobState(i) ELSE "absent"
        /\ CallWork'[i] = IF i \in WP!JobIds THEN WP!JobState(i)' ELSE "absent"
  BY <1>1, <1>2 DEF CallWork
<1> DEFINE jobs == [i \in WP!JobIds |-> WP!JobState(i)]
<1>4. \A i \in WP!JobIds : jobs[i] = WP!JobState(i) /\ jobs'[i] = WP!JobState(i)'
  OBVIOUS
<1>5. CallWork = [i \in CallIds |-> CallWork[i]] /\ CallWork' = [i \in CallIds |-> CallWork'[i]]
  BY DEF CallWork
<1> HIDE DEF jobs
<1>6. jobs' # jobs
  <2>1. SUFFICES ASSUME jobs' = jobs PROVE FALSE
    OBVIOUS
  <2>2. \A i \in CallIds : CallWork'[i] = CallWork[i]
    BY <1>3, <1>4, <2>1
  <2> QED
    BY <1>5, <2>2
<1>7. WP!Jobs!Next
  BY <1>1, <1>6 DEF jobs
<1>8. /\ jobs' \in [WP!JobIds -> PaidCalls!WorkStates]
      /\ \A i \in WP!JobIds : jobs'[i] # jobs[i] =>
           \/ jobs[i] = "absent" /\ jobs'[i] = "queued"
           \/ jobs[i] = "queued" /\ jobs'[i] \in {"held", "dropped"}
           \/ jobs[i] = "held" /\ jobs'[i] \in PaidCalls!Closed
      /\ \A i, j \in WP!JobIds :
           jobs'[i] # jobs[i] /\ jobs'[j] # jobs[j] /\ jobs'[i] = jobs'[j]
             /\ jobs'[i] \in {"applied", "held", "queued"} => i = j
  BY <1>7 DEF WP!Jobs!Next, WP!Jobs!Step, WP!Jobs!Moved, WP!Jobs!May, WP!Jobs!Closed,
     WP!Jobs!WorkStates, PaidCalls!WorkStates, PaidCalls!Closed, jobs
<1>9. \A i \in CallIds : CallWork'[i] \in PaidCalls!WorkStates
  BY <1>3, <1>4, <1>8 DEF PaidCalls!WorkStates
<1>10. \A i \in CallIds : CallWork'[i] # CallWork[i] =>
         i \in WP!JobIds /\ CallWork[i] = jobs[i] /\ CallWork'[i] = jobs'[i]
  BY <1>3, <1>4
<1> QED
  BY <1>5, <1>8, <1>9, <1>10 DEF PaidCalls!Next, PaidCalls!Step, PaidCalls!Moved, PaidCalls!May,
     CallWork

(* A step of a conversation's turns, in the queue of all calls: of two       *)
(* conversations,                                                            *)
LEMMA TurnCalls ==
  ASSUME part = "turns", part' = part, WP!StatesMove
  PROVE  [PaidCalls!Next]_CallWork
<1>1. \A t : /\ T!AttemptState(t) = WP!T!AttemptState(t)
              /\ T!AttemptState(t)' = WP!T!AttemptState(t)'
  BY DEF T!AttemptState, WP!T!AttemptState, T!OpenAttempt, WP!T!OpenAttempt
<1>2. \A i \in CallIds :
        /\ CallWork[i] = IF i \in {1, 2} THEN WP!T!AttemptState(i) ELSE "absent"
        /\ CallWork'[i] = IF i \in {1, 2} THEN WP!T!AttemptState(i)' ELSE "absent"
  BY <1>1 DEF CallWork
<1>3. {1, 2} \subseteq CallIds
  BY DEF CallIds
<1>4. CallWork' \in [CallIds -> PaidCalls!WorkStates]
  <2>1. \A i \in CallIds : CallWork'[i] \in PaidCalls!WorkStates
    BY <1>2 DEF PaidCalls!WorkStates, WP!StatesMove
  <2> QED
    BY <2>1 DEF CallWork
<1>5. \A i \in CallIds : CallWork'[i] # CallWork[i] =>
        \/ CallWork[i] = "absent" /\ CallWork'[i] = "queued"
        \/ CallWork[i] = "queued" /\ CallWork'[i] \in {"held", "dropped"}
        \/ CallWork[i] = "held" /\ CallWork'[i] \in {"applied", "dropped"}
  BY <1>2 DEF WP!StatesMove, WP!Going
<1>6. \A i, j \in CallIds :
        CallWork'[i] # CallWork[i] /\ CallWork'[j] # CallWork[j] /\ CallWork'[i] = CallWork'[j]
          /\ CallWork'[i] \in {"applied", "held", "queued"} => i = j
  BY <1>2 DEF WP!StatesMove
<1> QED
  BY <1>4, <1>5, <1>6 DEF PaidCalls!Next, PaidCalls!Step, PaidCalls!Moved, PaidCalls!May,
     PaidCalls!Closed, CallWork

(* and of one that a restart may cut.                                        *)
LEMMA RestartedCalls ==
  ASSUME part = "restarts", part' = part, WQ!StatesMove
  PROVE  [PaidCalls!Next]_CallWork
<1>1. \A t : /\ U!AttemptState(t) = WQ!T!AttemptState(t)
              /\ U!AttemptState(t)' = WQ!T!AttemptState(t)'
  BY DEF U!AttemptState, WQ!T!AttemptState, U!OpenAttempt, WQ!T!OpenAttempt
<1>2. \A i \in CallIds :
        /\ CallWork[i] = IF i \in 1 .. Size THEN WQ!T!AttemptState(i) ELSE "absent"
        /\ CallWork'[i] = IF i \in 1 .. Size THEN WQ!T!AttemptState(i)' ELSE "absent"
  BY <1>1 DEF CallWork
<1>3. 1 .. Size \subseteq CallIds
  BY DEF CallIds
<1>4. CallWork' \in [CallIds -> PaidCalls!WorkStates]
  <2>1. \A i \in CallIds : CallWork'[i] \in PaidCalls!WorkStates
    BY <1>2 DEF PaidCalls!WorkStates, WQ!StatesMove
  <2> QED
    BY <2>1 DEF CallWork
<1>5. \A i \in CallIds : CallWork'[i] # CallWork[i] =>
        \/ CallWork[i] = "absent" /\ CallWork'[i] = "queued"
        \/ CallWork[i] = "queued" /\ CallWork'[i] \in {"held", "dropped"}
        \/ CallWork[i] = "held" /\ CallWork'[i] \in {"applied", "dropped"}
  BY <1>2 DEF WQ!StatesMove, WQ!Going
<1>6. \A i, j \in CallIds :
        CallWork'[i] # CallWork[i] /\ CallWork'[j] # CallWork[j] /\ CallWork'[i] = CallWork'[j]
          /\ CallWork'[i] \in {"applied", "held", "queued"} => i = j
  BY <1>2 DEF WQ!StatesMove
<1> QED
  BY <1>4, <1>5, <1>6 DEF PaidCalls!Next, PaidCalls!Step, PaidCalls!Moved, PaidCalls!May,
     PaidCalls!Closed, CallWork

(* The calls that are paid for are leased work: a debate's attempts, held by *)
(* one worker at a time (worker.ts), and those of a PM turn                  *)
(* (turnRepository.ts), are queued once, leave once and are closed once,     *)
(* with a result or without, whatever late workers, stops and restarts do.   *)
THEOREM PaidCallsLeased == Spec => PaidCallsAreLeasedWork
<1> DEFINE Inv == /\ part = "turns" => WP!TurnInv /\ WP!SentInv
                  /\ part = "restarts" => WQ!TurnInv /\ WQ!SentInv
<1>1. ASSUME Init
      PROVE  Inv /\ PaidCalls!Init
  <2>1. ASSUME part = "turns"
        PROVE  WP!T!Init
    BY <1>1, <2>1 DEF Init, T!Init, WP!T!Init, T!NoAttempt, WP!T!NoAttempt, T!NoTurn, WP!T!NoTurn,
       T!None, WP!T!None
  <2>2. ASSUME part = "restarts"
        PROVE  WQ!T!Init
    BY <1>1, <2>2 DEF Init, U!Init, WQ!T!Init, U!NoAttempt, WQ!T!NoAttempt, U!NoTurn, WQ!T!NoTurn,
       U!None, WQ!T!None
  <2>3. ASSUME part = "debates"
        PROVE  \A i \in D!JobIds : D!JobState(i) = "absent"
    BY <1>1, <2>3 DEF Init, D!Init, D!NoRun, D!JobState, D!Attempts
  <2>4. part = "turns" => \A t \in {1, 2} : T!AttemptState(t) = "absent"
    BY <2>1, WP!NothingSent DEF T!AttemptState, WP!T!AttemptState, T!OpenAttempt, WP!T!OpenAttempt
  <2>5. part = "restarts" => \A t \in 1 .. Size : U!AttemptState(t) = "absent"
    BY <2>2, WQ!NothingSent DEF U!AttemptState, WQ!T!AttemptState, U!OpenAttempt, WQ!T!OpenAttempt
  <2>6. Inv
    BY <2>1, <2>2, WP!TurnInit, WQ!TurnInit, WP!NothingSent, WQ!NothingSent
  <2> QED
    BY <2>3, <2>4, <2>5, <2>6 DEF PaidCalls!Init
<1>2. ASSUME Inv, [Next]_vars
      PROVE  /\ Inv'
             /\ part = "turns" => part' = part /\ WP!StatesMove
             /\ part = "restarts" => part' = part /\ WQ!StatesMove
  BY <1>2, TurnStep, WP!TurnStepSound, WQ!TurnStepSound, WP!AttemptSteps, WQ!AttemptSteps
     DEF WP!TurnSound, WQ!TurnSound, WP!AttemptSound, WQ!AttemptSound
<1>3. ASSUME part \notin {"debates", "turns", "restarts"}, [Next]_vars
      PROVE  CallWork' = CallWork
  <2>1. part' = part
    BY <1>3, TurnStep
  <2>2. /\ CallWork = [i \in CallIds |-> "absent"]
        /\ CallWork' = [i \in CallIds |-> "absent"]
    BY <1>3, <2>1 DEF CallWork
  <2> QED
    BY <2>2
<1>4. (part = "debates" => WP!DebateInv) /\ Inv /\ [Next]_vars => [PaidCalls!Next]_CallWork
  BY <1>2, <1>3, DebateCalls, TurnCalls, RestartedCalls
<1>5. Inv /\ [Next]_vars => Inv'
  BY <1>2
<1>6. Init => Inv /\ PaidCalls!Init
  BY <1>1
<1> QED
  BY <1>4, <1>5, <1>6, DebateHolds, PTL DEF Spec, PaidCallsAreLeasedWork, PaidCalls!Spec, CallWork

-----------------------------------------------------------------------------
(* The holds of a run's model calls                                          *)

\* what a call holds of a budget
HeldBy(c, b) == IF c.path = b /\ c.pc \in G!Holding THEN c.charge ELSE 0
HoldsOf(b) == [c \in Workers |-> HeldBy(calls[c], b)]

(* A budget's figure is the sum of what the calls hold of it.                *)
HoldsAddUp == \A b \in G!Paths : held[b] = WP!Sum(HoldsOf(b), Workers) /\ held[b] <= Amount

(* A step of one call that moves each figure by what the call holds.         *)
LEMMA HoldMoves ==
  ASSUME IsFiniteSet(Workers), GatewayInv, HoldsAddUp, NEW c \in Workers, NEW x \in CallRows,
         calls' = [calls EXCEPT ![c] = x],
         \A b \in G!Paths : /\ held'[b] = held[b] - HeldBy(calls[c], b) + HeldBy(x, b)
                            /\ held'[b] <= Amount
  PROVE  HoldsAddUp'
<1> SUFFICES ASSUME NEW b \in G!Paths
             PROVE  held'[b] = WP!Sum(HoldsOf(b)', Workers)
  BY DEF HoldsAddUp
<1>1. calls \in [Workers -> CallRows] /\ calls' \in [Workers -> CallRows]
        /\ calls'[c] = x /\ \A d \in Workers \ {c} : calls'[d] = calls[d]
  BY DEF GatewayInv, GatewayTypes
<1>2. PICK f, h : f = HoldsOf(b) /\ h = HoldsOf(b)'
  OBVIOUS
<1>3. \A d \in Workers : /\ f[d] = HeldBy(calls[d], b) /\ f[d] \in Nat
                         /\ h[d] = HeldBy(calls'[d], b) /\ h[d] \in Nat
                         /\ d # c => h[d] = f[d]
  BY <1>1, <1>2 DEF HoldsOf, HeldBy, CallRows
<1>4. WP!IsFiniteSet(Workers)
  BY DEF IsFiniteSet, WP!IsFiniteSet
<1>5. WP!Sum(h, Workers) + f[c] = WP!Sum(f, Workers) + h[c]
        /\ WP!Sum(h, Workers) \in Nat /\ WP!Sum(f, Workers) \in Nat
  BY <1>3, <1>4, WP!SumChanges, WP!SumIsNat
<1>6. held[b] = WP!Sum(f, Workers)
  BY <1>2 DEF HoldsAddUp
<1>7. held'[b] = held[b] - f[c] + h[c]
  BY <1>1, <1>3
<1>8. f[c] \in Nat /\ h[c] \in Nat
  BY <1>3
<1> QED
  BY <1>2, <1>5, <1>6, <1>7, <1>8

\* a step of call c that leaves its path and its charge alone
CallMoves(c, x) ==
  /\ x \in CallRows /\ calls' = [calls EXCEPT ![c] = x]
  /\ x.path = calls[c].path /\ x.charge = calls[c].charge

(* The provider's answer changes one row, and no hold.                       *)
LEMMA AnswerMoves ==
  ASSUME NEW c \in Workers, calls \in [Workers -> CallRows], G!Answered(c)
  PROVE  \E cost \in 0 .. calls[c].charge + MaxExcess, observed \in BOOLEAN :
           /\ calls' = [calls EXCEPT ![c] = [calls[c] EXCEPT !.pc = "answered", !.cost = cost,
                                                             !.observed = observed]]
           /\ spent' = spent + cost /\ UNCHANGED <<held, settled, lapsed>>
           /\ calls[c].pc = "held"
<1>1. PICK cost \in 0 .. calls[c].charge + MaxExcess, observed \in BOOLEAN :
           /\ calls' = [calls EXCEPT ![c] = [calls[c] EXCEPT !.pc = "answered", !.cost = cost,
                                                             !.observed = observed]]
           /\ spent' = spent + cost /\ UNCHANGED <<held, settled, lapsed>>
           /\ calls[c].pc = "held"
  BY DEF G!Answered
<1> QED
  BY <1>1

(* Each request of the gateway does.                                         *)
LEMMA HoldSteps ==
  ASSUME IsFiniteSet(Workers), Amount \in Nat, MaxExcess \in Nat, GatewayInv, HoldsAddUp,
         NEW c \in Workers,
         \/ G!ReadSettled(c) \/ G!Hold(c) \/ G!Unreachable(c) \/ G!Answered(c) \/ G!Settle(c)
         \/ G!Meter(c)
  PROVE  HoldsAddUp'
<1>1. /\ calls \in [Workers -> CallRows] /\ calls[c] \in CallRows
      /\ held \in [G!Paths -> Int] /\ settled \in Nat
      /\ calls[c].pc \in G!Open => calls[c].path \in G!Paths
  BY DEF GatewayInv, GatewayTypes
<1>2. /\ calls[c].path \in G!Paths \cup {"none"} /\ calls[c].charge \in Nat
      /\ calls[c].seen \in Nat
  BY <1>1 DEF CallRows
<1>3. \A b \in G!Paths : held[b] \in Int /\ held[b] <= Amount
  BY <1>1 DEF HoldsAddUp
<1>4. ASSUME NEW x, CallMoves(c, x), held' = held,
             x.pc \in G!Holding <=> calls[c].pc \in G!Holding
      PROVE  HoldsAddUp'
  <2>1. \A b \in G!Paths : HeldBy(x, b) = HeldBy(calls[c], b) /\ HeldBy(x, b) \in Nat
    BY <1>2, <1>4 DEF CallMoves, HeldBy
  <2>2. \A b \in G!Paths : /\ held'[b] = held[b] - HeldBy(calls[c], b) + HeldBy(x, b)
                           /\ held'[b] <= Amount
    BY <1>3, <1>4, <2>1
  <2> QED
    BY <1>4, <2>2, HoldMoves DEF CallMoves
<1>5. ASSUME NEW x, CallMoves(c, x), G!Drop(c), calls[c].pc \in G!Holding, x.pc \notin G!Holding
      PROVE  HoldsAddUp'
  <2>1. calls[c].path \in G!Paths
    BY <1>1, <1>5 DEF G!Holding, G!Open
  <2>2. \A b \in G!Paths : held'[b] = IF b = calls[c].path THEN held[b] - calls[c].charge
                                      ELSE held[b]
    BY <1>1, <1>5, <2>1 DEF G!Drop
  <2>3. \A b \in G!Paths : /\ HeldBy(x, b) = 0
                           /\ HeldBy(calls[c], b) = IF b = calls[c].path THEN calls[c].charge
                                                    ELSE 0
    BY <1>5 DEF CallMoves, HeldBy
  <2>4. \A b \in G!Paths : /\ held'[b] = held[b] - HeldBy(calls[c], b) + HeldBy(x, b)
                           /\ held'[b] <= Amount
    BY <1>2, <1>3, <2>2, <2>3
  <2> QED
    BY <1>5, <2>4, HoldMoves DEF CallMoves
<1>6. CASE G!ReadSettled(c)
  <2>1. PICK x : x = [calls[c] EXCEPT !.pc = IF minted.reserved THEN "read" ELSE "refused",
                                      !.seen = settled]
    OBVIOUS
  <2>2. CallMoves(c, x) /\ held' = held /\ x.pc \notin G!Holding /\ calls[c].pc \notin G!Holding
    BY <1>1, <1>6, <2>1 DEF CallMoves, G!ReadSettled, CallRows, G!Open, G!Holding
  <2> QED
    BY <1>4, <2>2
<1>7. CASE G!Hold(c)
  <2>1. CASE calls[c].charge > Amount - calls[c].seen - held[calls[c].path]
    <3>1. PICK x : x = [calls[c] EXCEPT !.pc = "refused"]
      OBVIOUS
    <3>2. CallMoves(c, x) /\ held' = held /\ x.pc \notin G!Holding /\ calls[c].pc \notin G!Holding
      BY <1>1, <1>7, <2>1, <3>1 DEF CallMoves, G!Hold, G!Ends, CallRows, G!Open, G!Holding
    <3> QED
      BY <1>4, <3>2
  <2>2. CASE ~ (calls[c].charge > Amount - calls[c].seen - held[calls[c].path])
    <3>1. PICK x : x = [calls[c] EXCEPT !.pc = "held"]
      OBVIOUS
    <3>2. /\ CallMoves(c, x) /\ x.pc = "held" /\ calls[c].pc = "read" /\ calls[c].path \in G!Paths
          /\ held' = [held EXCEPT ![calls[c].path] = held[calls[c].path] + calls[c].charge]
      BY <1>1, <1>7, <2>2, <3>1 DEF CallMoves, G!Hold, G!Ends, CallRows, G!Open
    <3>3. \A b \in G!Paths : held'[b] = IF b = calls[c].path THEN held[b] + calls[c].charge
                                        ELSE held[b]
      BY <1>1, <3>2
    <3>4. \A b \in G!Paths : /\ HeldBy(calls[c], b) = 0
                             /\ HeldBy(x, b) = IF b = calls[c].path THEN calls[c].charge ELSE 0
      BY <3>2 DEF CallMoves, HeldBy, G!Holding
    <3>5. held[calls[c].path] + calls[c].charge <= Amount
      BY <1>2, <1>3, <2>2, <3>2
    <3>6. \A b \in G!Paths : /\ held'[b] = held[b] - HeldBy(calls[c], b) + HeldBy(x, b)
                             /\ held'[b] <= Amount
      BY <1>2, <1>3, <3>3, <3>4, <3>5
    <3> QED
      BY <3>2, <3>6, HoldMoves DEF CallMoves
  <2> QED
    BY <2>1, <2>2
<1>8. CASE G!Unreachable(c)
  <2>1. PICK x : x = [calls[c] EXCEPT !.pc = "done"]
    OBVIOUS
  <2>2. CallMoves(c, x) /\ G!Drop(c) /\ x.pc \notin G!Holding /\ calls[c].pc \in G!Holding
    BY <1>1, <1>8, <2>1 DEF CallMoves, G!Unreachable, G!Ends, CallRows, G!Open, G!Holding
  <2> QED
    BY <1>5, <2>2
<1>9. CASE G!Answered(c)
  <2>1. PICK cost \in 0 .. calls[c].charge + MaxExcess, observed \in BOOLEAN :
             /\ calls' = [calls EXCEPT ![c] = [calls[c] EXCEPT !.pc = "answered", !.cost = cost,
                                                               !.observed = observed]]
             /\ spent' = spent + cost /\ UNCHANGED <<held, settled, lapsed>>
             /\ calls[c].pc = "held"
    BY <1>1, <1>9, AnswerMoves
  <2>2. PICK x : x = [calls[c] EXCEPT !.pc = "answered", !.cost = cost, !.observed = observed]
    OBVIOUS
  <2>3. cost \in Nat
    BY <1>1, <1>2, <2>1
  <2>4. /\ x \in CallRows /\ x.pc = "answered" /\ x.path = calls[c].path
        /\ x.charge = calls[c].charge /\ x.cost = cost /\ calls' = [calls EXCEPT ![c] = x]
    BY <1>1, <1>2, <2>1, <2>2, <2>3 DEF CallRows, G!Open
  <2>5. CallMoves(c, x) /\ held' = held /\ x.pc \in G!Holding /\ calls[c].pc \in G!Holding
    BY <2>1, <2>4 DEF CallMoves, G!Holding
  <2> QED
    BY <1>4, <2>5
<1>10. CASE G!Settle(c)
  <2>1. PICK x : x = [calls[c] EXCEPT !.pc = IF calls[c].observed THEN "metering" ELSE "done"]
    OBVIOUS
  <2>2. CallMoves(c, x) /\ G!Drop(c) /\ x.pc \notin G!Holding /\ calls[c].pc \in G!Holding
    BY <1>1, <1>10, <2>1 DEF CallMoves, G!Settle, G!Ends, CallRows, G!Open, G!Holding
  <2> QED
    BY <1>5, <2>2
<1>11. CASE G!Meter(c)
  <2>1. PICK x : x = [calls[c] EXCEPT !.pc = "done"]
    OBVIOUS
  <2>2. CallMoves(c, x) /\ held' = held /\ x.pc \notin G!Holding /\ calls[c].pc \notin G!Holding
    BY <1>1, <1>11, <2>1 DEF CallMoves, G!Meter, G!Ends, CallRows, G!Open, G!Holding
  <2> QED
    BY <1>4, <2>2
<1> QED
  BY <1>6, <1>7, <1>8, <1>9, <1>10, <1>11

(* What the property adds up is what the invariant does.                     *)
LEMMA HoldsSum ==
  ASSUME NEW b, NEW s, s = {c \in Workers : calls[c].path = b /\ calls[c].pc \in G!Holding},
         NEW f, \A c \in Workers : f[c] = calls[c].charge
  PROVE  G!MapThenSumSet(LAMBDA c : calls[c].charge, s) = WP!Sum(f, s)
<1>1. ASSUME NEW g
      PROVE  WP!AddsUp(f, s, g) <=>
               g = [u \in SUBSET s |-> IF u = {} THEN 0
                      ELSE calls[WP!First(u)].charge + g[u \ {WP!First(u)}]]
  <2>1. \A u \in SUBSET s : u # {} => WP!First(u) \in Workers
    BY DEF WP!First
  <2>2. \A u \in SUBSET s :
          (IF u = {} THEN 0 ELSE calls[WP!First(u)].charge + g[u \ {WP!First(u)}]) =
          (IF u = {} THEN 0 ELSE f[WP!First(u)] + g[u \ {WP!First(u)}])
    BY <2>1
  <2>3. [u \in SUBSET s |-> IF u = {} THEN 0
                            ELSE calls[WP!First(u)].charge + g[u \ {WP!First(u)}]] =
        [u \in SUBSET s |-> IF u = {} THEN 0 ELSE f[WP!First(u)] + g[u \ {WP!First(u)}]]
    BY <2>2
  <2> QED
    BY <2>3 DEF WP!AddsUp
<1>2. (CHOOSE g : WP!AddsUp(f, s, g)) =
        CHOOSE g : g = [u \in SUBSET s |-> IF u = {} THEN 0
                          ELSE calls[WP!First(u)].charge + g[u \ {WP!First(u)}]]
  BY <1>1
<1> QED
  BY <1>2, WP!SumFolds DEF G!MapThenSumSet, G!MapThenFoldSet, WP!First

(* The in-memory figure of each budget (SqlRunReservationBudget) is what the *)
(* calls that are still to be settled hold of it, and no budget commits more *)
(* than the reservation: no way a request ends leaks its hold or drops it    *)
(* twice, however requests of both paths and restarts interleave.            *)
THEOREM HoldsOutstanding ==
  ASSUME IsFiniteSet(Workers), Amount \in Nat, Charges \subseteq Nat, MaxExcess \in Nat
  PROVE  Spec => []HoldsAreOutstanding
<1> DEFINE Inv == part = "gateway" => GatewayInv /\ HoldsAddUp
<1>1. WP!IsFiniteSet(Workers)
  BY DEF IsFiniteSet, WP!IsFiniteSet
<1>2. ASSUME NEW b \in G!Paths, \A c \in Workers : calls[c].pc \notin G!Holding
      PROVE  WP!Sum(HoldsOf(b), Workers) = 0
  <2>1. \A c \in Workers : HoldsOf(b)[c] = 0
    BY <1>2 DEF HoldsOf, HeldBy
  <2> QED
    BY <1>1, <2>1, WP!SumOfZeros
<1>3. Init => Inv
  <2>1. ASSUME Init, part = "gateway"
        PROVE  HoldsAddUp
    <3>1. calls = [c \in Workers |-> G!NoCall] /\ held = [b \in G!Paths |-> 0]
      BY <2>1 DEF Init, G!Init
    <3>2. \A c \in Workers : calls[c].pc \notin G!Holding
      BY <3>1 DEF G!NoCall, G!Holding
    <3> QED
      BY <1>2, <3>1, <3>2 DEF HoldsAddUp
  <2> QED
    BY <2>1, GatewayInit
<1>4. ASSUME GatewayInv, HoldsAddUp, G!Next
      PROVE  HoldsAddUp'
  <2>1. CASE UNCHANGED <<calls, held>>
    BY <1>4, <2>1 DEF HoldsAddUp, HoldsOf
  <2>2. CASE G!Mint \/ G!CredentialExpires \/ G!RunEnds
    BY <2>1, <2>2 DEF G!Mint, G!CredentialExpires, G!RunEnds
  <2>3. CASE G!Restart
    <3>1. /\ \A c \in Workers : calls'[c].pc \notin G!Holding
          /\ held' = [b \in G!Paths |-> 0]
      BY <1>4, <2>3 DEF G!Restart, G!Open, G!Holding, GatewayInv, GatewayTypes, CallRows
    <3>2. ASSUME NEW b \in G!Paths
          PROVE  WP!Sum(HoldsOf(b)', Workers) = 0
      <4>1. PICK f : f = HoldsOf(b)'
        OBVIOUS
      <4>2. \A c \in Workers : f[c] = 0
        BY <3>1, <4>1 DEF HoldsOf, HeldBy
      <4>3. WP!Sum(f, Workers) = 0
        BY <1>1, <4>2, WP!SumOfZeros
      <4> QED
        BY <4>1, <4>3
    <3> QED
      BY <3>1, <3>2 DEF HoldsAddUp
  <2>4. ASSUME NEW c \in Workers, NEW path \in G!Paths, NEW charge \in Charges,
               G!Authorize(c, path, charge)
        PROVE  HoldsAddUp'
    <3>1. PICK p \in {"authorized", "refused"} :
               calls' = [calls EXCEPT ![c] =
                           [G!NoCall EXCEPT !.path = path, !.charge = charge, !.pc = p]]
      BY <2>4 DEF G!Authorize
    <3>2. PICK x : x = [G!NoCall EXCEPT !.path = path, !.charge = charge, !.pc = p]
      OBVIOUS
    <3>3. /\ x \in CallRows /\ calls' = [calls EXCEPT ![c] = x] /\ held' = held
          /\ x.pc \notin G!Holding /\ calls[c].pc \notin G!Holding
      BY <2>4, <3>1, <3>2 DEF CallRows, G!NoCall, G!Open, G!Holding, G!Authorize
    <3>4. \A b \in G!Paths : held[b] \in Int /\ held[b] <= Amount
      BY <1>4 DEF GatewayInv, GatewayTypes, HoldsAddUp
    <3>5. \A b \in G!Paths : /\ held'[b] = held[b] - HeldBy(calls[c], b) + HeldBy(x, b)
                             /\ held'[b] <= Amount
      BY <3>3, <3>4 DEF HeldBy
    <3> QED
      BY <1>4, <3>3, <3>5, HoldMoves
  <2>5. ASSUME NEW c \in Workers,
               G!ReadSettled(c) \/ G!Hold(c) \/ G!Unreachable(c) \/ G!Answered(c)
                 \/ G!Settle(c) \/ G!Meter(c)
        PROVE  HoldsAddUp'
    BY <1>4, <2>5, HoldSteps
  <2> QED
    BY <1>4, <2>2, <2>3, <2>4, <2>5 DEF G!Next
<1>5. Inv /\ [Next]_vars => Inv'
  <2>1. ASSUME HoldsAddUp, UNCHANGED gatewayVars
        PROVE  HoldsAddUp'
    BY <2>1 DEF gatewayVars, HoldsAddUp, HoldsOf
  <2> QED
    BY <1>4, <2>1, GatewayStep, GatewayKept
<1>6. GatewayInv /\ HoldsAddUp => G!HoldsAreOutstanding
  <2> SUFFICES ASSUME GatewayInv, HoldsAddUp, NEW b \in G!Paths
               PROVE  held[b] = G!MapThenSumSet(LAMBDA c : calls[c].charge,
                        {c \in Workers : calls[c].path = b /\ calls[c].pc \in G!Holding})
    BY DEF G!HoldsAreOutstanding, HoldsAddUp
  <2>1. PICK s : s = {c \in Workers : calls[c].path = b /\ calls[c].pc \in G!Holding}
    OBVIOUS
  <2>2. PICK f : f = [c \in Workers |-> calls[c].charge]
    OBVIOUS
  <2>3. PICK g : g = HoldsOf(b)
    OBVIOUS
  <2>4. s \in SUBSET Workers /\ \A c \in Workers : f[c] \in Nat /\ g[c] = IF c \in s THEN f[c] ELSE 0
    BY <2>1, <2>2, <2>3 DEF HoldsOf, HeldBy, GatewayInv, GatewayTypes, CallRows
  <2>5. WP!Sum(g, Workers) = WP!Sum(f, s)
    BY <1>1, <2>4, WP!SumInside
  <2>6. G!MapThenSumSet(LAMBDA c : calls[c].charge, s) = WP!Sum(f, s)
    BY <2>1, <2>2, HoldsSum
  <2> QED
    BY <2>1, <2>3, <2>5, <2>6 DEF HoldsAddUp
<1>7. Inv => HoldsAreOutstanding
  BY <1>6 DEF HoldsAreOutstanding
<1> QED
  BY <1>3, <1>5, <1>7, PTL DEF Spec

-----------------------------------------------------------------------------
(* Kickoffs                                                                *)

KP == INSTANCE KickoffProofs WITH
        Plans <- {"p"}, Users <- {"u", "v"}, Decider <- "u", Staffed <- {"p"},
        Callers <- Workers, Tasks <- 2, MaxRetries <- 1, MaxFaults <- 1, item <- shown
LP == INSTANCE KickoffProofs WITH
        Plans <- {"p", "q"}, Users <- {"u"}, Decider <- "u", Staffed <- {},
        Callers <- Workers, Tasks <- 1, MaxRetries <- 0, MaxFaults <- 1, item <- shown

(* The steps of the composition's kickoffs are those the proofs are about.   *)
LEMMA KickoffNext == K!Next <=> KP!Next
BY DEF
   K!Next, K!None, K!Unbound, K!PhaseIds, K!NoPhase, K!Idle, K!Active, K!Latest,
   K!Materialised, K!Goto, K!Report, K!Refuse, K!startDevelopment, K!Begin,
   K!dispatchKickoffIntent, K!reconcileKickoffIntents, K!RetryExecution, K!Crash,
   K!settleKickoffIntent, K!reconcileConversationExecutionRetry, K!Answer,
   K!CheckActive, K!FindPhase, K!ReadProjectVersion, K!CreatePhase, K!BindPhase,
   K!EnsureStrategy, K!superseded, K!saveAwaitingApproval, K!DraftStrategy, K!Review,
   K!EditStaffingReads, K!EditStaffing, K!ApproveReads, K!ApproveStrategy,
   K!BindPackages, K!StartPhase, K!PhaseCloses, K!DrainPhase, K!Saga,
   KP!Next, KP!None, KP!Unbound, KP!PhaseIds, KP!NoPhase, KP!Idle, KP!Active,
   KP!Latest, KP!Materialised, KP!Goto, KP!Report, KP!Refuse, KP!startDevelopment,
   KP!Begin, KP!dispatchKickoffIntent, KP!reconcileKickoffIntents, KP!RetryExecution,
   KP!Crash, KP!settleKickoffIntent, KP!reconcileConversationExecutionRetry,
   KP!Answer, KP!CheckActive, KP!FindPhase, KP!ReadProjectVersion, KP!CreatePhase,
   KP!BindPhase, KP!EnsureStrategy, KP!superseded, KP!saveAwaitingApproval,
   KP!DraftStrategy, KP!Review, KP!EditStaffingReads, KP!EditStaffing,
   KP!ApproveReads, KP!ApproveStrategy, KP!BindPackages, KP!StartPhase,
   KP!PhaseCloses, KP!DrainPhase, KP!Saga

(* The same of the instance with two plans of one project.                   *)
LEMMA KickoffsNext == L!Next <=> LP!Next
BY DEF
   L!Next, L!None, L!Unbound, L!PhaseIds, L!NoPhase, L!Idle, L!Active, L!Latest,
   L!Materialised, L!Goto, L!Report, L!Refuse, L!startDevelopment, L!Begin,
   L!dispatchKickoffIntent, L!reconcileKickoffIntents, L!RetryExecution, L!Crash,
   L!settleKickoffIntent, L!reconcileConversationExecutionRetry, L!Answer,
   L!CheckActive, L!FindPhase, L!ReadProjectVersion, L!CreatePhase, L!BindPhase,
   L!EnsureStrategy, L!superseded, L!saveAwaitingApproval, L!DraftStrategy, L!Review,
   L!EditStaffingReads, L!EditStaffing, L!ApproveReads, L!ApproveStrategy,
   L!BindPackages, L!StartPhase, L!PhaseCloses, L!DrainPhase, L!Saga,
   LP!Next, LP!None, LP!Unbound, LP!PhaseIds, LP!NoPhase, LP!Idle, LP!Active,
   LP!Latest, LP!Materialised, LP!Goto, LP!Report, LP!Refuse, LP!startDevelopment,
   LP!Begin, LP!dispatchKickoffIntent, LP!reconcileKickoffIntents, LP!RetryExecution,
   LP!Crash, LP!settleKickoffIntent, LP!reconcileConversationExecutionRetry,
   LP!Answer, LP!CheckActive, LP!FindPhase, LP!ReadProjectVersion, LP!CreatePhase,
   LP!BindPhase, LP!EnsureStrategy, LP!superseded, LP!saveAwaitingApproval,
   LP!DraftStrategy, LP!Review, LP!EditStaffingReads, LP!EditStaffing,
   LP!ApproveReads, LP!ApproveStrategy, LP!BindPackages, LP!StartPhase,
   LP!PhaseCloses, LP!DrainPhase, LP!Saga

(* A step of the composition is a step of the kickoffs when they are the     *)
(* part.                                                                     *)
LEMMA KickoffStep ==
  ASSUME [Next]_vars
  PROVE  /\ part' = part
         /\ part = "kickoff" => [KP!Next]_(KP!kickoffVars)
         /\ part = "kickoffs" => [LP!Next]_(LP!kickoffVars)
         /\ part \notin {"kickoff", "kickoffs"} => UNCHANGED kickoffVars
<1>1. CASE UNCHANGED vars
  BY <1>1 DEF vars, kickoffVars, KP!kickoffVars, LP!kickoffVars
<1>2. CASE Debating \/ Reviewing \/ Planning \/ Publishing
  BY <1>2 DEF Debating, Reviewing, Planning, Publishing
<1>3. CASE Proxying \/ Talking \/ Steered
  BY <1>3 DEF Proxying, Talking, Steered
<1>4. CASE KickingOff
  BY <1>4, KickoffNext, KickoffsNext DEF KickingOff
<1> QED
  BY <1>1, <1>2, <1>3, <1>4 DEF Next

\* the inductive invariant of whichever kickoffs are the part
KickoffInv == (part = "kickoff" => KP!KickInv) /\ (part = "kickoffs" => LP!KickInv)

(* The kickoffs' inductive invariant holds in the composition.               *)
LEMMA KickoffHolds == Spec => []KickoffInv
<1>1. 1 \in Nat /\ 2 \in Nat /\ "u" \in {"u"} /\ "u" \in {"u", "v"}
  OBVIOUS
<1>2. Init => KickoffInv
  <2>1. ASSUME Init, part = "kickoff"
        PROVE  KP!Init
    BY <2>1 DEF Init, K!Init, KP!Init, K!None, KP!None, K!Unbound, KP!Unbound, K!PhaseIds,
       KP!PhaseIds, K!NoPhase, KP!NoPhase, K!Idle, KP!Idle
  <2>2. ASSUME Init, part = "kickoffs"
        PROVE  LP!Init
    BY <2>2 DEF Init, L!Init, LP!Init, L!None, LP!None, L!Unbound, LP!Unbound, L!PhaseIds,
       LP!PhaseIds, L!NoPhase, LP!NoPhase, L!Idle, LP!Idle
  <2> QED
    BY <2>1, <2>2, KP!InitInv, LP!InitInv DEF KickoffInv
<1>3. KickoffInv /\ [Next]_vars => KickoffInv'
  BY <1>1, KickoffStep, KP!StepInv, LP!StepInv DEF KickoffInv
<1> QED
  BY <1>2, <1>3, PTL DEF Spec

(* However often and by whomever a plan is kicked off, its tasks are created *)
(* in one phase, the one bound to it, under one approved strategy            *)
(* (executionKickoff.ts).                                                    *)
THEOREM MaterialisedOnce == Spec => []PlanMaterialisedOnce
<1>1. KP!PlanMaterialisedOnce => K!PlanMaterialisedOnce
  BY DEF K!PlanMaterialisedOnce, KP!PlanMaterialisedOnce, K!PhaseIds, KP!PhaseIds,
     K!Materialised, KP!Materialised
<1>2. LP!PlanMaterialisedOnce => L!PlanMaterialisedOnce
  BY DEF L!PlanMaterialisedOnce, LP!PlanMaterialisedOnce, L!PhaseIds, LP!PhaseIds,
     L!Materialised, LP!Materialised
<1>3. KickoffInv => PlanMaterialisedOnce
  BY <1>1, <1>2, KP!Once, LP!Once DEF KickoffInv, PlanMaterialisedOnce
<1> QED
  BY <1>3, KickoffHolds, PTL

(* A person's staffing override is in force for every task that is           *)
(* dispatched, also when a retry or a second caller continues a kickoff      *)
(* (executionKickoff.ts).                                                    *)
THEOREM OverrideApplied == Spec => []StaffingApplied
<1>1. KickoffInv => StaffingApplied
  BY KP!Once DEF KickoffInv, StaffingApplied, K!StaffingApplied, KP!StaffingApplied,
     K!PhaseIds, KP!PhaseIds
<1> QED
  BY <1>1, KickoffHolds, PTL

(* However kickoffs overlap, are cut off and tried again (executionKickoff.ts *)
(* getActivePhase), the phases of a project that execute and the callers that *)
(* are past the check and may start one are no more than the callers.         *)
THEOREM PhasesBounded ==
  ASSUME IsFiniteSet(Workers)
  PROVE  Spec => []ExecutingPhasesBounded
<1> DEFINE Inv == /\ KickoffInv
                  /\ part = "kickoff" => KP!PhasesInv
                  /\ part = "kickoffs" => LP!PhasesInv
<1>1. KP!IsFiniteSet(Workers) /\ LP!IsFiniteSet(Workers)
  BY DEF IsFiniteSet, KP!IsFiniteSet, LP!IsFiniteSet
<1>2. Init /\ KickoffInv => Inv
  <2>1. ASSUME Init, part = "kickoff" PROVE KP!PhasesInv
    BY <2>1 DEF Init, K!Init, KP!PhasesInv, KP!Executing, KP!Active, K!PhaseIds, KP!PhaseIds,
       K!NoPhase
  <2>2. ASSUME Init, part = "kickoffs" PROVE LP!PhasesInv
    BY <2>2 DEF Init, L!Init, LP!PhasesInv, LP!Executing, LP!Active, L!PhaseIds, LP!PhaseIds,
       L!NoPhase
  <2> QED
    BY <2>1, <2>2
<1>3. Inv /\ [Next]_vars /\ KickoffInv' => Inv'
  <2> SUFFICES ASSUME Inv, [Next]_vars, KickoffInv' PROVE Inv'
    OBVIOUS
  <2>1. ASSUME part' = "kickoff" PROVE KP!PhasesInv'
    BY <1>1, <2>1, KickoffStep, KP!PhasesStay DEF KickoffInv
  <2>2. ASSUME part' = "kickoffs" PROVE LP!PhasesInv'
    BY <1>1, <2>2, KickoffStep, LP!PhasesStay DEF KickoffInv
  <2> QED
    BY <2>1, <2>2
<1>4. Inv => ExecutingPhasesBounded
  <2>1. KP!ExecutingPhasesBounded => K!ExecutingPhasesBounded
    BY DEF K!ExecutingPhasesBounded, KP!ExecutingPhasesBounded, K!PhaseIds, KP!PhaseIds,
       K!Active, KP!Active, K!Cardinality, KP!Cardinality
  <2>2. LP!ExecutingPhasesBounded => L!ExecutingPhasesBounded
    BY DEF L!ExecutingPhasesBounded, LP!ExecutingPhasesBounded, L!PhaseIds, LP!PhaseIds,
       L!Active, LP!Active, L!Cardinality, LP!Cardinality
  <2> QED
    BY <1>1, <2>1, <2>2, KP!PhasesWithin, LP!PhasesWithin DEF KickoffInv, ExecutingPhasesBounded
<1> QED
  BY <1>2, <1>3, <1>4, KickoffHolds, PTL DEF Spec

(* A kickoff intent is released once, dispatched under one lease at a time   *)
(* and settled once (executionKickoff.ts): the intents implement LeasedWork. *)
THEOREM IntentsLeased == Spec => IntentsAreLeasedWork
<1> DEFINE work == [r \in {"p"} |-> IF part \in {"kickoff", "kickoffs"}
                                    THEN K!IntentState(r) ELSE "absent"]
           Moves == \/ intent["p"].status = "held" /\ intent["p"].status' = "pending"
                    \/ intent["p"].status = "pending" /\ intent["p"].status' = "leased"
                    \/ intent["p"].status = "leased"
                       /\ intent["p"].status' \in {"pending", "succeeded", "refused", "failed"}
<1>1. Init => Intents!Init
  <2>1. ASSUME Init, part = "kickoff"
        PROVE  intent["p"].status = "held"
    BY <2>1 DEF Init, K!Init
  <2>2. ASSUME Init, part = "kickoffs"
        PROVE  intent["p"].status = "held"
    BY <2>2 DEF Init, L!Init
  <2> QED
    BY <2>1, <2>2 DEF Intents!Init, K!IntentState
<1>2. KickoffInv /\ [Next]_vars => [Intents!Next]_work
  <2> SUFFICES ASSUME KickoffInv, [Next]_vars, work' # work
               PROVE  Intents!Next
    OBVIOUS
  <2>1. part' = part /\ part \in {"kickoff", "kickoffs"} /\ intent'["p"] # intent["p"]
    BY KickoffStep DEF K!IntentState, kickoffVars
  <2>2. ASSUME part = "kickoff"
        PROVE  Moves
    <3>1. KP!KickInv /\ [KP!Next]_(KP!kickoffVars) /\ "p" \in {"p"}
      BY <2>2, KickoffStep DEF KickoffInv
    <3> QED
      BY <2>1, <3>1, KP!IntentMoves
  <2>3. ASSUME part = "kickoffs"
        PROVE  Moves
    <3>1. LP!KickInv /\ [LP!Next]_(LP!kickoffVars) /\ "p" \in {"p", "q"}
      BY <2>3, KickoffStep DEF KickoffInv
    <3> QED
      BY <2>1, <3>1, LP!IntentMoves
  <2>4. Moves
    BY <2>1, <2>2, <2>3
  <2>5. /\ work = [r \in {"p"} |-> K!IntentState("p")]
        /\ work' = [r \in {"p"} |-> K!IntentState("p")']
    BY <2>1
  <2> QED
    BY <2>4, <2>5 DEF K!IntentState, Intents!Next, Intents!Step, Intents!Moved, Intents!May,
       Intents!WorkStates, Intents!Closed
<1> QED
  BY <1>1, <1>2, KickoffHolds, PTL DEF Spec, IntentsAreLeasedWork, Intents!Spec

-----------------------------------------------------------------------------
(* Plan reviews                                                            *)

RP == INSTANCE PlanReviewProofs WITH
        Rounds <- Size, RoundCap <- Size, MaxVersions <- 1, MaxReviews <- 1,
        MaxRulings <- 1, MaxPatches <- 0, MaxFaults <- 1
SP == INSTANCE PlanReviewProofs WITH
        Rounds <- 1, RoundCap <- 1, MaxVersions <- 2, MaxReviews <- 1,
        MaxRulings <- 0, MaxPatches <- 1, MaxFaults <- 0
VP == INSTANCE PlanReviewProofs WITH
        Workers <- {"w"}, Rounds <- 1, RoundCap <- 1, MaxVersions <- 2, MaxReviews <- 2,
        MaxRulings <- 0, MaxPatches <- 0, MaxFaults <- 0

(* The steps of the composition's reviews are those the proofs are about.     *)
LEMMA ReviewNext == R!Next <=> RP!Next
BY DEF
   R!NoVersion, R!NoToken, R!NoCheckpoint, R!Success, R!Live, R!Cadences, R!Latest,
   R!Body, R!InsertPlanVersion, R!OnVersion, R!activeReview, R!MayReturn,
   R!ownsReviewLease, R!Human, R!SavePlanCandidate, R!Review, R!SendPlanToQc,
   R!SkipQc, R!ContinueWithoutQc, R!RequestPlanChanges, R!RejectPlan,
   R!ResultVersion, R!ApprovePlan, R!Stopped, R!Returned, R!MayStop, R!CancelReview,
   R!Requeued, R!ResumeReview, R!AdjudicateReview, R!PatchReview, R!Idle, R!Failing,
   R!Park, R!Finish, R!NextRound, R!AfterReview, R!AfterRevision, R!Enter,
   R!MayFault, R!Ends, R!Mine, R!RecoverExpiredReviewOnly, R!Claim,
   R!LoadReviewOnlySeed, R!MarkReviewOnlyStarted, R!ReviewerAnswers, R!PmAnswers,
   R!CallFails, R!Ordinal, R!StepOf, R!RecordReviewOnlyCheckpoint,
   R!RecordReviewOnlyProgress, R!PauseReviewOnly, R!CompleteReviewOnly,
   R!FailReviewOnly, R!RenewReviewLease, R!Drain, R!Crash, R!LeaseRunsOut, R!Pass,
   R!Command, R!Next, RP!NoVersion, RP!NoToken, RP!NoCheckpoint, RP!Success,
   RP!Live, RP!Cadences, RP!Latest, RP!Body, RP!InsertPlanVersion, RP!OnVersion,
   RP!activeReview, RP!MayReturn, RP!ownsReviewLease, RP!Human,
   RP!SavePlanCandidate, RP!Review, RP!SendPlanToQc, RP!SkipQc,
   RP!ContinueWithoutQc, RP!RequestPlanChanges, RP!RejectPlan, RP!ResultVersion,
   RP!ApprovePlan, RP!Stopped, RP!Returned, RP!MayStop, RP!CancelReview,
   RP!Requeued, RP!ResumeReview, RP!AdjudicateReview, RP!PatchReview, RP!Idle,
   RP!Failing, RP!Park, RP!Finish, RP!NextRound, RP!AfterReview, RP!AfterRevision,
   RP!Enter, RP!MayFault, RP!Ends, RP!Mine, RP!RecoverExpiredReviewOnly, RP!Claim,
   RP!LoadReviewOnlySeed, RP!MarkReviewOnlyStarted, RP!ReviewerAnswers,
   RP!PmAnswers, RP!CallFails, RP!Ordinal, RP!StepOf, RP!RecordReviewOnlyCheckpoint,
   RP!RecordReviewOnlyProgress, RP!PauseReviewOnly, RP!CompleteReviewOnly,
   RP!FailReviewOnly, RP!RenewReviewLease, RP!Drain, RP!Crash, RP!LeaseRunsOut,
   RP!Pass, RP!Command, RP!Next

(* The same of the review of one of several saved plans.                     *)
LEMMA SavesNext == S!Next <=> SP!Next
BY DEF
   S!NoVersion, S!NoToken, S!NoCheckpoint, S!Success, S!Live, S!Cadences, S!Latest,
   S!Body, S!InsertPlanVersion, S!OnVersion, S!activeReview, S!MayReturn,
   S!ownsReviewLease, S!Human, S!SavePlanCandidate, S!Review, S!SendPlanToQc,
   S!SkipQc, S!ContinueWithoutQc, S!RequestPlanChanges, S!RejectPlan,
   S!ResultVersion, S!ApprovePlan, S!Stopped, S!Returned, S!MayStop, S!CancelReview,
   S!Requeued, S!ResumeReview, S!AdjudicateReview, S!PatchReview, S!Idle, S!Failing,
   S!Park, S!Finish, S!NextRound, S!AfterReview, S!AfterRevision, S!Enter,
   S!MayFault, S!Ends, S!Mine, S!RecoverExpiredReviewOnly, S!Claim,
   S!LoadReviewOnlySeed, S!MarkReviewOnlyStarted, S!ReviewerAnswers, S!PmAnswers,
   S!CallFails, S!Ordinal, S!StepOf, S!RecordReviewOnlyCheckpoint,
   S!RecordReviewOnlyProgress, S!PauseReviewOnly, S!CompleteReviewOnly,
   S!FailReviewOnly, S!RenewReviewLease, S!Drain, S!Crash, S!LeaseRunsOut, S!Pass,
   S!Command, S!Next, SP!NoVersion, SP!NoToken, SP!NoCheckpoint, SP!Success,
   SP!Live, SP!Cadences, SP!Latest, SP!Body, SP!InsertPlanVersion, SP!OnVersion,
   SP!activeReview, SP!MayReturn, SP!ownsReviewLease, SP!Human,
   SP!SavePlanCandidate, SP!Review, SP!SendPlanToQc, SP!SkipQc,
   SP!ContinueWithoutQc, SP!RequestPlanChanges, SP!RejectPlan, SP!ResultVersion,
   SP!ApprovePlan, SP!Stopped, SP!Returned, SP!MayStop, SP!CancelReview,
   SP!Requeued, SP!ResumeReview, SP!AdjudicateReview, SP!PatchReview, SP!Idle,
   SP!Failing, SP!Park, SP!Finish, SP!NextRound, SP!AfterReview, SP!AfterRevision,
   SP!Enter, SP!MayFault, SP!Ends, SP!Mine, SP!RecoverExpiredReviewOnly, SP!Claim,
   SP!LoadReviewOnlySeed, SP!MarkReviewOnlyStarted, SP!ReviewerAnswers,
   SP!PmAnswers, SP!CallFails, SP!Ordinal, SP!StepOf, SP!RecordReviewOnlyCheckpoint,
   SP!RecordReviewOnlyProgress, SP!PauseReviewOnly, SP!CompleteReviewOnly,
   SP!FailReviewOnly, SP!RenewReviewLease, SP!Drain, SP!Crash, SP!LeaseRunsOut,
   SP!Pass, SP!Command, SP!Next

(* The same of the reviews that may be waived.                               *)
LEMMA WaiversNext == V!Next <=> VP!Next
BY DEF
   V!NoVersion, V!NoToken, V!NoCheckpoint, V!Success, V!Live, V!Cadences, V!Latest,
   V!Body, V!InsertPlanVersion, V!OnVersion, V!activeReview, V!MayReturn,
   V!ownsReviewLease, V!Human, V!SavePlanCandidate, V!Review, V!SendPlanToQc,
   V!SkipQc, V!ContinueWithoutQc, V!RequestPlanChanges, V!RejectPlan,
   V!ResultVersion, V!ApprovePlan, V!Stopped, V!Returned, V!MayStop, V!CancelReview,
   V!Requeued, V!ResumeReview, V!AdjudicateReview, V!PatchReview, V!Idle, V!Failing,
   V!Park, V!Finish, V!NextRound, V!AfterReview, V!AfterRevision, V!Enter,
   V!MayFault, V!Ends, V!Mine, V!RecoverExpiredReviewOnly, V!Claim,
   V!LoadReviewOnlySeed, V!MarkReviewOnlyStarted, V!ReviewerAnswers, V!PmAnswers,
   V!CallFails, V!Ordinal, V!StepOf, V!RecordReviewOnlyCheckpoint,
   V!RecordReviewOnlyProgress, V!PauseReviewOnly, V!CompleteReviewOnly,
   V!FailReviewOnly, V!RenewReviewLease, V!Drain, V!Crash, V!LeaseRunsOut, V!Pass,
   V!Command, V!Next, VP!NoVersion, VP!NoToken, VP!NoCheckpoint, VP!Success,
   VP!Live, VP!Cadences, VP!Latest, VP!Body, VP!InsertPlanVersion, VP!OnVersion,
   VP!activeReview, VP!MayReturn, VP!ownsReviewLease, VP!Human,
   VP!SavePlanCandidate, VP!Review, VP!SendPlanToQc, VP!SkipQc,
   VP!ContinueWithoutQc, VP!RequestPlanChanges, VP!RejectPlan, VP!ResultVersion,
   VP!ApprovePlan, VP!Stopped, VP!Returned, VP!MayStop, VP!CancelReview,
   VP!Requeued, VP!ResumeReview, VP!AdjudicateReview, VP!PatchReview, VP!Idle,
   VP!Failing, VP!Park, VP!Finish, VP!NextRound, VP!AfterReview, VP!AfterRevision,
   VP!Enter, VP!MayFault, VP!Ends, VP!Mine, VP!RecoverExpiredReviewOnly, VP!Claim,
   VP!LoadReviewOnlySeed, VP!MarkReviewOnlyStarted, VP!ReviewerAnswers,
   VP!PmAnswers, VP!CallFails, VP!Ordinal, VP!StepOf, VP!RecordReviewOnlyCheckpoint,
   VP!RecordReviewOnlyProgress, VP!PauseReviewOnly, VP!CompleteReviewOnly,
   VP!FailReviewOnly, VP!RenewReviewLease, VP!Drain, VP!Crash, VP!LeaseRunsOut,
   VP!Pass, VP!Command, VP!Next

(* A step of the composition is a step of the reviews when they are the part. *)
LEMMA ReviewStep ==
  ASSUME [Next]_vars
  PROVE  /\ part' = part
         /\ part = "review" => [RP!Next]_(RP!reviewVars)
         /\ part = "saves" => [SP!Next]_(SP!reviewVars)
         /\ part = "waivers" => [VP!Next]_(VP!reviewVars)
<1>1. CASE UNCHANGED vars
  BY <1>1 DEF vars, reviewVars, RP!reviewVars, SP!reviewVars, VP!reviewVars
<1>2. CASE Debating \/ KickingOff \/ Planning \/ Publishing
  BY <1>2 DEF Debating, KickingOff, Planning, Publishing
<1>3. CASE Proxying \/ Talking \/ Steered
  BY <1>3 DEF Proxying, Talking, Steered
<1>4. CASE Reviewing
  BY <1>4, ReviewNext, SavesNext, WaiversNext DEF Reviewing
<1> QED
  BY <1>1, <1>2, <1>3, <1>4 DEF Next

\* the inductive invariant of whichever reviews are the part
ReviewsInv ==
  /\ part = "review" => RP!ReviewInv
  /\ part = "saves" => SP!ReviewInv
  /\ part = "waivers" => VP!ReviewInv

(* The reviews' inductive invariant holds in the composition.                *)
LEMMA ReviewsHold ==
  ASSUME "none" \notin Workers, Size \in Nat
  PROVE  Spec => []ReviewsInv
<1>1. /\ RP!NoToken \notin Workers /\ SP!NoToken \notin Workers /\ VP!NoToken \notin {"w"}
      /\ 1 \in Nat
  BY DEF RP!NoToken, SP!NoToken, VP!NoToken
<1>2. Init => ReviewsInv
  <2>1. ASSUME Init, part = "review"
        PROVE  RP!Init
    BY <2>1 DEF Init, R!Init, RP!Init, R!NoVersion, RP!NoVersion, R!Idle, RP!Idle
  <2>2. ASSUME Init, part = "saves"
        PROVE  SP!Init
    BY <2>2 DEF Init, R!Init, SP!Init, R!NoVersion, SP!NoVersion, R!Idle, SP!Idle
  <2>3. ASSUME Init, part = "waivers"
        PROVE  VP!Init
    BY <2>3 DEF Init, V!Init, VP!Init, V!NoVersion, VP!NoVersion, V!Idle, VP!Idle
  <2> QED
    BY <2>1, <2>2, <2>3, RP!InitInv, SP!InitInv, VP!InitInv DEF ReviewsInv
<1>3. ReviewsInv /\ [Next]_vars => ReviewsInv'
  BY <1>1, ReviewStep, RP!StepSound, SP!StepSound, VP!StepSound
     DEF ReviewsInv, RP!Sound, SP!Sound, VP!Sound
<1> QED
  BY <1>2, <1>3, PTL DEF Spec

(* The review row and the planning run, written by worker, human and         *)
(* recovery in different transactions (planWorkflow.ts, runWorker.ts), never *)
(* disagree: a lease exists exactly while the run is worked on.              *)
THEOREM ReviewMatchesRun ==
  ASSUME "none" \notin Workers, Size \in Nat
  PROVE  Spec => []ReviewAndRunAgree
<1>1. /\ RP!ReviewAndRunAgree => R!ReviewAndRunAgree
      /\ SP!ReviewAndRunAgree => R!ReviewAndRunAgree
      /\ VP!ReviewAndRunAgree => R!ReviewAndRunAgree
  BY DEF R!ReviewAndRunAgree, RP!ReviewAndRunAgree, SP!ReviewAndRunAgree,
     VP!ReviewAndRunAgree, R!NoToken, RP!NoToken, SP!NoToken, VP!NoToken,
     R!ReviewTerminal, RP!ReviewTerminal, SP!ReviewTerminal, VP!ReviewTerminal,
     R!Success, RP!Success, SP!Success, VP!Success
<1>2. ReviewsInv => ReviewAndRunAgree
  BY <1>1, RP!RowsAgree, SP!RowsAgree, VP!RowsAgree DEF ReviewsInv, ReviewAndRunAgree, Reviews
<1> QED
  BY <1>2, ReviewsHold, PTL

(* A pass that lost its lease changes neither review nor plan, however late  *)
(* its provider answers (planWorkflow.ts, ownsReviewLease).                  *)
THEOREM StaleHarmless ==
  ASSUME "none" \notin Workers, Size \in Nat
  PROVE  Spec => StaleWorkerHarmless
<1>1. /\ RP!StaleWorkerStep => R!StaleWorkerStep
      /\ SP!StaleWorkerStep => R!StaleWorkerStep
  BY DEF R!StaleWorkerStep, RP!StaleWorkerStep, SP!StaleWorkerStep, R!Mine, RP!Mine, SP!Mine,
     R!ownsReviewLease, RP!ownsReviewLease, SP!ownsReviewLease
<1>2. ReviewsInv /\ [Next]_vars =>
        [(part \in {"review", "saves"} => R!StaleWorkerStep)]_reviewVars
  BY <1>1, ReviewStep, RP!StaleStep, SP!StaleStep DEF ReviewsInv
<1> QED
  BY <1>2, ReviewsHold, PTL DEF Spec, StaleWorkerHarmless

(* An approved plan is what a successful review, or a waiver, resulted in,   *)
(* and neither is changed afterwards (planWorkflow.ts, approvePlan).         *)
THEOREM ApprovalFinal ==
  ASSUME "none" \notin Workers, Size \in Nat
  PROVE  Spec => ApprovedForGood
<1>1. /\ RP!NoToken \notin Workers /\ SP!NoToken \notin Workers /\ VP!NoToken \notin {"w"}
      /\ 1 \in Nat
  BY DEF RP!NoToken, SP!NoToken, VP!NoToken
<1>2. /\ RP!ApprovedStep => R!ApprovedStep
      /\ SP!ApprovedStep => R!ApprovedStep
      /\ VP!ApprovedStep => R!ApprovedStep
  BY DEF R!ApprovedStep, RP!ApprovedStep, SP!ApprovedStep, VP!ApprovedStep,
     R!NoVersion, RP!NoVersion, SP!NoVersion, VP!NoVersion,
     R!Success, RP!Success, SP!Success, VP!Success
<1>3. ReviewsInv /\ [Next]_vars => [(part \in Reviews => R!ApprovedStep)]_reviewVars
  BY <1>1, <1>2, ReviewStep, RP!StepSound, SP!StepSound, VP!StepSound, RP!ApprovalStands,
     SP!ApprovalStands, VP!ApprovalStands DEF ReviewsInv, Reviews
<1> QED
  BY <1>3, ReviewsHold, PTL DEF Spec, ApprovedForGood
=============================================================================
