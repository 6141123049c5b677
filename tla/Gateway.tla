------------------------------ MODULE Gateway ------------------------------
(***************************************************************************)
(* Model calls made on behalf of one dispatched run, and the money behind  *)
(* them.  The coordinator reserved Amount for the run.  A call reaches the *)
(* provider through the completion proxy (a runner frame) or the streaming *)
(* gateway (HTTP with a short-lived credential); both authorize the run,   *)
(* hold the most the call can cost, forward it, and after the answer drop  *)
(* the hold and write a usage event.  The holds live in the memory of a    *)
(* SqlRunReservationBudget; the proxy and the gateway have one each.       *)
(* Amounts are in units of the smallest charge.                            *)
(***************************************************************************)
EXTENDS FiniteSetsExt, Integers

CONSTANTS Calls,      \* the model calls the agent of the run makes
          Amount,     \* the run's budget reservation
          Charges,    \* what conservativeMaxChargeUsd may come to
          MaxExcess,  \* how far a true cost may exceed that estimate
          MaxCrashes  \* bound: restarts of the server

VARIABLES run,        \* the run may spend; its reservation is open; its credential
          calls,      \* calls[c]: a call in progress
          held,       \* held[b]: in-flight holds of each budget instance
          settled,    \* sum of the run's usage_events rows
          spent,      \* what the provider has charged for the run
          lapsed,     \* calls overlapped, or a charge was never metered
          crashes

gatewayVars == <<run, calls, held, settled, spent, lapsed, crashes>>

Paths == {"proxy", "gateway"}

\* a call that has been answered but not yet accounted for is still open
Open == {"authorized", "read", "held", "answered", "metering"}
Holding == {"held", "answered"}

NoCall == [pc |-> "idle", path |-> "none", charge |-> 0, seen |-> 0,
           cost |-> 0, observed |-> FALSE]

Init ==
    /\ run = [active |-> TRUE, reserved |-> TRUE, credential |-> "none"]
    /\ calls = [c \in Calls |-> NoCall]
    /\ held = [b \in Paths |-> 0]
    /\ settled = 0
    /\ spent = 0
    /\ lapsed = FALSE
    /\ crashes = 0

Ends(c, why) == calls' = [calls EXCEPT ![c].pc = why]

\* the mint route: a live run of the authenticated runner
Mint ==
    /\ run.active
    /\ run.credential # "live"
    /\ run' = [run EXCEPT !.credential = "live"]
    /\ UNCHANGED <<calls, held, settled, spent, lapsed, crashes>>

\* resolve() refuses an expired token
CredentialExpires ==
    /\ run.credential = "live"
    /\ run' = [run EXCEPT !.credential = "expired"]
    /\ UNCHANGED <<calls, held, settled, spent, lapsed, crashes>>

authorizeProxiedRunAccess == run.active

\* a call comes in and passes, or fails, the checks before the budget: the
\* gateway's credential, then ownership and liveness, then the model's price
Authorize(c, path, charge) ==
    /\ calls[c].pc = "idle"
    /\ path = "gateway" => run.credential # "none"
    /\ calls' = [calls EXCEPT ![c] =
          [NoCall EXCEPT !.path = path, !.charge = charge,
                         !.pc = IF /\ authorizeProxiedRunAccess
                                   /\ path = "gateway" => run.credential = "live"
                                THEN "authorized" ELSE "refused"]]
    /\ lapsed' = (lapsed \/ \E d \in Calls : calls[d].pc \in Open)
    /\ UNCHANGED <<run, held, settled, spent, crashes>>

\* Variant: only the calls in flight count, not what was metered before.
ReadReservation(c) ==
    /\ calls[c].pc = "authorized"
    /\ Ends(c, IF run.reserved THEN "read" ELSE "refused")
    /\ UNCHANGED <<run, held, settled, spent, lapsed, crashes>>

\* reserve: the transaction that reads the reservation and the metered spend
ReadSettled(c) ==
    /\ calls[c].pc = "authorized"
    /\ calls' = [calls EXCEPT ![c].pc = IF run.reserved THEN "read" ELSE "refused",
                              ![c].seen = settled]
    /\ UNCHANGED <<run, held, settled, spent, lapsed, crashes>>

\* reserve, after the await: compare with the holds of now and add this one
Hold(c) ==
    LET b == calls[c].path
        remaining == Amount - calls[c].seen - held[b]
    IN /\ calls[c].pc = "read"
       /\ IF calls[c].charge > remaining
          THEN Ends(c, "refused") /\ UNCHANGED held
          ELSE /\ Ends(c, "held")
               /\ held' = [held EXCEPT ![b] = @ + calls[c].charge]
       /\ UNCHANGED <<run, settled, spent, lapsed, crashes>>

Drop(c) == held' = [held EXCEPT ![calls[c].path] = @ - calls[c].charge]

\* Variant: a call that fails before its answer is not settled.
UnreachableUnsettled(c) ==
    /\ calls[c].pc = "held"
    /\ Ends(c, "done")
    /\ UNCHANGED <<run, held, settled, spent, lapsed, crashes>>

\* the provider cannot be reached, or refused the call: nothing was charged
Unreachable(c) ==
    /\ calls[c].pc = "held"
    /\ Ends(c, "done")
    /\ Drop(c)
    /\ UNCHANGED <<run, settled, spent, lapsed, crashes>>

\* the provider did the work; the body, complete or cut off, may not show usage
Answered(c) ==
    /\ calls[c].pc = "held"
    /\ \E cost \in 0..(calls[c].charge + MaxExcess), observed \in BOOLEAN :
          /\ calls' = [calls EXCEPT ![c].pc = "answered", ![c].cost = cost,
                                    ![c].observed = observed]
          /\ spent' = spent + cost
    /\ UNCHANGED <<run, held, settled, lapsed, crashes>>

\* settle the hold, then meter: in between the charge is in neither
Settle(c) ==
    /\ calls[c].pc = "answered"
    /\ Drop(c)
    /\ Ends(c, IF calls[c].observed THEN "metering" ELSE "done")
    /\ lapsed' = (lapsed \/ ~calls[c].observed)
    /\ UNCHANGED <<run, settled, spent, crashes>>

\* the usage event is written, or the write fails and is only audited
Meter(c) ==
    /\ calls[c].pc = "metering"
    /\ Ends(c, "done")
    /\ \/ settled' = settled + calls[c].cost /\ UNCHANGED lapsed
       \/ lapsed' = TRUE /\ UNCHANGED settled
    /\ UNCHANGED <<run, held, spent, crashes>>

\* the run reaches a terminal state, and its reservation closes with it or,
\* when the outcome is in doubt, stays retained
RunEnds ==
    /\ run.active
    /\ \E retained \in BOOLEAN :
          run' = [run EXCEPT !.active = FALSE, !.reserved = retained]
    /\ UNCHANGED <<calls, held, settled, spent, lapsed, crashes>>

\* holds and calls are lost with the process; usage events are not
Restart ==
    /\ crashes < MaxCrashes
    /\ crashes' = crashes + 1
    /\ held' = [b \in Paths |-> 0]
    /\ calls' = [c \in Calls |-> IF calls[c].pc \in Open
                                 THEN [calls[c] EXCEPT !.pc = "lost"] ELSE calls[c]]
    /\ lapsed' = (lapsed \/ \E c \in Calls : calls[c].pc \in Open)
    /\ UNCHANGED <<run, settled, spent>>

Next ==
    \/ Mint \/ CredentialExpires \/ RunEnds \/ Restart
    \/ \E c \in Calls :
          \/ \E path \in Paths, charge \in Charges : Authorize(c, path, charge)
          \/ ReadSettled(c) \/ Hold(c) \/ Unreachable(c)
          \/ Answered(c) \/ Settle(c) \/ Meter(c)

Spec == Init /\ [][Next]_gatewayVars

-----------------------------------------------------------------------------
(* Properties                                                              *)

\* The in-memory figure of each budget is the sum of the calls that still have to
\* be settled: no path of a call leaks its hold or drops it twice, and no instance
\* alone commits more than the reservation.
HoldsAreOutstanding ==
    \A b \in Paths :
        /\ held[b] = MapThenSumSet(LAMBDA c : calls[c].charge,
                        {c \in Calls : calls[c].path = b /\ calls[c].pc \in Holding})
        /\ held[b] <= Amount

\* An agent that makes one call at a time, and whose charges are all metered,
\* exceeds its reservation by at most one call's excess over its own hold.
SequentialOverrunBounded == ~lapsed => spent <= Amount + MaxExcess
=============================================================================
