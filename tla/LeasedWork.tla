----------------------------- MODULE LeasedWork -----------------------------
(***************************************************************************)
(* What the server's leased job queues promise, whichever table they use:  *)
(* an item of work is enqueued once, is held by at most one worker at a    *)
(* time, and is closed exactly once, with its result applied or dropped.   *)
(* Nothing about an item changes after it is closed: a worker that lost    *)
(* its lease, crashed, or answers late can no longer have an effect.       *)
(***************************************************************************)
EXTENDS Naturals

CONSTANTS Items,        \* the identities an item of work may have
          MayRequeue    \* TRUE when an expired lease returns to the queue

VARIABLES work          \* work[i]: where item i stands

WorkStates == {"absent", "queued", "held", "applied", "dropped"}
Closed == {"applied", "dropped"}

Init == work = [i \in Items |-> "absent"]

\* A step of the system may enqueue at most one item and move one other: a
\* commit closes the item it was about and enqueues its successor together.
\* Any number of queued items may be dropped together with their owner.
May(i, to) ==
    \/ work[i] = "absent" /\ to = "queued"
    \/ work[i] = "queued" /\ to \in {"held", "dropped"}
    \/ work[i] = "held" /\ to \in Closed
    \/ work[i] = "held" /\ to = "queued" /\ MayRequeue

Moved == {i \in Items : work'[i] # work[i]}

Step ==
    /\ work' \in [Items -> WorkStates]
    /\ \A i \in Moved : May(i, work'[i])
    \* one result is applied, and one item handed out, per transaction
    /\ \A i, j \in Moved :
          work'[i] = work'[j] /\ work'[i] \in {"applied", "held", "queued"} => i = j

Next == Step

Spec == Init /\ [][Next]_work
=============================================================================
