----------------------------- MODULE Lifecycle -----------------------------
(***************************************************************************)
(* The frozen lifecycle tables of the V2 contracts: the legal Task and     *)
(* AgentRun edges, the terminal states, and the terminal command states.   *)
(* Every mutation of a task or run row goes through these tables           *)
(* (transitionV2TaskLifecycle, transitionV2AgentRunLifecycle): an edge that *)
(* is not in the table throws, and the enclosing transaction rolls back.   *)
(***************************************************************************)

V2TaskState == {"pending", "ready", "assigned", "in_progress", "verifying",
                "in_review", "completed", "blocked", "failed", "cancelled"}

V2_TASK_TRANSITIONS ==
  [pending     |-> {"ready", "blocked", "cancelled"},
   ready       |-> {"assigned", "blocked", "cancelled"},
   assigned    |-> {"in_progress", "blocked", "cancelled"},
   in_progress |-> {"verifying", "blocked", "failed", "cancelled"},
   verifying   |-> {"in_review", "in_progress", "blocked", "failed", "cancelled"},
   in_review   |-> {"completed", "in_progress", "blocked", "failed", "cancelled"},
   completed   |-> {"in_progress"},
   blocked     |-> {"ready", "assigned", "in_progress", "verifying", "in_review",
                    "failed", "cancelled"},
   failed      |-> {"in_progress", "cancelled"},
   cancelled   |-> {}]

V2_TERMINAL_TASK_STATES == {"completed", "cancelled"}

V2AgentRunState == {"created", "dispatched", "running", "waiting_for_human",
                    "verifying", "succeeded", "failed", "cancelled", "expired"}

V2_AGENT_RUN_TRANSITIONS ==
  [created           |-> {"dispatched", "cancelled", "expired"},
   dispatched        |-> {"running", "failed", "cancelled", "expired"},
   running           |-> {"waiting_for_human", "verifying", "failed", "cancelled"},
   waiting_for_human |-> {"dispatched", "cancelled", "expired"},
   verifying         |-> {"waiting_for_human", "succeeded", "failed", "cancelled"},
   succeeded         |-> {},
   failed            |-> {},
   cancelled         |-> {},
   expired           |-> {}]

V2_TERMINAL_AGENT_RUN_STATES == {"succeeded", "failed", "cancelled", "expired"}

(* The command states the runner acknowledges and the relational command    *)
(* row takes; waiting_for_human is a terminal acknowledgement as well.      *)
TERMINAL_COMMAND_STATES ==
  {"succeeded", "waiting_for_human", "failed", "rejected", "expired", "cancelled"}

v2CanTaskTransition(from, to) == to \in V2_TASK_TRANSITIONS[from]

v2CanAgentRunTransition(from, to) == to \in V2_AGENT_RUN_TRANSITIONS[from]

=============================================================================
