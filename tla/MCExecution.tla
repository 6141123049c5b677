---------------------------- MODULE MCExecution ----------------------------
(***************************************************************************)
(* Instances of Execution for TLC: one task with several attempts, and two *)
(* tasks that declare an overlapping conflict key.                         *)
(***************************************************************************)
EXTENDS Execution

OneTask == {"a"}
TwoTasks == {"a", "b"}

Independent == [t \in Tasks |-> {}]
Overlap == [t \in Tasks |-> Tasks \ {t}]
=============================================================================
