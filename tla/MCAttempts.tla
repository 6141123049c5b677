----------------------------- MODULE MCAttempts -----------------------------
(***************************************************************************)
(* One task and two dispatchers in two environments, of which a behaviour  *)
(* picks one: a single run with its deadline, an emergency stop and any two*)
(* faults; or several attempts by retry and rework, cancellation and any   *)
(* one fault.                                                              *)
(***************************************************************************)
EXTENDS MCExecution

VARIABLE scenario

Faults == {"disconnect", "runner_crash", "server_crash", "slow_lease", "commit_lost"}
Once == INSTANCE Execution WITH
         Environment <- Faults \union {"expiry", "emergency_stop"}
Reruns == INSTANCE Execution WITH
         MaxFaults <- 1,
         Environment <- Faults \union {"retry", "rework", "cancel_phase"}

InitAny == Init /\ scenario \in {"once", "reruns"}
NextAny ==
  /\ \/ scenario = "once" /\ Once!Next
     \/ scenario = "reruns" /\ Reruns!Next
  /\ UNCHANGED scenario

SpecAny == InitAny /\ [][NextAny]_<<vars, scenario>>
=============================================================================
