----------------------------- MODULE MCSteering -----------------------------
(***************************************************************************)
(* A steered run by itself, with the fairness of the server's timers.      *)
(***************************************************************************)
EXTENDS Steering

FairSpec == Spec /\ SteeringFairness
=============================================================================
