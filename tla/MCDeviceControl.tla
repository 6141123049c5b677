-------------------------- MODULE MCDeviceControl --------------------------
(***************************************************************************)
(* Instances of DeviceControl for TLC: one run, and two runs of one device. *)
(***************************************************************************)
EXTENDS DeviceControl

CONSTANTS r1, r2

OneRun == {r1}
TwoRuns == {r1, r2}

=============================================================================
