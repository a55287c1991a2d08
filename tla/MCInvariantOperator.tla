------------------------- MODULE MCInvariantOperator -------------------------
(***************************************************************************)
(* Instances of InvariantOperator for TLC.  The configurations choose the  *)
(* number of generations and slots, which generations are scheduled, how   *)
(* many faults a behaviour may have and which disturbances happen.         *)
(***************************************************************************)
EXTENDS InvariantOperator

MCNone == {}
MCFirst == {1}
MCCrash == {"crash"}
MCPolicy == {"policy"}
MCRotate == {"rotate"}
MCRecreate == {"recreate"}
MCEvery == {"policy", "rotate", "topology", "crash", "recreate"}
MCAll == CheckPhases \cup RepairPhases \cup {"failed", "timedOut"}
MCDrift == {"Healthy", "DriftDetected", "RepairFailed", "failed"}
=============================================================================
