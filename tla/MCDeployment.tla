---------------------------- MODULE MCDeployment ----------------------------
(* Instances of Deployment for TLC. *)
EXTENDS Deployment, TLC

CONSTANTS k1, k2, k3, boss, guest, b1, b2
=============================================================================
