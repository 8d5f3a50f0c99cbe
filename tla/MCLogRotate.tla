---------------------------- MODULE MCLogRotate ----------------------------
(* Instances of LogRotate for TLC. *)
EXTENDS LogRotate
=============================================================================
