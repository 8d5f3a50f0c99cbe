---------------------------- MODULE MCPingTest ----------------------------
(* Instances of PingTest for TLC. *)
EXTENDS PingTest

CONSTANTS t1, t2
=============================================================================
