----------------------------- MODULE MCPingMath -----------------------------
(* Instances of PingMath for TLC. *)
EXTENDS PingMath
=============================================================================
