----------------------------- MODULE MCUdpTest -----------------------------
(* Instances of UdpTest for TLC. *)
EXTENDS UdpTest, TLC

CONSTANTS t1, t2, a1, a2, junk

MCAddrTwo == t1 :> a1 @@ t2 :> a2
MCAddrSame == t1 :> a1 @@ t2 :> a1
MCAddrOne == t1 :> a1
=============================================================================
