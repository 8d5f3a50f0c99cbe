------------------------------ MODULE MCProber ------------------------------
(* Instances of Prober for TLC. *)
EXTENDS Prober

C(i, t, v, l) == [id |-> i, type |-> t, ver |-> v, long |-> l]
Udp(i) == C(i, "UDP", 1, FALSE)

\* Every kind of configuration, over two ids.
MCConfAll == {Udp(1), C(1, "OTHER", 1, FALSE), C(2, "PING", 1, FALSE), C(2, "UDP", 1, TRUE)}
MCConfUdp2 == {Udp(1), Udp(2)}
MCConfUdp3 == {Udp(1), Udp(2), Udp(3)}

\* What test.conf may hold: a set of tests with distinct ids.
StartWith(S) == [i \in Ids |-> IF \E c \in S : c.id = i THEN CHOOSE c \in S : c.id = i ELSE None]
MCStartOne == {StartWith({}), StartWith({Udp(1)})}
MCStartTwo == {StartWith({}), StartWith({Udp(1), Udp(2)})}
=============================================================================
