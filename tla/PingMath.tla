------------------------------ MODULE PingMath ------------------------------
(***************************************************************************)
(* What a ping test computes: the checksum of its requests (in_cksum), the *)
(* time between request and reply (tv_sub) and the statistics of a round   *)
(* (the first loop of Ping_test::finish).                                  *)
(*                                                                         *)
(* The code has bytes of 256 values, words of two bytes, a sum of four and *)
(* a million microseconds in a second.  Here the base of a byte and the    *)
(* length of a second are parameters, so that small ones make every carry  *)
(* and every borrow happen.  The host is little-endian, as the build is.   *)
(***************************************************************************)
EXTENDS Integers, Sequences, SequencesExt, FiniteSetsExt

CONSTANTS
    B,          \* values of a byte, 256 in the code
    Usec,       \* microseconds in a second
    MaxLen,     \* bound: bytes of a packet
    MaxSec,     \* bound: seconds of a clock value
    MaxReplies  \* bound: replies of a round

W == B * B  \* values of a word

\* The sum of the longest packet fits into uint32_t.
ASSUME PingMathAssumption ==
    /\ B \in Nat \ {0, 1} /\ Usec \in Nat \ {0} /\ MaxSec \in Nat
    /\ MaxLen \in Nat /\ MaxReplies \in Nat
    /\ ((MaxLen + 1) \div 2) * (W - 1) < W * W

Byte == 0..(B - 1)
timeval == [tv_sec: Int, tv_usec: 0..(Usec - 1)]
Clock == [tv_sec: 0..MaxSec, tv_usec: 0..(Usec - 1)]

-----------------------------------------------------------------------------
(* in_cksum *)

\* The k-th word of packet p in host order; the last byte of an odd packet is
\* stored into the first byte of "answer".
Word(p, k) == IF 2 * k <= Len(p) THEN p[2 * k - 1] + B * p[2 * k] ELSE p[2 * k - 1]

NumWords(p) == (Len(p) + 1) \div 2

\* The uint32_t sum of the words.
Sum32(p) == FoldLeft(LAMBDA s, w : (s + w) % (W * W), 0,
                     [k \in 1..NumWords(p) |-> Word(p, k)])

\* Mutation: the carries are added once only.
FoldCarriesOnce(sum) == ((sum \div W) + (sum % W)) % W

\* The carries are added twice, and the complement takes 16 bits of the sum.
FoldCarries(sum) ==
    LET once == (sum \div W) + (sum % W)
    IN  (once + (once \div W)) % W

in_cksum(p) == W - 1 - FoldCarries(Sum32(p))

-----------------------------------------------------------------------------
(* tv_sub and the round trip time *)

\* Mutation: a negative difference stays as it is.
tv_subPlain(out, in) ==
    [tv_sec |-> out.tv_sec - in.tv_sec, tv_usec |-> out.tv_usec - in.tv_usec]

\* Mutation: no borrow.
tv_subNoBorrow(out, in) ==
    [tv_sec |-> out.tv_sec - in.tv_sec, tv_usec |-> (out.tv_usec - in.tv_usec) % Usec]

tv_sub(out, in) ==
    LET usec == out.tv_usec - in.tv_usec
    IN  IF usec < 0
        THEN [tv_sec |-> out.tv_sec - 1 - in.tv_sec, tv_usec |-> usec + Usec]
        ELSE [tv_sec |-> out.tv_sec - in.tv_sec, tv_usec |-> usec]

Micros(tv) == tv.tv_sec * Usec + tv.tv_usec

-----------------------------------------------------------------------------
(* The loop of Ping_test::finish *)

Stat(st, rtt) ==
    [min |-> IF rtt < st.min THEN rtt ELSE st.min,
     max |-> IF rtt > st.max THEN rtt ELSE st.max,
     sum |-> st.sum + rtt]

\* Mutation: the first reply is treated like the others.
StatisticsFromZero(rs) == FoldLeft(Stat, [min |-> 0, max |-> 0, sum |-> 0], rs)

\* rtt_min, rtt_max and rtt_sum of a round with at least one reply; without
\* one they are not initialised.
Statistics(rs) ==
    FoldLeft(Stat, [min |-> rs[1], max |-> rs[1], sum |-> rs[1]], Tail(rs))

-----------------------------------------------------------------------------
(* The inputs: packets byte by byte, and the clock at each request and reply *)

VARIABLES
    sendbuf,  \* the bytes of the packet
    recvtime, \* recvtime after the tv_sub of process()
    rtts,     \* the rtt of every element of data_vec, in microseconds
    elapsed   \* history: the time that has really passed, likewise

vars == <<sendbuf, recvtime, rtts, elapsed>>

TypeOK ==
    /\ sendbuf \in Seq(Byte)
    /\ in_cksum(sendbuf) \in 0..(W - 1)
    /\ recvtime \in timeval
    /\ rtts \in Seq(Int)
    /\ elapsed \in Seq(Int)

Init ==
    /\ sendbuf = <<>>
    /\ recvtime = [tv_sec |-> 0, tv_usec |-> 0]
    /\ rtts = <<>>
    /\ elapsed = <<>>

\* probe() fills the packet.
Fill(b) ==
    /\ Len(sendbuf) < MaxLen /\ rtts = <<>>
    /\ sendbuf' = Append(sendbuf, b)
    /\ UNCHANGED <<recvtime, rtts, elapsed>>

\* process(): the time of the request comes back in the reply; the clock may
\* have been set back in between.
Reply(tvsend, now) ==
    /\ Len(rtts) < MaxReplies /\ sendbuf = <<>>
    /\ recvtime' = tv_sub(now, tvsend)
    /\ rtts' = Append(rtts, Micros(recvtime'))
    /\ elapsed' = Append(elapsed, Micros(now) - Micros(tvsend))
    /\ UNCHANGED sendbuf

Next ==
    \/ \E b \in Byte : Fill(b)
    \/ \E tvsend, now \in Clock : Reply(tvsend, now)

Spec == Init /\ [][Next]_vars

-----------------------------------------------------------------------------
(* Properties *)

\* The sum a receiver computes, with the carry of each addition added at once,
\* of words read in the order of its host.
OnesAdd(a, b) == IF a + b >= W THEN a + b - (W - 1) ELSE a + b
ReceiverWord(p, k, little) ==
    LET second == IF 2 * k <= Len(p) THEN p[2 * k] ELSE 0
    IN  IF little THEN p[2 * k - 1] + B * second ELSE B * p[2 * k - 1] + second
ReceiverSum(p, little) ==
    FoldLeft(OnesAdd, 0, [k \in 1..NumWords(p) |-> ReceiverWord(p, k, little)])

\* The packet probe() sends: the checksum is computed with icmp_cksum zero and
\* stored in host order as the second word.
WithChecksum(p) ==
    LET zeroed == [p EXCEPT ![3] = 0, ![4] = 0]
        cksum == in_cksum(zeroed)
    IN  [zeroed EXCEPT ![3] = cksum % B, ![4] = cksum \div B]

\* A receiver accepts the packet, whatever its byte order, whatever carries
\* the sum has produced and whether or not the length is even.
ChecksumVerifies ==
    Len(sendbuf) >= 4 =>
        \A little \in BOOLEAN : ReceiverSum(WithChecksum(sendbuf), little) = W - 1

\* The round trip times in data_vec are the times that have passed, with a
\* borrow and with a clock that was set back.
RttExact == rtts = elapsed

\* Least, greatest and total round trip time of a round are those of its
\* replies.
StatisticsRight ==
    rtts # <<>> =>
        /\ Statistics(rtts).min = Min(Range(rtts))
        /\ Statistics(rtts).max = Max(Range(rtts))
        /\ Statistics(rtts).sum = MapThenSumSet(LAMBDA k : rtts[k], DOMAIN rtts)
=============================================================================
