--------------------------- MODULE UdpTestProofs ---------------------------
(***************************************************************************)
(* Proofs about UdpTest, for every set of tests and of descriptors and any *)
(* number of rounds.                                                       *)
(***************************************************************************)
EXTENDS UdpTest, DataFacts, FiniteSetTheorems

-----------------------------------------------------------------------------
(* The inductive invariants *)

\* A report is about a round that has started, and a round that sent its
\* datagram has no event once it has reported.
ReportInv ==
    /\ \A f \in Flights : f \in sent \/ tev[f] # "none" => f[2] <= round[f[1]]
    /\ \A t \in Tests : \A k \in DOMAIN results[t] :
          LET f == results[t][k][1]
          IN  f[1] = t /\ f[2] <= round[t] /\ (f \in sent => tev[f] = "deleted")

\* SentReportsOnce of a worker that has not used freed memory.
OnceInv ==
    \A t \in Tests : \A j, k \in DOMAIN results[t] :
        /\ results[t][j][1] = results[t][k][1]
        /\ results[t][j][1] \in sent
        => j = k

UpInv == TypeOK /\ ReportInv /\ OnceInv

\* Whatever the environment does: the use of freed memory may report once more,
\* and then only the types are left.
AnyInv == TypeOK /\ (proc = "up" => UpInv)

\* The tests do not disturb one another and are not disturbed: no two have the
\* same address, each has a timeout that is shorter than its period, none is
\* deleted while it waits, every ICMP error answers the round that waits for
\* it, and there is a descriptor for each test.
Calm ==
    /\ Env = {}
    /\ Untimed = {}
    /\ \A t, u \in Tests : addr[t] = addr[u] => t = u
    /\ IsFiniteSet(Tests) /\ IsFiniteSet(Fds)
    /\ Cardinality(Tests) <= Cardinality(Fds)

\* A round that waits is the last of its test, which exists; the event is
\* registered under the address of the test, and sockfd is its socket.
WaitInv ==
    \A f \in Flights : tev[f] = "pending" =>
        /\ f[2] = round[f[1]]
        /\ obj[f[1]] = "live"
        /\ servaddr[f[1]] = addr[f[1]]
        /\ icmp_unreach_map[addr[f[1]]] = f
        /\ sockfd[f[1]] \in Fds /\ fdtab[sockfd[f[1]]] = f
        /\ f \notin heard

\* Every socket is that of a round that waits.
SocketInv == \A d \in Fds : fdtab[d] # None => /\ tev[fdtab[d]] = "pending"
                                               /\ sockfd[fdtab[d][1]] = d

\* OneReportPerRound without counting: at most one round of a test waits.
CountInv ==
    \A t \in Tests : \/ Pending(t) = {} /\ Len(results[t]) = round[t]
                     \/ Pending(t) # {} /\ Len(results[t]) + 1 = round[t]

\* A round that has reported, or was answered, waits no more.
OverInv ==
    /\ \A t \in Tests : \A k \in DOMAIN results[t] : tev[results[t][k][1]] # "pending"
    /\ \A f \in heard : f[2] <= round[f[1]]

CalmInv ==
    /\ UpInv
    /\ proc = "up"
    /\ WaitInv /\ SocketInv /\ CountInv /\ OverInv
    /\ VerdictRight

-----------------------------------------------------------------------------
(* Facts about flights, descriptors and reports *)

\* A flight is a test and the number of one of its rounds.
LEMMA FlightParts ==
    ASSUME NEW f \in Flights
    PROVE  f[1] \in Tests /\ f[2] \in 1..MaxRound /\ f = <<f[1], f[2]>>
  BY DEF Flights

LEMMA FlightEq ==
    ASSUME NEW f \in Flights, NEW g \in Flights, f[1] = g[1], f[2] = g[2]
    PROVE  f = g
  BY DEF Flights

\* socket() returns a descriptor that is free.
LEMMA LowestFreeFree ==
    ASSUME TypeOK, FreeFds # {}
    PROVE  LowestFree \in Fds /\ fdtab[LowestFree] = None
<1>1. FreeFds \in SUBSET Nat
  BY UdpAssumption DEF FreeFds
<1>2. \E d \in FreeFds : \A e \in FreeFds : d <= e
  BY <1>1, NatMin
<1>3. LowestFree \in FreeFds
  BY <1>2 DEF LowestFree
<1> QED BY <1>3 DEF FreeFds

\* The round that is about to start is a new flight.
LEMMA NewFlight ==
    ASSUME TypeOK, NEW t \in Tests, RoundDue(t)
    PROVE  /\ ThisRound(t) \in Flights /\ ThisRound(t)[1] = t
           /\ ThisRound(t)[2] = round[t] + 1 /\ round[t] + 1 \in 0..MaxRound
           /\ ThisRound(t) # None
           /\ round[t] \in Nat
  BY UdpAssumption DEF TypeOK, RoundDue, ThisRound, Flights

Result == Flights \X {"ok", "unreachable"}

\* A report at the end of the list of test t.
LEMMA Reported ==
    ASSUME TypeOK, NEW t \in Tests, NEW r \in Result,
           results' = [results EXCEPT ![t] = Append(@, r)]
    PROVE  /\ results' \in [Tests -> Seq(Result)]
           /\ \A u \in Tests : u # t => results'[u] = results[u]
           /\ Len(results[t]) \in Nat /\ Len(results'[t]) = Len(results[t]) + 1
           /\ DOMAIN results[t] = 1..Len(results[t])
           /\ \A k \in DOMAIN results[t] :
                 k \in DOMAIN results'[t] /\ results'[t][k] = results[t][k]
           /\ \A k \in DOMAIN results'[t] :
                 k \in DOMAIN results[t] \/ k = Len(results[t]) + 1
           /\ Len(results[t]) + 1 \in DOMAIN results'[t]
           /\ results'[t][Len(results[t]) + 1] = r
<1>1. results \in [Tests -> Seq(Result)] /\ results[t] \in Seq(Result)
  BY DEF TypeOK, Result
<1>2. /\ Append(results[t], r) \in Seq(Result)
      /\ Len(Append(results[t], r)) = Len(results[t]) + 1
      /\ Len(results[t]) \in Nat /\ DOMAIN results[t] = 1..Len(results[t])
      /\ DOMAIN Append(results[t], r) = 1..(Len(results[t]) + 1)
      /\ Append(results[t], r)[Len(results[t]) + 1] = r
      /\ \A k \in DOMAIN results[t] : /\ k \in DOMAIN Append(results[t], r)
                                       /\ Append(results[t], r)[k] = results[t][k]
      /\ \A k \in DOMAIN Append(results[t], r) :
            k \in DOMAIN results[t] \/ k = Len(results[t]) + 1
  BY <1>1, AppendFacts
<1>3. results'[t] = Append(results[t], r) /\ \A u \in Tests : u # t => results'[u] = results[u]
  BY <1>1
<1>4. results' \in [Tests -> Seq(Result)]
  BY <1>1, <1>2
<1>5. Len(results[t]) + 1 \in DOMAIN results'[t]
  BY <1>2, <1>3
<1> QED BY <1>2, <1>3, <1>4, <1>5

\* What a list of reports holds.
LEMMA ReportType ==
    ASSUME TypeOK, NEW t \in Tests, NEW k \in DOMAIN results[t]
    PROVE  results[t][k] \in Result /\ results[t][k][1] \in Flights
<1>1. results[t] \in Seq(Result)
  BY DEF TypeOK, Result
<1>2. results[t][k] \in Result
  BY <1>1
<1> QED BY <1>2 DEF Result

-----------------------------------------------------------------------------
(* Under any environment *)

LEMMA InitUp == Init => UpInv
<1> SUFFICES ASSUME Init PROVE UpInv
  OBVIOUS
<1>1. TypeOK
  BY UdpAssumption DEF Init, TypeOK, Addrs
<1>2. ReportInv
  BY DEF Init, ReportInv
<1>3. OnceInv
  BY DEF Init, OnceInv
<1> QED BY <1>1, <1>2, <1>3 DEF UpInv

\* The end of a round.
LEMMA FinishAny ==
    ASSUME UpInv, NEW f \in Flights, NEW res \in {"ok", "unreachable"},
           tev[f] = "pending", Finish(f, res), UNCHANGED <<round, sent>>
    PROVE  /\ fdtab' \in [Fds -> Flights \cup {None}]
           /\ tev' \in [Flights -> {"none", "pending", "deleted"}]
           /\ results' \in [Tests -> Seq(Flights \X {"ok", "unreachable"})]
           /\ ReportInv' /\ OnceInv'
<1> DEFINE t == f[1]
<1>1. TypeOK /\ t \in Tests /\ f[2] <= round[t] /\ <<f, res>> \in Result
  BY FlightParts DEF UpInv, ReportInv, Result
<1>2. /\ fdtab' = [d \in Fds |-> IF d = sockfd[t] THEN None ELSE fdtab[d]]
      /\ results' = [results EXCEPT ![t] = Append(@, <<f, res>>)]
      /\ tev' = [tev EXCEPT ![f] = "deleted"]
  BY DEF Finish, Report, Close, DeleteEvent
<1>3. /\ fdtab' \in [Fds -> Flights \cup {None}]
      /\ tev' \in [Flights -> {"none", "pending", "deleted"}]
      /\ tev'[f] = "deleted" /\ \A g \in Flights : g # f => tev'[g] = tev[g]
  BY <1>1, <1>2 DEF TypeOK
<1>4. /\ results' \in [Tests -> Seq(Result)]
      /\ \A u \in Tests : u # t => results'[u] = results[u]
      /\ Len(results[t]) \in Nat /\ DOMAIN results[t] = 1..Len(results[t])
      /\ \A k \in DOMAIN results[t] : results'[t][k] = results[t][k]
      /\ \A k \in DOMAIN results'[t] : k \in DOMAIN results[t] \/ k = Len(results[t]) + 1
      /\ results'[t][Len(results[t]) + 1] = <<f, res>>
  BY <1>1, <1>2, Reported
<1> HIDE DEF t
<1>5. ASSUME NEW u \in Tests, NEW k \in DOMAIN results'[u]
      PROVE  \/ /\ k \in DOMAIN results[u] /\ results'[u][k] = results[u][k]
                /\ (results[u][k][1] \in sent => results[u][k][1] # f)
             \/ u = t /\ k = Len(results[t]) + 1 /\ results'[u][k][1] = f
  <2>1. ASSUME k \in DOMAIN results[u], results[u][k][1] \in sent PROVE results[u][k][1] # f
    BY <2>1 DEF UpInv, ReportInv
  <2>2. CASE u # t
    BY <1>4, <2>1, <2>2
  <2>3. CASE u = t
    BY <1>4, <2>1, <2>3
  <2> QED BY <2>2, <2>3
<1>6. ReportInv'
  <2>1. ASSUME NEW g \in Flights, g \in sent' \/ tev'[g] # "none" PROVE g[2] <= round'[g[1]]
    <3>1. g \in sent \/ tev[g] # "none"
      BY <1>3, <2>1
    <3> QED BY <3>1 DEF UpInv, ReportInv
  <2>2. ASSUME NEW u \in Tests, NEW k \in DOMAIN results'[u]
        PROVE  /\ results'[u][k][1][1] = u /\ results'[u][k][1][2] <= round'[u]
               /\ results'[u][k][1] \in sent' => tev'[results'[u][k][1]] = "deleted"
    <3>1. CASE k \in DOMAIN results[u] /\ results'[u][k] = results[u][k]
      <4>1. results[u][k][1] \in Flights
        BY <1>1, <3>1, ReportType
      <4>2. /\ results[u][k][1][1] = u /\ results[u][k][1][2] <= round[u]
            /\ results[u][k][1] \in sent => tev[results[u][k][1]] = "deleted"
        BY <3>1 DEF UpInv, ReportInv
      <4> QED BY <1>3, <3>1, <4>1, <4>2
    <3>2. CASE u = t /\ results'[u][k][1] = f
      BY <1>1, <1>3, <3>2 DEF t
    <3> QED BY <1>5, <3>1, <3>2
  <2> QED BY <2>1, <2>2 DEF ReportInv
<1>7. OnceInv'
  <2> SUFFICES ASSUME NEW u \in Tests, NEW j \in DOMAIN results'[u], NEW k \in DOMAIN results'[u],
                      results'[u][j][1] = results'[u][k][1], results'[u][j][1] \in sent
               PROVE  j = k
    BY DEF OnceInv
  <2>1. CASE j \in DOMAIN results[u] /\ k \in DOMAIN results[u]
    <3>1. results'[u][j] = results[u][j] /\ results'[u][k] = results[u][k]
      BY <1>4, <2>1
    <3>2. results[u][j][1] = results[u][k][1] /\ results[u][j][1] \in sent
      BY <3>1
    <3> QED BY <2>1, <3>2 DEF UpInv, OnceInv
  <2>2. CASE ~(j \in DOMAIN results[u] /\ k \in DOMAIN results[u])
    BY <1>5, <2>2
  <2> QED BY <2>1, <2>2
<1> QED BY <1>3, <1>4, <1>6, <1>7 DEF Result

\* The event of a new round, if the test has a timeout.
LEMMA TimerAny ==
    ASSUME TypeOK, NEW t \in Tests, RoundDue(t), NEW a \in Addrs, AddTimer(t, a)
    PROVE  /\ tev' \in [Flights -> {"none", "pending", "deleted"}]
           /\ icmp_unreach_map' \in [Addrs -> Flights \cup {None}]
           /\ \A g \in Flights : g # ThisRound(t) => tev'[g] = tev[g]
<1>1. ThisRound(t) \in Flights
  BY NewFlight
<1> QED BY <1>1 DEF TypeOK, AddTimer, Register

\* No report is about a round that has not started.
LEMMA NotYetReported ==
    ASSUME UpInv, NEW t \in Tests, RoundDue(t), NEW u \in Tests, NEW k \in DOMAIN results[u]
    PROVE  results[u][k][1] # ThisRound(t) /\ results[u][k][1] \in Flights
<1>1. /\ TypeOK /\ results[u][k][1] \in Flights
      /\ results[u][k][1][1] = u /\ results[u][k][1][2] <= round[u]
  BY ReportType DEF UpInv, ReportInv
<1>2. ThisRound(t)[1] = t /\ ThisRound(t)[2] = round[t] + 1 /\ round[t] \in Nat
  BY <1>1, NewFlight
<1>3. SUFFICES ASSUME results[u][k][1] = ThisRound(t) PROVE FALSE
  BY <1>1
<1>4. t = u /\ round[t] + 1 <= round[t]
  BY <1>1, <1>2, <1>3
<1> QED BY <1>2, <1>4

\* The first part of ReportInv, when a round of test t starts.
LEMMA StartedAny ==
    ASSUME UpInv, NEW t \in Tests, RoundDue(t),
           round' = [round EXCEPT ![t] = @ + 1],
           sent' \subseteq sent \cup {ThisRound(t)},
           \A g \in Flights : g # ThisRound(t) => tev'[g] = tev[g],
           NEW f \in Flights, f \in sent' \/ tev'[f] # "none"
    PROVE  f[2] <= round'[f[1]]
<1>1. TypeOK /\ f[1] \in Tests
  BY FlightParts DEF UpInv
<1>2. /\ ThisRound(t)[1] = t /\ ThisRound(t)[2] = round[t] + 1 /\ round[t] \in Nat
      /\ round'[t] = round[t] + 1 /\ \A u \in Tests : u # t => round'[u] = round[u]
  BY <1>1, NewFlight DEF TypeOK
<1>3. CASE f = ThisRound(t)
  BY <1>2, <1>3
<1>4. CASE f # ThisRound(t)
  <2>1. f[2] <= round[f[1]]
    BY <1>4 DEF UpInv, ReportInv
  <2>2. f[2] \in Nat /\ round[f[1]] \in Nat
    BY <1>1, FlightParts, UdpAssumption DEF TypeOK
  <2> QED BY <1>1, <1>2, <2>1, <2>2
<1> QED BY <1>3, <1>4

LEMMA RunAny == ASSUME UpInv, NEW t \in Tests, Run(t) PROVE UpInv'
<1> DEFINE d == LowestFree
           f == ThisRound(t)
<1>1. /\ TypeOK /\ RoundDue(t) /\ FreeFds # {}
      /\ fdtab' = [fdtab EXCEPT ![d] = f]
      /\ sockfd' = [sockfd EXCEPT ![t] = d]
      /\ servaddr' = [servaddr EXCEPT ![t] = addr[t]]
      /\ AddTimer(t, addr[t])
      /\ round' = [round EXCEPT ![t] = @ + 1]
      /\ sent' = sent \cup {f}
      /\ UNCHANGED <<proc, obj, answered, results, heard>>
  BY DEF UpInv, Run
<1>2. d \in Fds /\ f \in Flights /\ round[t] + 1 \in 0..MaxRound /\ round[t] \in Nat
  BY <1>1, LowestFreeFree, NewFlight
<1>3. addr[t] \in Addrs
  BY UdpAssumption
<1>4. /\ tev' \in [Flights -> {"none", "pending", "deleted"}]
      /\ icmp_unreach_map' \in [Addrs -> Flights \cup {None}]
      /\ \A g \in Flights : g # f => tev'[g] = tev[g]
  BY <1>1, <1>3, TimerAny
<1> HIDE DEF d, f
<1>5. TypeOK'
  BY <1>1, <1>2, <1>3, <1>4 DEF TypeOK
<1>6. ReportInv'
  <2>1. ASSUME NEW g \in Flights, g \in sent' \/ tev'[g] # "none" PROVE g[2] <= round'[g[1]]
    BY <1>1, <1>4, <2>1, StartedAny DEF f
  <2>2. ASSUME NEW u \in Tests, NEW k \in DOMAIN results[u]
        PROVE  /\ results[u][k][1][1] = u /\ results[u][k][1][2] <= round'[u]
               /\ results[u][k][1] \in sent' => tev'[results[u][k][1]] = "deleted"
    <3>1. results[u][k][1] # f /\ results[u][k][1] \in Flights
      BY <1>1, NotYetReported DEF f
    <3>2. /\ results[u][k][1][1] = u /\ results[u][k][1][2] <= round[u]
          /\ results[u][k][1] \in sent => tev[results[u][k][1]] = "deleted"
      BY DEF UpInv, ReportInv
    <3>3. round[u] \in Nat /\ round[u] <= round'[u] /\ results[u][k][1][2] \in Nat /\ round'[u] \in Nat
      <4>1. round[u] \in Nat /\ round[u] <= round'[u] /\ round'[u] \in Nat
        BY <1>1, <1>2, UdpAssumption DEF TypeOK
      <4>2. results[u][k][1][2] \in Nat
        BY <3>1, FlightParts
      <4> QED BY <4>1, <4>2
    <3>4. results[u][k][1] \in sent' => tev'[results[u][k][1]] = "deleted"
      BY <1>1, <1>4, <3>1, <3>2
    <3> QED BY <3>2, <3>3, <3>4
  <2> QED BY <1>1, <2>1, <2>2 DEF ReportInv
<1>7. OnceInv'
  <2> SUFFICES ASSUME NEW u \in Tests, NEW j \in DOMAIN results[u], NEW k \in DOMAIN results[u],
                      results[u][j][1] = results[u][k][1], results[u][j][1] \in sent'
               PROVE  j = k
    BY <1>1 DEF OnceInv
  <2>1. results[u][j][1] # f
    BY <1>1, NotYetReported DEF f
  <2> QED BY <1>1, <2>1 DEF UpInv, OnceInv
<1> QED BY <1>5, <1>6, <1>7 DEF UpInv

LEMMA RunNoSocketAny == ASSUME UpInv, NEW t \in Tests, RunNoSocket(t) PROVE UpInv'
<1> DEFINE f == ThisRound(t)
<1>1. /\ TypeOK /\ RoundDue(t)
      /\ sockfd' = [sockfd EXCEPT ![t] = -1]
      /\ results' = [results EXCEPT ![t] = Append(@, <<f, "ok">>)]
      /\ AddTimer(t, servaddr[t])
      /\ round' = [round EXCEPT ![t] = @ + 1]
      /\ UNCHANGED <<proc, obj, servaddr, fdtab, sent, answered, heard>>
  BY DEF UpInv, RunNoSocket
<1>2. /\ f \in Flights /\ round[t] + 1 \in 0..MaxRound /\ round[t] \in Nat
      /\ f[1] = t /\ f[2] = round[t] + 1 /\ <<f, "ok">> \in Result
  BY <1>1, NewFlight DEF Result
<1>3. servaddr[t] \in Addrs
  BY <1>1 DEF TypeOK
<1>4. /\ tev' \in [Flights -> {"none", "pending", "deleted"}]
      /\ icmp_unreach_map' \in [Addrs -> Flights \cup {None}]
      /\ \A g \in Flights : g # f => tev'[g] = tev[g]
  BY <1>1, <1>3, TimerAny
<1>5. /\ results' \in [Tests -> Seq(Result)]
      /\ \A u \in Tests : u # t => results'[u] = results[u]
      /\ \A k \in DOMAIN results[t] : results'[t][k] = results[t][k]
      /\ \A k \in DOMAIN results'[t] : k \in DOMAIN results[t] \/ k = Len(results[t]) + 1
      /\ results'[t][Len(results[t]) + 1] = <<f, "ok">>
  BY <1>1, <1>2, Reported
<1>6. f \notin sent
  BY <1>1, <1>2 DEF UpInv, ReportInv
<1> HIDE DEF f
<1>7. TypeOK'
  BY <1>1, <1>2, <1>4, <1>5 DEF TypeOK, Result
<1>8. ASSUME NEW u \in Tests, NEW k \in DOMAIN results'[u]
      PROVE  \/ k \in DOMAIN results[u] /\ results'[u][k] = results[u][k]
             \/ u = t /\ results'[u][k][1] = f
  BY <1>5
<1>9. ReportInv'
  <2>1. ASSUME NEW g \in Flights, g \in sent' \/ tev'[g] # "none" PROVE g[2] <= round'[g[1]]
    <3>1. sent' \subseteq sent \cup {f}
      BY <1>1
    <3> QED BY <1>1, <1>4, <2>1, <3>1, StartedAny DEF f
  <2>2. ASSUME NEW u \in Tests, NEW k \in DOMAIN results'[u]
        PROVE  /\ results'[u][k][1][1] = u /\ results'[u][k][1][2] <= round'[u]
               /\ results'[u][k][1] \in sent => tev'[results'[u][k][1]] = "deleted"
    <3>1. CASE k \in DOMAIN results[u] /\ results'[u][k] = results[u][k]
      <4>1. results[u][k][1] # f /\ results[u][k][1] \in Flights
        BY <1>1, <3>1, NotYetReported DEF f
      <4>2. /\ results[u][k][1][1] = u /\ results[u][k][1][2] <= round[u]
            /\ results[u][k][1] \in sent => tev[results[u][k][1]] = "deleted"
        BY <3>1 DEF UpInv, ReportInv
      <4>3. /\ round[u] \in Nat /\ round[u] <= round'[u] /\ results[u][k][1][2] \in Nat
            /\ round'[u] \in Nat
        <5>1. results[u][k][1][2] \in Nat
          BY <4>1, FlightParts, UdpAssumption
        <5>2. round \in [Tests -> Nat]
          BY <1>1, UdpAssumption DEF TypeOK
        <5> QED BY <1>1, <5>1, <5>2
      <4>4. results[u][k][1] \in sent => tev'[results[u][k][1]] = "deleted"
        BY <1>4, <4>1, <4>2
      <4> QED BY <3>1, <4>2, <4>3, <4>4
    <3>2. CASE u = t /\ results'[u][k][1] = f
      <4>1. round'[t] = round[t] + 1
        BY <1>1 DEF TypeOK
      <4> QED BY <1>2, <1>6, <3>2, <4>1
    <3> QED BY <1>8, <3>1, <3>2
  <2> QED BY <1>1, <2>1, <2>2 DEF ReportInv
<1>10. OnceInv'
  <2> SUFFICES ASSUME NEW u \in Tests, NEW j \in DOMAIN results'[u], NEW k \in DOMAIN results'[u],
                      results'[u][j][1] = results'[u][k][1], results'[u][j][1] \in sent
               PROVE  j = k
    BY <1>1 DEF OnceInv
  <2>1. /\ j \in DOMAIN results[u] /\ results'[u][j] = results[u][j]
        /\ k \in DOMAIN results[u] /\ results'[u][k] = results[u][k]
    BY <1>6, <1>8
  <2> QED BY <2>1 DEF UpInv, OnceInv
<1> QED BY <1>7, <1>9, <1>10 DEF UpInv

\* A step that starts and ends no round.
LEMMA IdleAny ==
    ASSUME UpInv, TypeOK', UNCHANGED <<tev, round, sent, results>>
    PROVE  UpInv'
  BY DEF UpInv, ReportInv, OnceInv

\* The step that uses freed memory keeps the types, even if it reports.
LEMMA UndefinedAny ==
    ASSUME TypeOK, NEW f \in Flights, NEW res \in {"ok", "unreachable"}, Undefined(f, res)
    PROVE  TypeOK' /\ proc' = "undefined"
<1>1. /\ proc' = "undefined"
      /\ UNCHANGED <<obj, sockfd, servaddr, tev, icmp_unreach_map, round, sent,
                     answered, heard>>
  BY DEF Undefined
<1>2. /\ fdtab' \in [Fds -> Flights \cup {None}]
      /\ results' \in [Tests -> Seq(Flights \X {"ok", "unreachable"})]
  <2>1. CASE UNCHANGED <<fdtab, results>>
    BY <2>1 DEF TypeOK
  <2>2. CASE Report(f, res)
    <3>1. fdtab' = [d \in Fds |-> IF d = sockfd[f[1]] THEN None ELSE fdtab[d]]
      BY <2>2 DEF Report, Close
    <3>2. fdtab' \in [Fds -> Flights \cup {None}]
      BY <3>1 DEF TypeOK
    <3>3. f[1] \in Tests /\ <<f, res>> \in Result
      BY FlightParts DEF Result
    <3>4. results' = [results EXCEPT ![f[1]] = Append(@, <<f, res>>)]
      BY <2>2 DEF Report
    <3>5. results' \in [Tests -> Seq(Result)]
      BY <3>3, <3>4, Reported
    <3> QED BY <3>2, <3>5 DEF Result
  <2> QED BY <2>1, <2>2 DEF Undefined
<1> QED BY <1>1, <1>2 DEF TypeOK

LEMMA IcmpAny ==
    ASSUME UpInv, NEW a \in Addrs, NEW cause \in SUBSET Flights, worker_icmp_cb(a, cause)
    PROVE  AnyInv'
<1>1. TypeOK /\ (UpInv' => AnyInv')
  BY DEF UpInv, AnyInv
<1>2. CASE NoEvent(a)
  <2>1. TypeOK' /\ UNCHANGED <<tev, round, sent, results>>
    BY <1>1, <1>2 DEF TypeOK, worker_icmp_cb, Registered, NoEvent
  <2> QED BY <1>1, <2>1, IdleAny
<1>3. CASE Registered(a)
  <2> DEFINE f == icmp_unreach_map[a]
  <2>1. /\ f \in Flights /\ tev[f] = "pending" /\ Finish(f, "unreachable")
        /\ answered' = answered \cup cause
        /\ heard' = heard \cup {g \in cause : tev[g] = "pending"}
        /\ UNCHANGED <<proc, obj, sockfd, servaddr, icmp_unreach_map, round, sent>>
    BY <1>1, <1>3 DEF TypeOK, worker_icmp_cb, Registered, NoEvent
  <2>2. /\ fdtab' \in [Fds -> Flights \cup {None}]
        /\ tev' \in [Flights -> {"none", "pending", "deleted"}]
        /\ results' \in [Tests -> Seq(Flights \X {"ok", "unreachable"})]
        /\ ReportInv' /\ OnceInv'
    BY <2>1, FinishAny
  <2>3. TypeOK'
    BY <1>1, <2>1, <2>2 DEF TypeOK
  <2> QED BY <1>1, <2>2, <2>3 DEF UpInv
<1>4. CASE ~NoEvent(a) /\ ~Registered(a)
  <2>1. /\ icmp_unreach_map[a] \in Flights
        /\ Undefined(icmp_unreach_map[a], "unreachable")
    BY <1>1, <1>4 DEF TypeOK, worker_icmp_cb, NoEvent
  <2> QED BY <1>1, <2>1, UndefinedAny DEF AnyInv
<1> QED BY <1>2, <1>3, <1>4

LEMMA NextAny == AnyInv /\ [Next]_vars => AnyInv'
<1> SUFFICES ASSUME AnyInv, [Next]_vars PROVE AnyInv'
  OBVIOUS
<1>1. CASE UNCHANGED vars
  <2>1. TypeOK' /\ UNCHANGED <<proc, tev, round, sent, results>>
    BY <1>1 DEF vars, AnyInv, TypeOK
  <2> QED BY <2>1, IdleAny DEF AnyInv
<1>2. CASE Next
  <2>1. TypeOK /\ UpInv /\ (UpInv' => AnyInv')
    <3>1. proc = "up"
      BY <1>2 DEF Next, Run, RunNoSocket, RoundDue, DeleteTest, TimeoutOrData,
                  TimeoutOfFreed, IcmpAnswer, IcmpStranger
    <3> QED BY <3>1 DEF AnyInv, UpInv
  <2>2. ASSUME NEW t \in Tests, Run(t) \/ RunNoSocket(t) PROVE AnyInv'
    BY <2>1, <2>2, RunAny, RunNoSocketAny
  <2>3. ASSUME NEW t \in Tests, DeleteTest(t) PROVE AnyInv'
    <3>1. TypeOK' /\ UNCHANGED <<tev, round, sent, results>>
      BY <2>1, <2>3 DEF TypeOK, DeleteTest
    <3> QED BY <2>1, <3>1, IdleAny
  <2>4. ASSUME NEW f \in Flights, TimeoutOrData(f) PROVE AnyInv'
    <3>1. /\ tev[f] = "pending" /\ Finish(f, "ok")
          /\ icmp_unreach_map' = [icmp_unreach_map EXCEPT ![servaddr[f[1]]] = None]
          /\ UNCHANGED <<proc, obj, sockfd, servaddr, round, sent, answered, heard>>
      BY <2>4 DEF TimeoutOrData
    <3>2. /\ fdtab' \in [Fds -> Flights \cup {None}]
          /\ tev' \in [Flights -> {"none", "pending", "deleted"}]
          /\ results' \in [Tests -> Seq(Flights \X {"ok", "unreachable"})]
          /\ ReportInv' /\ OnceInv'
      BY <2>1, <3>1, FinishAny
    <3>3. TypeOK'
      BY <2>1, <3>1, <3>2 DEF TypeOK
    <3> QED BY <2>1, <3>2, <3>3 DEF UpInv
  <2>5. ASSUME NEW f \in Flights, TimeoutOfFreed(f) PROVE AnyInv'
    BY <2>1, <2>5, UndefinedAny DEF TimeoutOfFreed, AnyInv
  <2>6. ASSUME NEW f \in Flights, IcmpAnswer(f) PROVE AnyInv'
    <3>1. addr[f[1]] \in Addrs /\ {f} \in SUBSET Flights
      BY FlightParts, UdpAssumption
    <3> QED BY <2>1, <2>6, <3>1, IcmpAny DEF IcmpAnswer
  <2>7. ASSUME NEW a \in Addrs, IcmpStranger(a) PROVE AnyInv'
    BY <2>1, <2>7, IcmpAny DEF IcmpStranger
  <2> QED BY <1>2, <2>2, <2>3, <2>4, <2>5, <2>6, <2>7 DEF Next
<1> QED BY <1>1, <1>2

\* Whatever the environment does, the invariant holds in every reachable state.
THEOREM AnyInvariance == Spec => []AnyInv
<1>1. Init => AnyInv
  BY InitUp DEF AnyInv, UpInv
<1>2. AnyInv /\ [Next]_vars => AnyInv'
  BY NextAny
<1> QED BY <1>1, <1>2, PTL DEF Spec

\* Also when tests share an address, sockets fail, strangers cause errors and
\* tests are deleted while they wait, every member has a value of its type:
\* sockfd a descriptor or -1, and the map leads to events of tests only.
THEOREM TypeCorrect == Spec => []TypeOK
<1>1. AnyInv => TypeOK
  BY DEF AnyInv
<1> QED BY <1>1, AnyInvariance, PTL

\* In the same generality, but only until freed memory is used, a round that
\* sent its datagram reports at most once: the timer, data and the ICMP error
\* exclude one another.
THEOREM SentReportsOnceHolds == Spec => []SentReportsOnce
<1>1. AnyInv => SentReportsOnce
  BY DEF AnyInv, UpInv, OnceInv, SentReportsOnce
<1> QED BY <1>1, AnyInvariance, PTL

-----------------------------------------------------------------------------
(* When the tests do not disturb one another *)

LEMMA InitCalm == Init => CalmInv
<1> SUFFICES ASSUME Init PROVE CalmInv
  OBVIOUS
<1>1. UpInv
  BY InitUp
<1>2. WaitInv /\ SocketInv /\ OverInv /\ VerdictRight
  BY DEF Init, WaitInv, SocketInv, OverInv, VerdictRight
<1>3. CountInv
  BY DEF Init, CountInv, Pending
<1> QED BY <1>1, <1>2, <1>3 DEF CalmInv, Init

\* Of the rounds of a test at most one waits.
LEMMA OneWaits ==
    ASSUME CalmInv, NEW f \in Flights, NEW g \in Flights,
           tev[f] = "pending", tev[g] = "pending", f[1] = g[1]
    PROVE  f = g
<1>1. f[2] = round[f[1]] /\ g[2] = round[g[1]]
  BY DEF CalmInv, WaitInv
<1> QED BY <1>1, FlightEq

\* A test without a round that waits finds a descriptor: each of those in use
\* belongs to another test.
LEMMA DescriptorLeft ==
    ASSUME Calm, CalmInv, NEW t \in Tests, Pending(t) = {}
    PROVE  FreeFds # {}
<1> SUFFICES ASSUME FreeFds = {} PROVE FALSE
  OBVIOUS
<1> DEFINE T == Tests \ {t}
           owner == [d \in Fds |-> fdtab[d][1]]
<1>1. ASSUME NEW d \in Fds
      PROVE  /\ fdtab[d] \in Flights /\ tev[fdtab[d]] = "pending"
             /\ sockfd[fdtab[d][1]] = d /\ fdtab[d][1] \in T
  <2>1. fdtab[d] # None
    BY DEF FreeFds
  <2>2. fdtab[d] \in Flights /\ tev[fdtab[d]] = "pending" /\ sockfd[fdtab[d][1]] = d
    BY <2>1 DEF CalmInv, UpInv, TypeOK, SocketInv
  <2>3. fdtab[d][1] \in Tests /\ fdtab[d][1] # t
    BY <2>2, FlightParts DEF Pending
  <2> QED BY <2>2, <2>3
<1>2. owner \in [Fds -> T]
  BY <1>1
<1>3. IsFiniteSet(T) /\ Cardinality(T) = Cardinality(Tests) - 1
  BY FS_RemoveElement DEF Calm
<1>4. Cardinality(T) < Cardinality(Fds)
  <2>1. Cardinality(Tests) \in Nat /\ Cardinality(Fds) \in Nat
    BY FS_CardinalityType DEF Calm
  <2> QED BY <1>3, <2>1 DEF Calm
<1>5. \E d, e \in Fds : d # e /\ owner[d] = owner[e]
  <2> HIDE DEF owner, T
  <2> QED BY <1>2, <1>3, <1>4, FS_PigeonHole DEF Calm
<1> QED BY <1>1, <1>5

LEMMA RunCalm ==
    ASSUME Calm, CalmInv, UpInv', NEW t \in Tests, Run(t)
    PROVE  CalmInv'
<1> DEFINE d == LowestFree
           f == ThisRound(t)
<1>1. /\ TypeOK /\ RoundDue(t) /\ FreeFds # {} /\ obj[t] = "live"
      /\ fdtab' = [fdtab EXCEPT ![d] = f]
      /\ sockfd' = [sockfd EXCEPT ![t] = d]
      /\ servaddr' = [servaddr EXCEPT ![t] = addr[t]]
      /\ tev' = [tev EXCEPT ![f] = "pending"]
      /\ icmp_unreach_map' = [icmp_unreach_map EXCEPT ![addr[t]] = f]
      /\ round' = [round EXCEPT ![t] = @ + 1]
      /\ UNCHANGED <<proc, obj, answered, results, heard>>
      /\ Pending(t) = {}
  BY DEF CalmInv, UpInv, Run, Calm, AddTimer, Register, RoundDue
<1>2. /\ d \in Fds /\ fdtab[d] = None
      /\ f \in Flights /\ f[1] = t /\ f[2] = round[t] + 1 /\ f # None /\ round[t] \in Nat
  BY <1>1, LowestFreeFree, NewFlight
<1>3. addr[t] \in Addrs
  BY UdpAssumption
<1> HIDE DEF d, f
<1>4. /\ fdtab'[d] = f /\ \A e \in Fds : e # d => fdtab'[e] = fdtab[e]
      /\ sockfd'[t] = d /\ servaddr'[t] = addr[t] /\ round'[t] = round[t] + 1
      /\ \A u \in Tests : u # t => /\ sockfd'[u] = sockfd[u] /\ servaddr'[u] = servaddr[u]
                                    /\ round'[u] = round[u]
      /\ tev'[f] = "pending" /\ \A g \in Flights : g # f => tev'[g] = tev[g]
      /\ icmp_unreach_map'[addr[t]] = f
      /\ \A a \in Addrs : a # addr[t] => icmp_unreach_map'[a] = icmp_unreach_map[a]
  BY <1>1, <1>2, <1>3 DEF TypeOK
<1>5. f \notin heard
  BY <1>2 DEF CalmInv, OverInv
<1>6. \A g \in Flights : tev[g] = "pending" => g[1] \in Tests /\ g[1] # t /\ g # f
  BY <1>1, <1>2, FlightParts DEF Pending
<1>7. WaitInv'
  <2> SUFFICES ASSUME NEW g \in Flights, tev'[g] = "pending"
               PROVE  /\ g[2] = round'[g[1]]
                      /\ obj[g[1]] = "live"
                      /\ servaddr'[g[1]] = addr[g[1]]
                      /\ icmp_unreach_map'[addr[g[1]]] = g
                      /\ sockfd'[g[1]] \in Fds /\ fdtab'[sockfd'[g[1]]] = g
                      /\ g \notin heard
    BY <1>1 DEF WaitInv
  <2>1. CASE g = f
    BY <1>1, <1>2, <1>4, <1>5, <2>1
  <2>2. CASE g # f
    <3>1. /\ tev[g] = "pending" /\ g[1] \in Tests /\ g[1] # t
          /\ addr[g[1]] # addr[t] /\ addr[g[1]] \in Addrs
      BY <1>4, <1>6, <2>2, UdpAssumption DEF Calm
    <3>2. /\ g[2] = round[g[1]] /\ obj[g[1]] = "live" /\ servaddr[g[1]] = addr[g[1]]
          /\ icmp_unreach_map[addr[g[1]]] = g
          /\ sockfd[g[1]] \in Fds /\ fdtab[sockfd[g[1]]] = g /\ g \notin heard
      BY <3>1 DEF CalmInv, WaitInv
    <3>3. sockfd[g[1]] # d
      BY <1>2, <3>2, UdpAssumption
    <3> QED BY <1>4, <3>1, <3>2, <3>3
  <2> QED BY <2>1, <2>2
<1>8. SocketInv'
  <2> SUFFICES ASSUME NEW e \in Fds, fdtab'[e] # None
               PROVE  tev'[fdtab'[e]] = "pending" /\ sockfd'[fdtab'[e][1]] = e
    BY DEF SocketInv
  <2>1. CASE e = d
    BY <1>2, <1>4, <2>1
  <2>2. CASE e # d
    <3>1. /\ fdtab'[e] = fdtab[e] /\ fdtab[e] \in Flights
          /\ tev[fdtab[e]] = "pending" /\ sockfd[fdtab[e][1]] = e
      BY <1>1, <1>4, <2>2 DEF CalmInv, SocketInv, TypeOK
    <3> QED BY <1>4, <1>6, <3>1
  <2> QED BY <2>1, <2>2
<1>9. CountInv'
  <2> SUFFICES ASSUME NEW u \in Tests
               PROVE  \/ Pending(u)' = {} /\ Len(results[u]) = round'[u]
                      \/ Pending(u)' # {} /\ Len(results[u]) + 1 = round'[u]
    BY <1>1 DEF CountInv
  <2>1. CASE u = t
    <3>1. f \in Pending(t)'
      BY <1>2, <1>4 DEF Pending
    <3>2. Len(results[t]) = round[t]
      BY <1>1 DEF CalmInv, CountInv
    <3> QED BY <1>4, <2>1, <3>1, <3>2
  <2>2. CASE u # t
    <3>1. Pending(u)' = Pending(u)
      BY <1>2, <1>4, <2>2 DEF Pending
    <3> QED BY <1>4, <2>2, <3>1 DEF CalmInv, CountInv
  <2> QED BY <2>1, <2>2
<1>10. OverInv'
  <2>1. ASSUME NEW u \in Tests, NEW k \in DOMAIN results[u]
        PROVE  tev'[results[u][k][1]] # "pending"
    <3>1. results[u][k][1] # f /\ results[u][k][1] \in Flights
      BY <1>1, NotYetReported DEF f, CalmInv
    <3> QED BY <1>4, <3>1 DEF CalmInv, OverInv
  <2>2. ASSUME NEW g \in heard PROVE g[2] <= round'[g[1]]
    <3>1. g \in Flights /\ g[2] <= round[g[1]]
      BY <1>1 DEF TypeOK, CalmInv, OverInv
    <3>2. g[1] \in Tests /\ g[2] \in Nat
      BY <3>1, FlightParts, UdpAssumption
    <3>3. CASE g[1] = t
      BY <1>2, <1>4, <3>1, <3>2, <3>3
    <3>4. CASE g[1] # t
      BY <1>4, <3>1, <3>2, <3>4
    <3> QED BY <3>3, <3>4
  <2> QED BY <1>1, <2>1, <2>2 DEF OverInv
<1>11. VerdictRight'
  BY <1>1 DEF CalmInv, VerdictRight
<1>12. proc' = "up"
  BY <1>1 DEF CalmInv
<1> QED BY <1>7, <1>8, <1>9, <1>10, <1>11, <1>12 DEF CalmInv

\* The end of a round: its socket is closed and nothing of another is touched.
LEMMA FinishCalm ==
    ASSUME Calm, CalmInv, UpInv', NEW f \in Flights, tev[f] = "pending",
           NEW res \in {"ok", "unreachable"}, Finish(f, res),
           heard' = IF res = "ok" THEN heard ELSE heard \cup {f},
           \A a \in Addrs : a # addr[f[1]] => icmp_unreach_map'[a] = icmp_unreach_map[a],
           UNCHANGED <<proc, obj, sockfd, servaddr, round, sent>>
    PROVE  CalmInv'
<1> DEFINE t == f[1]
           d == sockfd[t]
<1>1. /\ TypeOK /\ t \in Tests /\ <<f, res>> \in Result
      /\ f[2] = round[t] /\ d \in Fds /\ fdtab[d] = f /\ f \notin heard
  BY FlightParts DEF CalmInv, UpInv, WaitInv, Result
<1>2. /\ fdtab' = [e \in Fds |-> IF e = d THEN None ELSE fdtab[e]]
      /\ results' = [results EXCEPT ![t] = Append(@, <<f, res>>)]
      /\ tev' = [tev EXCEPT ![f] = "deleted"]
  BY DEF Finish, Report, Close, DeleteEvent
<1>3. /\ \A u \in Tests : u # t => results'[u] = results[u]
      /\ Len(results[t]) \in Nat /\ Len(results'[t]) = Len(results[t]) + 1
      /\ \A k \in DOMAIN results[t] : results'[t][k] = results[t][k]
      /\ \A k \in DOMAIN results'[t] : k \in DOMAIN results[t] \/ k = Len(results[t]) + 1
      /\ results'[t][Len(results[t]) + 1] = <<f, res>>
  <2> DEFINE r == <<f, res>>
  <2>1. r \in Result /\ results' = [results EXCEPT ![t] = Append(@, r)]
    BY <1>1, <1>2
  <2> HIDE DEF t, r
  <2>2. /\ \A u \in Tests : u # t => results'[u] = results[u]
        /\ Len(results[t]) \in Nat /\ Len(results'[t]) = Len(results[t]) + 1
        /\ \A k \in DOMAIN results[t] : results'[t][k] = results[t][k]
        /\ \A k \in DOMAIN results'[t] : k \in DOMAIN results[t] \/ k = Len(results[t]) + 1
        /\ results'[t][Len(results[t]) + 1] = r
    BY <1>1, <2>1, Reported
  <2> QED BY <2>2 DEF r
<1> HIDE DEF t, d
<1>4. /\ fdtab'[d] = None /\ \A e \in Fds : e # d => fdtab'[e] = fdtab[e]
      /\ tev'[f] = "deleted" /\ \A g \in Flights : g # f => tev'[g] = tev[g]
  BY <1>1, <1>2 DEF TypeOK
<1>5. ASSUME NEW g \in Flights, tev'[g] = "pending"
      PROVE  g # f /\ tev[g] = "pending" /\ g[1] \in Tests /\ g[1] # t
  <2>1. g # f /\ tev[g] = "pending"
    BY <1>4, <1>5
  <2> QED BY <2>1, OneWaits, FlightParts DEF t
<1>6. WaitInv'
  <2> SUFFICES ASSUME NEW g \in Flights, tev'[g] = "pending"
               PROVE  /\ g[2] = round[g[1]]
                      /\ obj[g[1]] = "live"
                      /\ servaddr[g[1]] = addr[g[1]]
                      /\ icmp_unreach_map'[addr[g[1]]] = g
                      /\ sockfd[g[1]] \in Fds /\ fdtab'[sockfd[g[1]]] = g
                      /\ g \notin heard'
    BY DEF WaitInv
  <2>1. /\ g # f /\ tev[g] = "pending" /\ g[1] \in Tests
        /\ addr[g[1]] # addr[f[1]] /\ addr[g[1]] \in Addrs
    BY <1>1, <1>5, UdpAssumption DEF Calm, t
  <2>2. /\ g[2] = round[g[1]] /\ obj[g[1]] = "live" /\ servaddr[g[1]] = addr[g[1]]
        /\ icmp_unreach_map[addr[g[1]]] = g
        /\ sockfd[g[1]] \in Fds /\ fdtab[sockfd[g[1]]] = g /\ g \notin heard
    BY <2>1 DEF CalmInv, WaitInv
  <2>3. sockfd[g[1]] # d
    BY <1>1, <2>1, <2>2
  <2> QED BY <1>4, <2>1, <2>2, <2>3
<1>7. SocketInv'
  <2> SUFFICES ASSUME NEW e \in Fds, fdtab'[e] # None
               PROVE  tev'[fdtab'[e]] = "pending" /\ sockfd[fdtab'[e][1]] = e
    BY DEF SocketInv
  <2>1. e # d /\ fdtab'[e] = fdtab[e]
    BY <1>4
  <2>2. fdtab[e] \in Flights /\ tev[fdtab[e]] = "pending" /\ sockfd[fdtab[e][1]] = e
    BY <1>1, <2>1 DEF CalmInv, SocketInv, TypeOK
  <2>3. fdtab[e] # f
    BY <2>1, <2>2 DEF d, t
  <2> QED BY <1>4, <2>1, <2>2, <2>3
<1>8. CountInv'
  <2> SUFFICES ASSUME NEW u \in Tests
               PROVE  \/ Pending(u)' = {} /\ Len(results'[u]) = round[u]
                      \/ Pending(u)' # {} /\ Len(results'[u]) + 1 = round[u]
    BY DEF CountInv
  <2>1. CASE u = t
    <3>1. Pending(t)' = {}
      BY <1>5 DEF Pending
    <3>2. f \in Pending(t)
      BY <1>1 DEF Pending, t
    <3>3. Len(results[t]) + 1 = round[t]
      BY <1>1, <3>2 DEF CalmInv, CountInv
    <3>4. Pending(u)' = {}
      BY <2>1, <3>1 DEF Pending
    <3> QED BY <1>3, <2>1, <3>3, <3>4
  <2>2. CASE u # t
    <3>1. Pending(u)' = Pending(u)
      BY <1>4, <2>2 DEF Pending, t
    <3> QED BY <1>3, <2>2, <3>1 DEF CalmInv, CountInv
  <2> QED BY <2>1, <2>2
<1>9. ASSUME NEW u \in Tests, NEW k \in DOMAIN results'[u]
      PROVE  \/ /\ k \in DOMAIN results[u] /\ results'[u][k] = results[u][k]
                /\ results[u][k][1] \in Flights /\ results[u][k][1] # f
             \/ results'[u][k] = <<f, res>>
  <2>1. ASSUME k \in DOMAIN results[u]
        PROVE  results[u][k][1] \in Flights /\ results[u][k][1] # f
    BY <1>1, <2>1, ReportType DEF CalmInv, OverInv
  <2>2. CASE u # t
    BY <1>3, <2>1, <2>2
  <2>3. CASE u = t
    BY <1>3, <2>1, <2>3
  <2> QED BY <2>2, <2>3
<1>10. OverInv'
  <2>1. ASSUME NEW u \in Tests, NEW k \in DOMAIN results'[u]
        PROVE  tev'[results'[u][k][1]] # "pending"
    <3>1. CASE results'[u][k] = <<f, res>>
      BY <1>4, <3>1
    <3>2. CASE /\ k \in DOMAIN results[u] /\ results'[u][k] = results[u][k]
               /\ results[u][k][1] \in Flights /\ results[u][k][1] # f
      BY <1>4, <3>2 DEF CalmInv, OverInv
    <3> QED BY <1>9, <3>1, <3>2
  <2>2. ASSUME NEW g \in heard' PROVE g[2] <= round[g[1]]
    <3>1. CASE g = f
      <4>1. round[t] \in Nat
        BY <1>1, UdpAssumption DEF TypeOK
      <4> QED BY <1>1, <3>1, <4>1 DEF t
    <3>2. CASE g \in heard
      BY <3>2 DEF CalmInv, OverInv
    <3> QED BY <3>1, <3>2
  <2> QED BY <2>1, <2>2 DEF OverInv
<1>11. VerdictRight'
  <2> SUFFICES ASSUME NEW u \in Tests, NEW k \in DOMAIN results'[u]
               PROVE  results'[u][k][2] = IF results'[u][k][1] \in heard'
                                          THEN "unreachable" ELSE "ok"
    BY DEF VerdictRight
  <2>1. CASE results'[u][k] = <<f, res>>
    BY <1>1, <2>1
  <2>2. CASE /\ k \in DOMAIN results[u] /\ results'[u][k] = results[u][k]
             /\ results[u][k][1] \in Flights /\ results[u][k][1] # f
    <3>1. results[u][k][2] = IF results[u][k][1] \in heard THEN "unreachable" ELSE "ok"
      BY <2>2 DEF CalmInv, VerdictRight
    <3>2. results[u][k][1] \in heard' <=> results[u][k][1] \in heard
      BY <2>2
    <3> QED BY <2>2, <3>1, <3>2
  <2> QED BY <1>9, <2>1, <2>2
<1> QED BY <1>6, <1>7, <1>8, <1>10, <1>11 DEF CalmInv

LEMMA NextCalm == ASSUME Calm PROVE CalmInv /\ [Next]_vars => CalmInv'
<1> SUFFICES ASSUME CalmInv, [Next]_vars PROVE CalmInv'
  OBVIOUS
<1>1. (proc' = proc => UpInv') /\ TypeOK /\ Env = {} /\ proc = "up"
  <2>1. proc = "up" /\ UpInv /\ AnyInv /\ TypeOK
    BY DEF CalmInv, AnyInv, UpInv
  <2> QED BY <2>1, NextAny DEF AnyInv, Calm
<1>2. ASSUME NEW t \in Tests, Run(t) PROVE CalmInv'
  BY <1>1, <1>2, RunCalm DEF Run
<1>3. ASSUME NEW t \in Tests, RunNoSocket(t) PROVE CalmInv'
  <2>1. Pending(t) = {} /\ FreeFds = {}
    BY <1>1, <1>3 DEF RunNoSocket, RoundDue
  <2> QED BY <2>1, DescriptorLeft
<1>4. ASSUME NEW t \in Tests, DeleteTest(t) PROVE CalmInv'
  <2>1. /\ Pending(t) = {} /\ obj' = [obj EXCEPT ![t] = "freed"]
        /\ UNCHANGED <<proc, sockfd, servaddr, fdtab, tev, icmp_unreach_map, round,
                       sent, answered, results, heard>>
    BY <1>1, <1>4 DEF DeleteTest
  <2>2. \A g \in Flights : tev[g] = "pending" => g[1] \in Tests /\ g[1] # t
    BY <2>1, FlightParts DEF Pending
  <2>3. \A g \in Flights : tev[g] = "pending" => obj'[g[1]] = obj[g[1]]
    BY <1>1, <2>1, <2>2 DEF TypeOK
  <2>4. WaitInv'
    BY <2>1, <2>3 DEF CalmInv, WaitInv
  <2>5. SocketInv' /\ OverInv' /\ VerdictRight'
    BY <2>1 DEF CalmInv, SocketInv, OverInv, VerdictRight
  <2>6. CountInv'
    BY <2>1 DEF CalmInv, CountInv, Pending
  <2> QED BY <1>1, <2>1, <2>4, <2>5, <2>6 DEF CalmInv
<1>5. ASSUME NEW f \in Flights, TimeoutOrData(f) PROVE CalmInv'
  <2>1. /\ tev[f] = "pending" /\ Finish(f, "ok")
        /\ icmp_unreach_map' = [icmp_unreach_map EXCEPT ![servaddr[f[1]]] = None]
        /\ UNCHANGED <<proc, obj, sockfd, servaddr, round, sent, answered, heard>>
    BY <1>5 DEF TimeoutOrData
  <2>2. servaddr[f[1]] = addr[f[1]]
    BY <2>1 DEF CalmInv, WaitInv
  <2>3. \A a \in Addrs : a # addr[f[1]] => icmp_unreach_map'[a] = icmp_unreach_map[a]
    BY <1>1, <2>1, <2>2 DEF TypeOK
  <2> QED BY <1>1, <2>1, <2>3, FinishCalm
<1>6. ASSUME NEW f \in Flights, TimeoutOfFreed(f) PROVE CalmInv'
  BY <1>6 DEF TimeoutOfFreed, CalmInv, WaitInv
<1>7. ASSUME NEW f \in Flights, IcmpAnswer(f) PROVE CalmInv'
  <2> DEFINE a == addr[f[1]]
  <2>1. tev[f] = "pending" /\ worker_icmp_cb(a, {f})
    BY <1>1, <1>7 DEF IcmpAnswer
  <2>2. icmp_unreach_map[a] = f /\ obj[f[1]] = "live"
    BY <2>1 DEF CalmInv, WaitInv
  <2>3. Registered(a) /\ ~NoEvent(a)
    BY <2>1, <2>2, UdpAssumption DEF Registered, NoEvent
  <2>4. /\ Finish(f, "unreachable")
        /\ heard' = heard \cup {g \in {f} : tev[g] = "pending"}
        /\ UNCHANGED <<proc, obj, sockfd, servaddr, icmp_unreach_map, round, sent>>
    BY <2>1, <2>2, <2>3 DEF worker_icmp_cb
  <2>5. heard' = heard \cup {f}
    BY <2>1, <2>4
  <2> QED BY <1>1, <2>1, <2>4, <2>5, FinishCalm
<1>8. ASSUME NEW a \in Addrs, IcmpStranger(a) PROVE CalmInv'
  BY <1>1, <1>8 DEF IcmpStranger
<1>9. CASE UNCHANGED vars
  BY <1>1, <1>9 DEF vars, CalmInv, WaitInv, SocketInv, CountInv, Pending, OverInv, VerdictRight
<1> QED BY <1>2, <1>3, <1>4, <1>5, <1>6, <1>7, <1>8, <1>9 DEF Next

\* When the tests do not disturb one another, the stronger invariant holds too.
THEOREM CalmInvariance == ASSUME Calm PROVE Spec => []CalmInv
<1>1. Init => CalmInv
  BY InitCalm
<1>2. CalmInv /\ [Next]_vars => CalmInv'
  BY NextCalm
<1> QED BY <1>1, <1>2, PTL DEF Spec

\* Then no callback uses a Test or an event that was freed, although the map
\* keeps the pointer to the event of every round that an ICMP error ended.
THEOREM NoUseAfterFreeHolds == ASSUME Calm PROVE Spec => []NoUseAfterFree
<1>1. CalmInv => NoUseAfterFree
  BY DEF CalmInv, NoUseAfterFree
<1> QED BY <1>1, CalmInvariance, PTL

\* Then every round reports exactly once, when its event is gone.
THEOREM OneReportHolds == ASSUME Calm PROVE Spec => []OneReportPerRound
<1>1. CalmInv => OneReportPerRound
  <2> SUFFICES ASSUME CalmInv, NEW t \in Tests
               PROVE  Len(results[t]) + Cardinality(Pending(t)) = round[t]
    BY DEF OneReportPerRound
  <2>1. Len(results[t]) \in Nat
    BY DEF CalmInv, UpInv, TypeOK
  <2>2. CASE Pending(t) = {}
    BY <2>1, <2>2, FS_EmptySet DEF CalmInv, CountInv
  <2>3. CASE Pending(t) # {}
    <3>1. PICK f \in Pending(t) : TRUE
      BY <2>3
    <3>2. Pending(t) = {f}
      BY <3>1, OneWaits DEF Pending
    <3> QED BY <2>1, <2>3, <3>2, FS_Singleton DEF CalmInv, CountInv
  <2> QED BY <2>2, <2>3
<1> QED BY <1>1, CalmInvariance, PTL

\* Then the open sockets are those of the rounds that wait, each the one that
\* finish() will close: nothing leaks and no round closes that of another.
THEOREM SocketsAccountedHolds == ASSUME Calm PROVE Spec => []SocketsAccounted
<1>1. CalmInv => SocketsAccounted
  BY DEF CalmInv, WaitInv, SocketInv, SocketsAccounted
<1> QED BY <1>1, CalmInvariance, PTL

\* Then the verdict is right: unreachable for the rounds that an ICMP error
\* answered in time, and ok for the others.
THEOREM VerdictRightHolds == ASSUME Calm PROVE Spec => []VerdictRight
<1>1. CalmInv => VerdictRight
  BY DEF CalmInv
<1> QED BY <1>1, CalmInvariance, PTL
=============================================================================
