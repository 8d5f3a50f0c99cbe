-------------------------- MODULE PingTestProofs --------------------------
(***************************************************************************)
(* Proofs about PingTest, for every set of tests and of descriptors, any   *)
(* number of requests and of rounds.                                       *)
(***************************************************************************)
EXTENDS PingTest, DataFacts, FiniteSetTheorems

-----------------------------------------------------------------------------
(* The inductive invariants *)

\* A test that has an address has a socket and a round.
AddrInv ==
    \A t \in Tests : servaddr[t] => sockfd[t] \in Fds /\ round[t] \in 1..MaxRound

AnyInv == TypeOK /\ AddrInv /\ NeverMoreThanTimes

\* The tests have no interval and run undisturbed: a round ends before the next
\* is due and before its test is deleted, no packet arrives but replies to the
\* requests of this worker, though some may be lost, its process id fits into
\* icmp_id, calls do not fail, and there is a descriptor for each test.
Calm ==
    /\ Env \subseteq {"loss"}
    /\ Interval = {FALSE}
    /\ pid < 65536
    /\ IsFiniteSet(Tests) /\ IsFiniteSet(Fds)
    /\ Cardinality(Tests) <= Cardinality(Fds)

\* The read event of the last request of test t.
LastEvent(t) == [fd |-> sockfd[t], probe |-> <<t, round[t], nowtimes[t]>>]

\* Between the rounds nothing is left over.
Resting(t) ==
    /\ ~servaddr[t]
    /\ Waiting(t) = {}
    /\ data_vec[t] = <<>>
    /\ Len(results[t]) = round[t]

\* In a round one event waits, for the reply to the last request, and the
\* replies to all the others have been counted and kept.
Probing(t) ==
    /\ servaddr[t]
    /\ obj[t] = "live"
    /\ Waiting(t) = {LastEvent(t)}
    /\ fdtab[sockfd[t]] = <<t, round[t]>>
    /\ nowtimes[t] \in 1..times
    /\ nowrecvtimes[t] = nowtimes[t] - 1
    /\ Len(data_vec[t]) = nowtimes[t] - 1
    /\ Len(results[t]) + 1 = round[t]

RoundInv == \A t \in Tests : Resting(t) \/ Probing(t)

SocketInv ==
    \A d \in Fds : fdtab[d] # None => /\ servaddr[fdtab[d][1]]
                                      /\ sockfd[fdtab[d][1]] = d

\* The sockets hold echo replies only, and an event that is about to be handled
\* still finds one.
QueueInv ==
    /\ queue \in [Fds -> Seq(EchoReplies)]
    /\ \A e \in active : queue[e.fd] # <<>>

CalmInv ==
    /\ AnyInv
    /\ proc = "up" /\ ticking = {}
    /\ RoundInv /\ SocketInv /\ QueueInv
    /\ ReportsComplete

-----------------------------------------------------------------------------
(* Facts about descriptors, packets and the two halves of a callback *)

\* socket() returns a descriptor that is free.
LEMMA LowestFreeFree ==
    ASSUME FreeFds # {}
    PROVE  LowestFree \in Fds /\ fdtab[LowestFree] = None
<1>1. FreeFds \in SUBSET Nat
  BY PingAssumption DEF FreeFds
<1>2. \E d \in FreeFds : \A e \in FreeFds : d <= e
  BY <1>1, NatMin
<1>3. LowestFree \in FreeFds
  BY <1>2 DEF LowestFree
<1> QED BY <1>3 DEF FreeFds

\* A read event names a descriptor and a test.
LEMMA EventParts ==
    ASSUME NEW e \in ReadEvents
    PROVE  e.fd \in Fds /\ e.probe \in Probes /\ e.probe[1] \in Tests
  BY DEF ReadEvents, Probes

\* What process() keeps is an echo reply.
LEMMA AcceptedReply ==
    ASSUME NEW p \in Packets \cup {None}, Accepted(p)
    PROVE  p \in EchoReplies
<1>1. p \in Packets /\ p.kind = "reply"
  BY DEF Accepted
<1>2. p \notin [kind: {"stranger", "other"}]
  BY <1>1
<1> QED BY <1>1, <1>2 DEF Packets

\* What receive() leaves in the buffer and in the queues.
LEMMA ReceivedType ==
    ASSUME TypeOK, NEW t \in Tests
    PROVE  Received(t) \in Packets \cup {None} /\ QueueAfter(t) \in [Fds -> Seq(Packets)]
<1>1. \A d \in Fds : queue[d] # <<>> => Head(queue[d]) \in Packets /\ Tail(queue[d]) \in Seq(Packets)
  BY TailSeq DEF TypeOK
<1>2. Received(t) \in Packets \cup {None}
  BY <1>1 DEF TypeOK, Received
<1>3. QueueAfter(t) \in [Fds -> Seq(Packets)]
  BY <1>1 DEF TypeOK, QueueAfter
<1> QED BY <1>2, <1>3

\* finish(): the report and the state it leaves.
LEMMA FinishFacts ==
    ASSUME TypeOK, NEW t \in Tests, NEW n \in 1..MaxRound, NEW rd \in SUBSET ReadEvents,
           NEW po \in [Fds -> BOOLEAN], NEW q \in [Fds -> Seq(Packets)],
           NEW received \in Int, NEW data \in Seq(EchoReplies),
           Finish(t, n, rd, po, q, received, data)
    PROVE  /\ servaddr' \in [Tests -> BOOLEAN] /\ ~servaddr'[t]
           /\ \A u \in Tests : u # t => servaddr'[u] = servaddr[u]
           /\ fdtab' \in [Fds -> Rounds \cup {None}]
           /\ queue' \in [Fds -> Seq(Packets)]
           /\ polled' \in [Fds -> BOOLEAN]
           /\ reading' = rd
           /\ data_vec' \in [Tests -> Seq(EchoReplies)]
           /\ results' \in [Tests -> Seq(Reports)]
           /\ UNCHANGED <<nowtimes, inair, misread>>
<1>1. /\ servaddr' = [servaddr EXCEPT ![t] = FALSE]
      /\ reading' = rd
      /\ data_vec' = [data_vec EXCEPT ![t] = <<>>]
      /\ UNCHANGED <<nowtimes, inair, misread>>
  BY DEF Finish, LeftData
<1>2. /\ fdtab' \in [Fds -> Rounds \cup {None}]
      /\ queue' \in [Fds -> Seq(Packets)]
      /\ polled' \in [Fds -> BOOLEAN]
  BY DEF Finish, Close, TypeOK
<1> DEFINE r == [round |-> <<t, n>>, transmitted |-> nowtimes[t],
                 received |-> received, data |-> data]
<1>3. r \in Reports
  BY DEF TypeOK, Reports, Rounds
<1>4. results' = [results EXCEPT ![t] = Append(@, r)]
  BY DEF Finish
<1> HIDE DEF r
<1>5. results' \in [Tests -> Seq(Reports)]
  BY <1>3, <1>4 DEF TypeOK
<1>6. /\ servaddr' \in [Tests -> BOOLEAN] /\ ~servaddr'[t]
      /\ \A u \in Tests : u # t => servaddr'[u] = servaddr[u]
      /\ data_vec' \in [Tests -> Seq(EchoReplies)]
  BY <1>1 DEF TypeOK
<1> QED BY <1>1, <1>2, <1>5, <1>6

\* probe(): at most one request more.
LEMMA ProbeFacts ==
    ASSUME TypeOK, NEW t \in Tests, NEW n \in 1..MaxRound, NEW k \in Nat, NEW d \in Fds,
           NEW rd \in SUBSET ReadEvents, NEW po \in [Fds -> BOOLEAN],
           probe(t, n, k, d, rd, po)
    PROVE  /\ nowtimes' \in [Tests -> Nat] /\ nowtimes'[t] <= k + 1
           /\ \A u \in Tests : u # t => nowtimes'[u] = nowtimes[u]
           /\ rd \subseteq reading' /\ reading' \subseteq ReadEvents
           /\ polled' \in [Fds -> BOOLEAN]
           /\ inair' \subseteq Probes
<1>1. CASE Sent(t, n, k, d, rd, po)
  <2>1. <<t, n, k + 1>> \in Probes
    BY DEF Probes
  <2>2. [fd |-> d, probe |-> <<t, n, k + 1>>] \in ReadEvents
    BY <2>1 DEF ReadEvents
  <2>3. PolledAfterAdd(rd, po, d) \in [Fds -> BOOLEAN]
    BY DEF PolledAfterAdd
  <2>4. /\ reading' = rd \cup {[fd |-> d, probe |-> <<t, n, k + 1>>]}
        /\ polled' = PolledAfterAdd(rd, po, d)
        /\ inair' = inair \cup {<<t, n, k + 1>>}
        /\ nowtimes' = [nowtimes EXCEPT ![t] = k + 1]
        /\ inair \subseteq Probes /\ nowtimes \in [Tests -> Nat]
    BY <1>1 DEF Sent, TypeOK
  <2>5. /\ rd \subseteq reading' /\ reading' \subseteq ReadEvents
        /\ inair' \subseteq Probes
    BY <2>1, <2>2, <2>4
  <2>6. /\ nowtimes' \in [Tests -> Nat] /\ nowtimes'[t] <= k + 1
        /\ \A u \in Tests : u # t => nowtimes'[u] = nowtimes[u]
    BY <2>4
  <2> QED BY <2>3, <2>4, <2>5, <2>6
<1>2. CASE NotSent(t, k, rd, po)
  BY <1>2 DEF NotSent, TypeOK
<1> QED BY <1>1, <1>2 DEF probe

-----------------------------------------------------------------------------
(* Under any environment *)

LEMMA InitAny == Init => AnyInv
<1> SUFFICES ASSUME Init PROVE AnyInv
  OBVIOUS
<1>1. TypeOK
  <2>1. /\ servaddr \in [Tests -> BOOLEAN]
        /\ polled \in [Fds -> BOOLEAN]
    BY DEF Init
  <2>2. /\ data_vec \in [Tests -> Seq(EchoReplies)]
        /\ queue \in [Fds -> Seq(Packets)]
        /\ results \in [Tests -> Seq(Reports)]
    BY DEF Init
  <2>3. /\ round \in [Tests -> 0..MaxRound] /\ nowtimes \in [Tests -> Nat]
        /\ misread \in [Tests -> Nat] /\ sockfd \in [Tests -> Fds \cup {-1}]
    BY PingAssumption DEF Init
  <2>4. nowrecvtimes \in [Tests -> Int]
    BY PingAssumption DEF Init
  <2> QED BY <2>1, <2>2, <2>3, <2>4 DEF Init, TypeOK
<1>2. AddrInv /\ NeverMoreThanTimes
  BY PingAssumption DEF Init, AddrInv, NeverMoreThanTimes
<1> QED BY <1>1, <1>2 DEF AnyInv

\* The first conjuncts of TypeOK, when a round starts.
LEMMA RoundCounted ==
    ASSUME TypeOK, NEW t \in Tests, RoundDue(t), round' = [round EXCEPT ![t] = @ + 1]
    PROVE  /\ round' \in [Tests -> 0..MaxRound]
           /\ NextRound(t) \in 1..MaxRound /\ round'[t] = NextRound(t)
           /\ \A u \in Tests : u # t => round'[u] = round[u]
           /\ active = {}
  BY PingAssumption DEF TypeOK, RoundDue, NextRound

LEMMA RunAny == ASSUME AnyInv, NEW t \in Tests, Run(t) PROVE AnyInv'
<1> DEFINE d == LowestFree
           n == NextRound(t)
<1>1. /\ TypeOK /\ RoundDue(t) /\ FreeFds # {}
      /\ round' = [round EXCEPT ![t] = @ + 1]
      /\ sockfd' = [sockfd EXCEPT ![t] = d]
      /\ servaddr' = [servaddr EXCEPT ![t] = TRUE]
      /\ fdtab' = [fdtab EXCEPT ![d] = <<t, n>>]
      /\ nowrecvtimes' = [nowrecvtimes EXCEPT ![t] = 0]
      /\ recvbuf' = [recvbuf EXCEPT ![t] = None]
      /\ misread' = [misread EXCEPT ![t] = 0]
      /\ UNCHANGED <<proc, obj, interval, queue, active, data_vec, results>>
  BY DEF AnyInv, Run, Resolve
<1>2. d \in Fds
  BY <1>1, LowestFreeFree
<1>3. /\ round' \in [Tests -> 0..MaxRound] /\ n \in 1..MaxRound /\ round'[t] = n
      /\ \A u \in Tests : u # t => round'[u] = round[u]
      /\ active = {}
  BY <1>1, RoundCounted
<1>4. <<t, n>> \in Rounds
  BY <1>3 DEF Rounds
<1>5. /\ nowtimes' \in [Tests -> Nat] /\ nowtimes'[t] <= 1
      /\ \A u \in Tests : u # t => nowtimes'[u] = nowtimes[u]
      /\ reading' \subseteq ReadEvents
      /\ polled' \in [Fds -> BOOLEAN]
      /\ inair' \subseteq Probes
      /\ ticking' \subseteq Rounds
  <2>1. CASE interval[t]
    <3>1. /\ ticking' = ticking \cup {<<t, n>>} /\ nowtimes' = [nowtimes EXCEPT ![t] = 0]
          /\ UNCHANGED <<reading, polled, inair>>
      BY <2>1 DEF Run
    <3>2. /\ nowtimes \in [Tests -> Nat] /\ ticking \subseteq Rounds
          /\ reading \subseteq ReadEvents /\ polled \in [Fds -> BOOLEAN] /\ inair \subseteq Probes
      BY <1>1 DEF TypeOK
    <3> QED BY <1>4, <3>1, <3>2
  <2>2. CASE ~interval[t]
    <3>1. probe(t, n, 0, d, reading, polled) /\ UNCHANGED ticking
      BY <2>2 DEF Run
    <3>2. reading \in SUBSET ReadEvents /\ polled \in [Fds -> BOOLEAN] /\ ticking \subseteq Rounds
      BY <1>1 DEF TypeOK
    <3> HIDE DEF d, n
    <3>3. /\ nowtimes' \in [Tests -> Nat] /\ nowtimes'[t] <= 0 + 1
          /\ \A u \in Tests : u # t => nowtimes'[u] = nowtimes[u]
          /\ reading' \subseteq ReadEvents
          /\ polled' \in [Fds -> BOOLEAN]
          /\ inair' \subseteq Probes
      BY <1>1, <1>2, <1>3, <3>1, <3>2, ProbeFacts
    <3> QED BY <3>1, <3>2, <3>3
  <2> QED BY <2>1, <2>2
<1> HIDE DEF d, n
<1>6. TypeOK'
  <2>1. servaddr' \in [Tests -> BOOLEAN]
    BY <1>1 DEF TypeOK
  <2>2. /\ sockfd' \in [Tests -> Fds \cup {-1}]
        /\ fdtab' \in [Fds -> Rounds \cup {None}]
        /\ recvbuf' \in [Tests -> Packets \cup {None}]
    BY <1>1, <1>2, <1>4 DEF TypeOK
  <2>3. nowrecvtimes' \in [Tests -> Int] /\ misread' \in [Tests -> Nat]
    BY <1>1 DEF TypeOK
  <2> QED BY <1>1, <1>3, <1>5, <2>1, <2>2, <2>3 DEF TypeOK
<1>7. AddrInv'
  <2> SUFFICES ASSUME NEW u \in Tests, servaddr'[u]
               PROVE  sockfd'[u] \in Fds /\ round'[u] \in 1..MaxRound
    BY DEF AddrInv
  <2>1. CASE u = t
    BY <1>1, <1>2, <1>3, <2>1 DEF TypeOK
  <2>2. CASE u # t
    BY <1>1, <1>3, <2>2 DEF TypeOK, AnyInv, AddrInv
  <2> QED BY <2>1, <2>2
<1>8. NeverMoreThanTimes'
  <2> SUFFICES ASSUME NEW u \in Tests PROVE nowtimes'[u] <= times + misread'[u]
    BY DEF NeverMoreThanTimes
  <2>1. CASE u = t
    <3>1. misread'[t] = 0
      BY <1>1 DEF TypeOK
    <3> QED BY <1>5, <2>1, <3>1, PingAssumption
  <2>2. CASE u # t
    <3>1. misread'[u] = misread[u] /\ nowtimes'[u] = nowtimes[u]
      BY <1>1, <1>5, <2>2 DEF TypeOK
    <3> QED BY <3>1 DEF AnyInv, NeverMoreThanTimes
  <2> QED BY <2>1, <2>2
<1> QED BY <1>6, <1>7, <1>8 DEF AnyInv

LEMMA RunInitFailsAny == ASSUME AnyInv, NEW t \in Tests, RunInitFails(t) PROVE AnyInv'
<1> DEFINE n == NextRound(t)
<1>1. /\ TypeOK /\ RoundDue(t)
      /\ round' = [round EXCEPT ![t] = @ + 1]
      /\ \E d \in FailedSocket : sockfd' = [sockfd EXCEPT ![t] = d]
      /\ Finish(t, n, reading, polled, queue, nowrecvtimes[t], data_vec[t])
      /\ ticking' = ticking \cup {<<t, n>>}
      /\ UNCHANGED <<proc, obj, interval, nowrecvtimes, recvbuf, active>>
  BY DEF AnyInv, RunInitFails
<1>2. FailedSocket \subseteq Fds \cup {-1}
  BY LowestFreeFree DEF FailedSocket
<1>3. /\ sockfd' \in [Tests -> Fds \cup {-1}]
      /\ \A u \in Tests : u # t => sockfd'[u] = sockfd[u]
  BY <1>1, <1>2 DEF TypeOK
<1>4. /\ round' \in [Tests -> 0..MaxRound] /\ n \in 1..MaxRound
      /\ \A u \in Tests : u # t => round'[u] = round[u]
      /\ active = {}
  BY <1>1, RoundCounted
<1>5. <<t, n>> \in Rounds
  BY <1>4 DEF Rounds
<1>6. /\ reading \in SUBSET ReadEvents /\ polled \in [Fds -> BOOLEAN]
      /\ queue \in [Fds -> Seq(Packets)] /\ nowrecvtimes[t] \in Int
      /\ data_vec[t] \in Seq(EchoReplies)
  BY <1>1 DEF TypeOK
<1> HIDE DEF n
<1>7. /\ servaddr' \in [Tests -> BOOLEAN] /\ ~servaddr'[t]
      /\ \A u \in Tests : u # t => servaddr'[u] = servaddr[u]
      /\ fdtab' \in [Fds -> Rounds \cup {None}]
      /\ queue' \in [Fds -> Seq(Packets)]
      /\ polled' \in [Fds -> BOOLEAN]
      /\ reading' = reading
      /\ data_vec' \in [Tests -> Seq(EchoReplies)]
      /\ results' \in [Tests -> Seq(Reports)]
      /\ UNCHANGED <<nowtimes, inair, misread>>
  BY <1>1, <1>4, <1>6, FinishFacts
<1>8. TypeOK'
  BY <1>1, <1>3, <1>4, <1>5, <1>7 DEF TypeOK
<1>9. AddrInv'
  BY <1>3, <1>4, <1>7 DEF AnyInv, AddrInv
<1>10. NeverMoreThanTimes'
  BY <1>7 DEF AnyInv, NeverMoreThanTimes
<1> QED BY <1>8, <1>9, <1>10 DEF AnyInv

LEMMA TickFinishAny == ASSUME AnyInv, NEW r \in ticking, TickFinish(r) PROVE AnyInv'
<1> DEFINE t == r[1]
<1>1. /\ TypeOK /\ t \in Tests /\ r[2] \in 1..MaxRound
      /\ Finish(t, r[2], reading, polled, queue, nowrecvtimes[t], data_vec[t])
      /\ ticking' = ticking \ {r}
      /\ UNCHANGED <<proc, obj, interval, round, nowrecvtimes, recvbuf, active, sockfd>>
  BY DEF AnyInv, TypeOK, Rounds, TickFinish
<1>2. /\ reading \in SUBSET ReadEvents /\ polled \in [Fds -> BOOLEAN]
      /\ queue \in [Fds -> Seq(Packets)] /\ nowrecvtimes[t] \in Int
      /\ data_vec[t] \in Seq(EchoReplies)
  BY <1>1 DEF TypeOK
<1> HIDE DEF t
<1>3. /\ servaddr' \in [Tests -> BOOLEAN] /\ ~servaddr'[t]
      /\ \A u \in Tests : u # t => servaddr'[u] = servaddr[u]
      /\ fdtab' \in [Fds -> Rounds \cup {None}]
      /\ queue' \in [Fds -> Seq(Packets)]
      /\ polled' \in [Fds -> BOOLEAN]
      /\ reading' = reading
      /\ data_vec' \in [Tests -> Seq(EchoReplies)]
      /\ results' \in [Tests -> Seq(Reports)]
      /\ UNCHANGED <<nowtimes, inair, misread>>
  BY <1>1, <1>2, FinishFacts
<1>4. TypeOK'
  BY <1>1, <1>3 DEF TypeOK
<1>5. AddrInv'
  BY <1>1, <1>3 DEF AnyInv, AddrInv
<1>6. NeverMoreThanTimes'
  BY <1>3 DEF AnyInv, NeverMoreThanTimes
<1> QED BY <1>4, <1>5, <1>6 DEF AnyInv

LEMMA TickProbeAny == ASSUME AnyInv, NEW r \in ticking, TickProbe(r) PROVE AnyInv'
<1> DEFINE t == r[1]
<1>1. /\ TypeOK /\ t \in Tests /\ active = {}
      /\ ~(nowtimes[t] >= times) /\ servaddr[t]
      /\ probe(t, round[t], nowtimes[t], sockfd[t], reading, polled)
      /\ UNCHANGED <<proc, obj, interval, round, sockfd, servaddr, nowrecvtimes, recvbuf,
                     data_vec, misread, results, fdtab, queue, active, ticking>>
  BY DEF AnyInv, TypeOK, Rounds, TickProbe, TickDue, AllSent
<1> HIDE DEF t
<1>2. /\ sockfd[t] \in Fds /\ round[t] \in 1..MaxRound /\ nowtimes[t] \in Nat
      /\ reading \in SUBSET ReadEvents /\ polled \in [Fds -> BOOLEAN]
  BY <1>1 DEF TypeOK, AnyInv, AddrInv
<1>3. /\ nowtimes' \in [Tests -> Nat] /\ nowtimes'[t] <= nowtimes[t] + 1
      /\ \A u \in Tests : u # t => nowtimes'[u] = nowtimes[u]
      /\ reading' \subseteq ReadEvents
      /\ polled' \in [Fds -> BOOLEAN]
      /\ inair' \subseteq Probes
  BY <1>1, <1>2, ProbeFacts
<1>4. TypeOK'
  BY <1>1, <1>3 DEF TypeOK
<1>5. AddrInv'
  BY <1>1 DEF AnyInv, AddrInv
<1>6. NeverMoreThanTimes'
  <2> SUFFICES ASSUME NEW u \in Tests PROVE nowtimes'[u] <= times + misread[u]
    BY <1>1 DEF NeverMoreThanTimes
  <2>1. CASE u = t
    <3>1. misread[t] \in Nat /\ times \in Nat /\ nowtimes'[t] \in Nat
      BY <1>1, <1>3, PingAssumption DEF TypeOK
    <3> QED BY <1>1, <1>2, <1>3, <2>1, <3>1
  <2>2. CASE u # t
    BY <1>3, <2>2 DEF AnyInv, NeverMoreThanTimes
  <2> QED BY <2>1, <2>2
<1> QED BY <1>4, <1>5, <1>6 DEF AnyInv

\* What a read callback works on: the packet, the replies it keeps, the events
\* and the descriptors that are left when its own event is gone.
LEMMA CallbackFacts ==
    ASSUME AnyInv, NEW e \in active, servaddr[e.probe[1]]
    PROVE  LET t == e.probe[1]
               p == Received(t)
           IN  /\ t \in Tests /\ e \in ReadEvents
               /\ sockfd[t] \in Fds /\ round[t] \in 1..MaxRound /\ nowtimes[t] \in Nat
               /\ p \in Packets \cup {None}
               /\ QueueAfter(t) \in [Fds -> Seq(Packets)]
               /\ (IF Accepted(p) THEN Append(data_vec[t], p) ELSE data_vec[t]) \in Seq(EchoReplies)
               /\ EventsAfterDel(e) \in SUBSET ReadEvents
               /\ active \ {e} \subseteq EventsAfterDel(e)
               /\ PolledAfterDel(e) \in [Fds -> BOOLEAN]
<1> DEFINE t == e.probe[1]
           p == Received(t)
<1>1. TypeOK /\ e \in ReadEvents /\ reading \in SUBSET ReadEvents /\ active \subseteq reading
  BY DEF AnyInv, TypeOK
<1>2. t \in Tests
  BY <1>1, EventParts
<1>3. sockfd[t] \in Fds /\ round[t] \in 1..MaxRound /\ nowtimes[t] \in Nat
  BY <1>1, <1>2 DEF AnyInv, AddrInv, TypeOK
<1>4. p \in Packets \cup {None} /\ QueueAfter(t) \in [Fds -> Seq(Packets)]
  BY <1>1, <1>2, ReceivedType
<1>5. data_vec[t] \in Seq(EchoReplies)
  BY <1>1, <1>2 DEF TypeOK
<1> HIDE DEF t, p
<1>6. (IF Accepted(p) THEN Append(data_vec[t], p) ELSE data_vec[t]) \in Seq(EchoReplies)
  <2>1. CASE Accepted(p)
    <3>1. p \in EchoReplies
      BY <1>4, <2>1, AcceptedReply
    <3> QED BY <1>5, <2>1, <3>1
  <2>2. CASE ~Accepted(p)
    BY <1>5, <2>2
  <2> QED BY <2>1, <2>2
<1>7. EventsAfterDel(e) \in SUBSET ReadEvents /\ active \ {e} \subseteq EventsAfterDel(e)
  BY <1>1 DEF EventsAfterDel
<1>8. PolledAfterDel(e) \in [Fds -> BOOLEAN]
  <2>1. polled \in [Fds -> BOOLEAN]
    BY <1>1 DEF TypeOK
  <2> QED BY <2>1 DEF PolledAfterDel
<1> QED BY <1>1, <1>2, <1>3, <1>4, <1>6, <1>7, <1>8 DEF t, p

LEMMA ReadCallbackAny == ASSUME AnyInv, NEW e \in active, ReadCallback(e) PROVE AnyInv'
<1> DEFINE t == e.probe[1]
           p == Received(t)
           data == IF Accepted(p) THEN Append(data_vec[t], p) ELSE data_vec[t]
           rd == EventsAfterDel(e)
           po == PolledAfterDel(e)
           q == QueueAfter(t)
<1>1. /\ servaddr[t]
      /\ active' = active \ {e}
      /\ recvbuf' = [recvbuf EXCEPT ![t] = p]
      /\ nowrecvtimes' = [nowrecvtimes EXCEPT ![t] = @ + 1]
      /\ UNCHANGED <<sockfd, proc, obj, interval, round, ticking>>
  BY DEF ReadCallback
<1>2. /\ t \in Tests /\ sockfd[t] \in Fds /\ round[t] \in 1..MaxRound /\ nowtimes[t] \in Nat
      /\ p \in Packets \cup {None}
      /\ q \in [Fds -> Seq(Packets)]
      /\ data \in Seq(EchoReplies)
      /\ rd \in SUBSET ReadEvents
      /\ active \ {e} \subseteq rd
      /\ po \in [Fds -> BOOLEAN]
  BY <1>1, CallbackFacts
<1>3. \/ /\ "LAST" \in Outcomes(t, p)
         /\ Finish(t, round[t], rd, po, q, nowrecvtimes'[t], data)
      \/ /\ "NOLAST" \in Outcomes(t, p)
         /\ data_vec' = [data_vec EXCEPT ![t] = data]
         /\ queue' = q
         /\ probe(t, round[t], nowtimes[t], sockfd[t], rd, po)
         /\ misread' = [misread EXCEPT ![t] = IF Accepted(p) THEN @ ELSE @ + 1]
         /\ UNCHANGED <<servaddr, fdtab, results>>
      \/ /\ data_vec' = [data_vec EXCEPT ![t] = data]
         /\ queue' = q
         /\ reading' = rd
         /\ polled' = po
         /\ UNCHANGED <<servaddr, fdtab, results, nowtimes, inair, misread>>
  BY DEF ReadCallback
<1>4. TypeOK
  BY DEF AnyInv
<1> HIDE DEF t, p, data, rd, po, q
<1>5. /\ recvbuf' \in [Tests -> Packets \cup {None}]
      /\ nowrecvtimes' \in [Tests -> Int] /\ nowrecvtimes'[t] \in Int
  BY <1>1, <1>2, <1>4 DEF TypeOK
<1>6. CASE Finish(t, round[t], rd, po, q, nowrecvtimes'[t], data)
  <2>1. /\ servaddr' \in [Tests -> BOOLEAN] /\ ~servaddr'[t]
        /\ \A u \in Tests : u # t => servaddr'[u] = servaddr[u]
        /\ fdtab' \in [Fds -> Rounds \cup {None}]
        /\ queue' \in [Fds -> Seq(Packets)]
        /\ polled' \in [Fds -> BOOLEAN]
        /\ reading' = rd
        /\ data_vec' \in [Tests -> Seq(EchoReplies)]
        /\ results' \in [Tests -> Seq(Reports)]
        /\ UNCHANGED <<nowtimes, inair, misread>>
    BY <1>2, <1>4, <1>5, <1>6, FinishFacts
  <2>2. TypeOK'
    BY <1>1, <1>2, <1>4, <1>5, <2>1 DEF TypeOK
  <2>3. AddrInv'
    BY <1>1, <2>1 DEF AnyInv, AddrInv
  <2>4. NeverMoreThanTimes'
    BY <2>1 DEF AnyInv, NeverMoreThanTimes
  <2> QED BY <2>2, <2>3, <2>4 DEF AnyInv
<1>7. CASE /\ "NOLAST" \in Outcomes(t, p)
           /\ data_vec' = [data_vec EXCEPT ![t] = data]
           /\ queue' = q
           /\ probe(t, round[t], nowtimes[t], sockfd[t], rd, po)
           /\ misread' = [misread EXCEPT ![t] = IF Accepted(p) THEN @ ELSE @ + 1]
           /\ UNCHANGED <<servaddr, fdtab, results>>
  <2>1. /\ nowtimes' \in [Tests -> Nat] /\ nowtimes'[t] <= nowtimes[t] + 1
        /\ \A u \in Tests : u # t => nowtimes'[u] = nowtimes[u]
        /\ rd \subseteq reading' /\ reading' \subseteq ReadEvents
        /\ polled' \in [Fds -> BOOLEAN]
        /\ inair' \subseteq Probes
    BY <1>2, <1>4, <1>7, ProbeFacts
  <2>2. /\ misread' \in [Tests -> Nat] /\ \A u \in Tests : u # t => misread'[u] = misread[u]
        /\ misread'[t] = IF Accepted(p) THEN misread[t] ELSE misread[t] + 1
        /\ misread[t] \in Nat
    BY <1>2, <1>4, <1>7 DEF TypeOK
  <2>3. data_vec' \in [Tests -> Seq(EchoReplies)]
    BY <1>2, <1>4, <1>7 DEF TypeOK
  <2>4. active' \subseteq reading'
    BY <1>1, <1>2, <2>1
  <2>5. TypeOK'
    BY <1>1, <1>2, <1>4, <1>5, <1>7, <2>1, <2>2, <2>3, <2>4 DEF TypeOK
  <2>6. AddrInv'
    BY <1>1, <1>7 DEF AnyInv, AddrInv
  <2>7. Accepted(p) => nowtimes[t] < times
    <3> SUFFICES ASSUME Accepted(p), ~(nowtimes[t] < times) PROVE FALSE
      OBVIOUS
    <3>1. nowtimes[t] >= times
      BY <1>2, PingAssumption
    <3>2. p.kind # "other"
      BY DEF Accepted
    <3>3. Outcomes(t, p) = {"LAST"}
      BY <3>1, <3>2 DEF Outcomes
    <3> QED BY <1>7, <3>3
  <2>8. NeverMoreThanTimes'
    <3> SUFFICES ASSUME NEW u \in Tests PROVE nowtimes'[u] <= times + misread'[u]
      BY DEF NeverMoreThanTimes
    <3>1. CASE u # t
      BY <2>1, <2>2, <3>1 DEF AnyInv, NeverMoreThanTimes
    <3>2. CASE u = t /\ Accepted(p)
      BY <1>2, <2>1, <2>2, <2>7, <3>2, PingAssumption
    <3>3. CASE u = t /\ ~Accepted(p)
      <4>1. nowtimes[t] <= times + misread[t]
        BY <1>2 DEF AnyInv, NeverMoreThanTimes
      <4> QED BY <1>2, <2>1, <2>2, <3>3, <4>1, PingAssumption
    <3> QED BY <3>1, <3>2, <3>3
  <2> QED BY <2>5, <2>6, <2>8 DEF AnyInv
<1>8. CASE /\ data_vec' = [data_vec EXCEPT ![t] = data]
           /\ queue' = q
           /\ reading' = rd
           /\ polled' = po
           /\ UNCHANGED <<servaddr, fdtab, results, nowtimes, inair, misread>>
  <2>1. data_vec' \in [Tests -> Seq(EchoReplies)]
    BY <1>2, <1>4, <1>8 DEF TypeOK
  <2>2. TypeOK'
    BY <1>1, <1>2, <1>4, <1>5, <1>8, <2>1 DEF TypeOK
  <2>3. AddrInv' /\ NeverMoreThanTimes'
    BY <1>1, <1>8 DEF AnyInv, AddrInv, NeverMoreThanTimes
  <2> QED BY <2>2, <2>3 DEF AnyInv
<1> QED BY <1>3, <1>6, <1>7, <1>8

LEMMA DeliverAny ==
    ASSUME AnyInv, NEW p \in Packets, Deliver(p), inair' \subseteq Probes,
           UNCHANGED <<proc, testVars, fdtab, polled, reading, active, ticking>>
    PROVE  AnyInv'
<1>1. TypeOK /\ UNCHANGED <<proc, obj, interval, round, sockfd, servaddr, nowtimes, nowrecvtimes,
                           recvbuf, data_vec, misread, results, fdtab, polled, reading,
                           active, ticking>>
  BY DEF AnyInv, testVars
<1>2. queue' \in [Fds -> Seq(Packets)]
  BY <1>1 DEF Deliver, TypeOK
<1>3. TypeOK'
  BY <1>1, <1>2 DEF TypeOK
<1>4. AddrInv' /\ NeverMoreThanTimes'
  BY <1>1 DEF AnyInv, AddrInv, NeverMoreThanTimes
<1> QED BY <1>3, <1>4 DEF AnyInv

LEMMA CrashAny == AnyInv /\ Crash => AnyInv'
<1> SUFFICES ASSUME AnyInv, Crash PROVE AnyInv'
  OBVIOUS
<1>1. TypeOK'
  BY DEF AnyInv, TypeOK, Crash, testVars, loopVars
<1>2. AddrInv' /\ NeverMoreThanTimes'
  BY DEF AnyInv, AddrInv, NeverMoreThanTimes, Crash, testVars, loopVars
<1> QED BY <1>1, <1>2 DEF AnyInv

LEMMA PollAny == AnyInv /\ Poll => AnyInv'
<1> SUFFICES ASSUME AnyInv, Poll PROVE AnyInv'
  OBVIOUS
<1>1. TypeOK'
  <2>1. active' \subseteq reading
    BY DEF Poll
  <2> QED BY <2>1 DEF AnyInv, TypeOK, Poll, testVars
<1>2. AddrInv' /\ NeverMoreThanTimes'
  BY DEF AnyInv, AddrInv, NeverMoreThanTimes, Poll, testVars
<1> QED BY <1>1, <1>2 DEF AnyInv

LEMMA DeleteAny == ASSUME AnyInv, NEW t \in Tests, DeleteTest(t) PROVE AnyInv'
<1>1. TypeOK'
  BY DEF AnyInv, TypeOK, DeleteTest, loopVars
<1>2. AddrInv' /\ NeverMoreThanTimes'
  BY DEF AnyInv, AddrInv, NeverMoreThanTimes, DeleteTest
<1> QED BY <1>1, <1>2 DEF AnyInv

LEMMA NextAny == AnyInv /\ [Next]_vars => AnyInv'
<1> SUFFICES ASSUME AnyInv, [Next]_vars PROVE AnyInv'
  OBVIOUS
<1>1. ASSUME NEW t \in Tests, Run(t) \/ RunInitFails(t) \/ DeleteTest(t) PROVE AnyInv'
  BY <1>1, RunAny, RunInitFailsAny, DeleteAny
<1>2. ASSUME NEW t \in Tests, RunInitFailsNoInterval(t) PROVE AnyInv'
  BY <1>2, CrashAny DEF RunInitFailsNoInterval
<1>3. ASSUME NEW r \in ticking, TickFinish(r) \/ TickProbe(r) PROVE AnyInv'
  BY <1>3, TickFinishAny, TickProbeAny
<1>4. ASSUME NEW r \in ticking, TickNullAddr(r) PROVE AnyInv'
  BY <1>4, CrashAny DEF TickNullAddr
<1>5. CASE Poll
  BY <1>5, PollAny
<1>6. ASSUME NEW e \in active, ReadCallback(e) PROVE AnyInv'
  BY <1>6, ReadCallbackAny
<1>7. ASSUME NEW e \in active, ReadNullAddr(e) PROVE AnyInv'
  BY <1>7, CrashAny DEF ReadNullAddr
<1>8. CASE CallbackOfFreed
  BY <1>8, CrashAny DEF CallbackOfFreed
<1>9. ASSUME NEW x \in inair, Reply(x) PROVE AnyInv'
  <2>1. x \in Probes /\ inair \subseteq Probes
    BY DEF AnyInv, TypeOK
  <2>2. [kind |-> "reply", of |-> x] \in Packets
    BY <2>1 DEF Packets, EchoReplies
  <2>3. /\ Deliver([kind |-> "reply", of |-> x]) /\ inair' \subseteq Probes
        /\ UNCHANGED <<proc, testVars, fdtab, polled, reading, active, ticking>>
    BY <1>9, <2>1 DEF Reply
  <2> QED BY <2>2, <2>3, DeliverAny
<1>10. ASSUME NEW kind \in {"stranger", "other"}, Stray(kind) PROVE AnyInv'
  <2>1. [kind |-> kind] \in Packets
    BY DEF Packets
  <2>2. /\ Deliver([kind |-> kind]) /\ inair' \subseteq Probes
        /\ UNCHANGED <<proc, testVars, fdtab, polled, reading, active, ticking>>
    BY <1>10 DEF Stray, AnyInv, TypeOK
  <2> QED BY <2>1, <2>2, DeliverAny
<1>11. CASE UNCHANGED vars
  <2>1. TypeOK'
    BY <1>11 DEF AnyInv, TypeOK, vars, testVars, loopVars
  <2>2. AddrInv' /\ NeverMoreThanTimes'
    BY <1>11 DEF AnyInv, AddrInv, NeverMoreThanTimes, vars, testVars, loopVars
  <2> QED BY <2>1, <2>2 DEF AnyInv
<1> QED BY <1>1, <1>2, <1>3, <1>4, <1>5, <1>6, <1>7, <1>8, <1>9, <1>10, <1>11 DEF Next

\* Whatever the environment does, the invariant holds in every reachable state.
THEOREM AnyInvariance == Spec => []AnyInv
<1>1. Init => AnyInv
  BY InitAny
<1>2. AnyInv /\ [Next]_vars => AnyInv'
  BY NextAny
<1> QED BY <1>1, <1>2, PTL DEF Spec

\* Also with failing calls, strange packets, rounds that overlap and tests that
\* are deleted in a round, every member has a value of its type; in particular
\* no request is sent on the descriptor -1.
THEOREM TypeCorrect == Spec => []TypeOK
<1>1. AnyInv => TypeOK
  BY DEF AnyInv
<1> QED BY <1>1, AnyInvariance, PTL

\* In the same generality, a round sends no more than its number of requests,
\* apart from one for each packet that process() returned nothing for.
THEOREM NeverMoreHolds == Spec => []NeverMoreThanTimes
<1>1. AnyInv => NeverMoreThanTimes
  BY DEF AnyInv
<1> QED BY <1>1, AnyInvariance, PTL

-----------------------------------------------------------------------------
(* When the tests run undisturbed *)

LEMMA InitCalm == Init => CalmInv
<1> SUFFICES ASSUME Init PROVE CalmInv
  OBVIOUS
<1>1. AnyInv
  BY InitAny
<1>2. RoundInv
  BY DEF Init, RoundInv, Resting, Waiting
<1>3. SocketInv /\ QueueInv
  BY DEF Init, SocketInv, QueueInv
<1>4. ReportsComplete
  BY DEF Init, ReportsComplete
<1> QED BY <1>1, <1>2, <1>3, <1>4 DEF CalmInv, Init

LEMMA NoInterval == ASSUME Calm, TypeOK, NEW t \in Tests PROVE ~interval[t]
<1>1. interval[t] \in Interval
  BY DEF TypeOK
<1>2. Interval = {FALSE}
  BY DEF Calm
<1>3. interval[t] \in {FALSE}
  BY <1>1, <1>2, Zenon
<1> QED BY <1>3, Zenon

\* An event that waits is that of the last request of a round under way.
LEMMA WaitingEvent ==
    ASSUME CalmInv, NEW e \in reading
    PROVE  e.probe[1] \in Tests /\ Probing(e.probe[1]) /\ e = LastEvent(e.probe[1])
<1>1. e.probe[1] \in Tests
  BY EventParts DEF CalmInv, AnyInv, TypeOK
<1>2. e \in Waiting(e.probe[1])
  BY DEF Waiting
<1>3. Probing(e.probe[1])
  BY <1>1, <1>2 DEF CalmInv, RoundInv, Resting
<1> QED BY <1>1, <1>2, <1>3 DEF Probing

\* Two rounds under way have different sockets.
LEMMA OwnSocket ==
    ASSUME CalmInv, NEW t \in Tests, NEW u \in Tests, Probing(t), Probing(u), t # u
    PROVE  sockfd[t] # sockfd[u]
  BY DEF Probing

\* A test whose round is over has no event that waits.
LEMMA NotBusy ==
    ASSUME CalmInv, NEW t \in Tests
    PROVE  /\ Busy(t) <=> Probing(t)
           /\ ~Busy(t) <=> Resting(t)
<1>1. ticking = {} /\ (Resting(t) \/ Probing(t))
  BY DEF CalmInv, RoundInv
<1>2. Busy(t) <=> Waiting(t) # {}
  BY <1>1 DEF Busy
<1>3. Resting(t) => Waiting(t) = {}
  BY DEF Resting
<1>4. Probing(t) => Waiting(t) # {}
  BY DEF Probing
<1> QED BY <1>1, <1>2, <1>3, <1>4

\* A test between two rounds finds a descriptor: each of those in use belongs
\* to another test.
LEMMA DescriptorLeft ==
    ASSUME Calm, CalmInv, NEW t \in Tests, Resting(t)
    PROVE  FreeFds # {}
<1> SUFFICES ASSUME FreeFds = {} PROVE FALSE
  OBVIOUS
<1> DEFINE T == Tests \ {t}
           owner == [d \in Fds |-> fdtab[d][1]]
<1>1. ASSUME NEW d \in Fds PROVE sockfd[fdtab[d][1]] = d /\ fdtab[d][1] \in T
  <2>1. fdtab[d] # None
    BY DEF FreeFds
  <2>2. fdtab[d] \in Rounds /\ servaddr[fdtab[d][1]] /\ sockfd[fdtab[d][1]] = d
    BY <2>1 DEF CalmInv, AnyInv, TypeOK, SocketInv
  <2>3. fdtab[d][1] \in Tests
    BY <2>2 DEF Rounds
  <2>4. fdtab[d][1] # t
    BY <2>2 DEF Resting
  <2> QED BY <2>2, <2>3, <2>4
<1>2. owner \in [Fds -> T]
  BY <1>1
<1>3. IsFiniteSet(T) /\ Cardinality(T) = Cardinality(Tests) - 1
  BY FS_RemoveElement DEF Calm
<1>4. Cardinality(T) < Cardinality(Fds)
  <2>1. Cardinality(Tests) \in Nat /\ Cardinality(Fds) \in Nat
    BY FS_CardinalityType DEF Calm
  <2> QED BY <1>3, <2>1 DEF Calm
<1>5. \E d, e \in Fds : d # e /\ owner[d] = owner[e]
  <2> HIDE DEF owner, T
  <2> QED BY <1>2, <1>3, <1>4, FS_PigeonHole DEF Calm
<1> QED BY <1>1, <1>5

\* A step leaves a test alone when it changes nothing of it.
LEMMA OthersKeep ==
    ASSUME NEW u \in Tests, Resting(u) \/ Probing(u),
           servaddr'[u] = servaddr[u], obj'[u] = obj[u], sockfd'[u] = sockfd[u],
           round'[u] = round[u], nowtimes'[u] = nowtimes[u],
           nowrecvtimes'[u] = nowrecvtimes[u], data_vec'[u] = data_vec[u],
           results'[u] = results[u], Waiting(u)' = Waiting(u),
           Probing(u) => fdtab'[sockfd[u]] = fdtab[sockfd[u]]
    PROVE  Resting(u)' \/ Probing(u)'
<1>1. LastEvent(u)' = LastEvent(u)
  BY DEF LastEvent
<1>2. CASE Resting(u)
  BY <1>2 DEF Resting
<1>3. CASE Probing(u)
  BY <1>1, <1>3 DEF Probing
<1> QED BY <1>2, <1>3

LEMMA RunCalm == ASSUME Calm, CalmInv, AnyInv', NEW t \in Tests, Run(t) PROVE CalmInv'
<1> DEFINE d == LowestFree
           n == NextRound(t)
           e == [fd |-> d, probe |-> <<t, n, 1>>]
<1>1. /\ TypeOK /\ RoundDue(t) /\ FreeFds # {} /\ obj[t] = "live" /\ ~Busy(t) /\ active = {}
      /\ round' = [round EXCEPT ![t] = @ + 1]
      /\ sockfd' = [sockfd EXCEPT ![t] = d]
      /\ servaddr' = [servaddr EXCEPT ![t] = TRUE]
      /\ fdtab' = [fdtab EXCEPT ![d] = <<t, n>>]
      /\ nowrecvtimes' = [nowrecvtimes EXCEPT ![t] = 0]
      /\ UNCHANGED <<proc, obj, interval, queue, active, data_vec, results>>
  BY DEF CalmInv, AnyInv, Run, Resolve, RoundDue, Calm
<1>2. ~interval[t]
  BY <1>1, NoInterval
<1>3. probe(t, n, 0, d, reading, polled) /\ UNCHANGED ticking
  BY <1>2 DEF Run
<1>4. Sent(t, n, 0, d, reading, polled)
  BY <1>3 DEF probe, Calm
<1>5. nowtimes' = [nowtimes EXCEPT ![t] = 1] /\ reading' = reading \cup {e}
  BY <1>4 DEF Sent
<1>6. Resting(t)
  BY <1>1, NotBusy
<1>7. d \in Fds /\ fdtab[d] = None
  BY <1>1, LowestFreeFree
<1>8. n = round[t] + 1 /\ n \in 1..MaxRound /\ <<t, n>> \in Rounds
  BY <1>1, RoundCounted DEF NextRound, Rounds
<1> HIDE DEF d, n
<1>9. /\ round'[t] = n /\ sockfd'[t] = d /\ servaddr'[t] /\ fdtab'[d] = <<t, n>>
      /\ nowrecvtimes'[t] = 0 /\ nowtimes'[t] = 1
      /\ \A u \in Tests : u # t =>
            /\ round'[u] = round[u] /\ sockfd'[u] = sockfd[u] /\ servaddr'[u] = servaddr[u]
            /\ nowrecvtimes'[u] = nowrecvtimes[u] /\ nowtimes'[u] = nowtimes[u]
      /\ \A x \in Fds : x # d => fdtab'[x] = fdtab[x]
  BY <1>1, <1>5, <1>7, <1>8 DEF TypeOK
<1>10. e.probe[1] = t
  OBVIOUS
<1> HIDE DEF e
<1>11. RoundInv'
  <2> SUFFICES ASSUME NEW u \in Tests PROVE Resting(u)' \/ Probing(u)'
    BY DEF RoundInv
  <2>1. CASE u = t
    <3>1. Waiting(t)' = {e}
      BY <1>5, <1>6, <1>10 DEF Resting, Waiting
    <3>2. LastEvent(t)' = e
      BY <1>9 DEF LastEvent, e
    <3>3. Len(results'[t]) + 1 = round'[t] /\ Len(data_vec'[t]) = 0
      BY <1>1, <1>6, <1>8, <1>9 DEF Resting
    <3>4. Probing(t)'
      BY <1>1, <1>9, <3>1, <3>2, <3>3, PingAssumption DEF Probing
    <3> QED BY <2>1, <3>4
  <2>2. CASE u # t
    <3>1. Waiting(u)' = Waiting(u)
      BY <1>5, <1>10, <2>2 DEF Waiting
    <3>2. Resting(u) \/ Probing(u)
      BY DEF CalmInv, RoundInv
    <3>3. Probing(u) => fdtab'[sockfd[u]] = fdtab[sockfd[u]]
      <4> SUFFICES ASSUME Probing(u) PROVE fdtab'[sockfd[u]] = fdtab[sockfd[u]]
        OBVIOUS
      <4>1. sockfd[u] \in Fds /\ round[u] \in 1..MaxRound /\ fdtab[sockfd[u]] = <<u, round[u]>>
        BY DEF Probing, CalmInv, AnyInv, AddrInv
      <4>2. <<u, round[u]>> \in Rounds
        BY <4>1 DEF Rounds
      <4>3. sockfd[u] # d
        BY <1>7, <4>1, <4>2, PingAssumption
      <4> QED BY <1>9, <4>1, <4>3
    <3> QED BY <1>1, <1>9, <2>2, <3>1, <3>2, <3>3, OthersKeep
  <2> QED BY <2>1, <2>2
<1>12. SocketInv'
  <2> SUFFICES ASSUME NEW x \in Fds, fdtab'[x] # None
               PROVE  servaddr'[fdtab'[x][1]] /\ sockfd'[fdtab'[x][1]] = x
    BY DEF SocketInv
  <2>1. CASE x = d
    BY <1>9, <2>1
  <2>2. CASE x # d
    <3>1. /\ fdtab'[x] = fdtab[x] /\ fdtab[x] \in Rounds
          /\ servaddr[fdtab[x][1]] /\ sockfd[fdtab[x][1]] = x
      BY <1>1, <1>9, <2>2 DEF CalmInv, SocketInv, TypeOK
    <3>2. fdtab[x][1] \in Tests /\ fdtab[x][1] # t
      BY <1>6, <3>1 DEF Rounds, Resting
    <3> QED BY <1>9, <3>1, <3>2
  <2> QED BY <2>1, <2>2
<1>13. QueueInv'
  BY <1>1 DEF CalmInv, QueueInv
<1>14. ReportsComplete'
  BY <1>1 DEF CalmInv, ReportsComplete
<1>15. proc' = "up" /\ ticking' = {}
  BY <1>1, <1>3 DEF CalmInv
<1> QED BY <1>11, <1>12, <1>13, <1>14, <1>15 DEF CalmInv

\* receive() of an event that is about to be handled finds an echo reply, which
\* process() accepts: the round ends with the last one and goes on before.
LEMMA RoundGoesOn ==
    ASSUME Calm, CalmInv, NEW e \in active
    PROVE  LET t == e.probe[1]
               p == Received(t)
           IN  /\ t \in Tests /\ Probing(t) /\ e = LastEvent(t) /\ e.fd = sockfd[t]
               /\ sockfd[t] \in Fds
               /\ p \in EchoReplies /\ Accepted(p)
               /\ Outcomes(t, p) = IF nowtimes[t] = times THEN {"LAST"} ELSE {"NOLAST"}
<1> DEFINE t == e.probe[1]
           p == Received(t)
<1>1. e \in reading /\ TypeOK
  BY DEF CalmInv, AnyInv, TypeOK
<1>2. t \in Tests /\ Probing(t) /\ e = LastEvent(t)
  BY <1>1, WaitingEvent
<1> HIDE DEF t
<1>3. e.fd = sockfd[t]
  BY <1>2 DEF LastEvent
<1>4. sockfd[t] \in Fds
  BY <1>2 DEF Probing, CalmInv, AnyInv, AddrInv
<1>5. p \in EchoReplies
  <2>1. queue[sockfd[t]] # <<>> /\ queue[sockfd[t]] \in Seq(EchoReplies)
    BY <1>3, <1>4 DEF CalmInv, QueueInv
  <2> QED BY <1>4, <2>1, TailSeq DEF Received
<1> HIDE DEF p
<1>6. p.kind = "reply" /\ p # None
  BY <1>5, PingAssumption DEF EchoReplies, Packets
<1>7. Accepted(p)
  <2>1. pid % 65536 = pid
    BY PingAssumption DEF Calm
  <2> QED BY <1>6, <2>1 DEF Accepted
<1>8. ~interval[t]
  BY <1>1, <1>2, NoInterval
<1>9. nowtimes[t] \in 1..times
  BY <1>2 DEF Probing
<1>10. Outcomes(t, p) = IF nowtimes[t] = times THEN {"LAST"} ELSE {"NOLAST"}
  <2>1. CASE nowtimes[t] = times
    <3>1. nowtimes[t] >= times /\ ~(nowtimes[t] < times)
      BY <1>9, <2>1, PingAssumption
    <3>2. Outcomes(t, p) = {"LAST"}
      BY <1>6, <1>7, <3>1 DEF Outcomes
    <3> QED BY <2>1, <3>2
  <2>2. CASE nowtimes[t] # times
    <3>1. nowtimes[t] < times /\ ~(nowtimes[t] >= times)
      BY <1>9, <2>2, PingAssumption
    <3>2. Outcomes(t, p) = {"NOLAST"}
      BY <1>6, <1>7, <1>8, <3>1 DEF Outcomes
    <3> QED BY <2>2, <3>2
  <2> QED BY <2>1, <2>2
<1> QED BY <1>2, <1>3, <1>4, <1>5, <1>7, <1>10 DEF t, p

\* The other tests, in a read callback of test t: their rounds and their
\* sockets are not touched, and their events still find a packet.
LEMMA CallbackOthers ==
    ASSUME CalmInv, NEW t \in Tests, Probing(t), NEW e \in active, e = LastEvent(t),
           active' = active \ {e},
           reading \ {e} \subseteq reading', \A x \in reading' : x \in reading \/ x.probe[1] = t,
           \A x \in Fds : x # sockfd[t] => fdtab'[x] = fdtab[x] /\ queue'[x] = queue[x],
           \A v \in Tests : v # t =>
               /\ servaddr'[v] = servaddr[v] /\ nowtimes'[v] = nowtimes[v]
               /\ nowrecvtimes'[v] = nowrecvtimes[v] /\ data_vec'[v] = data_vec[v]
               /\ results'[v] = results[v],
           UNCHANGED <<obj, sockfd, round>>
    PROVE  /\ \A u \in Tests : u # t => Resting(u)' \/ Probing(u)'
           /\ \A x \in active' : queue'[x.fd] # <<>>
<1>1. e.probe[1] = t
  BY DEF LastEvent
<1>2. ASSUME NEW u \in Tests, u # t PROVE Resting(u)' \/ Probing(u)'
  <2>1. Waiting(u)' = Waiting(u)
    BY <1>1, <1>2 DEF Waiting
  <2>2. Resting(u) \/ Probing(u)
    BY DEF CalmInv, RoundInv
  <2>3. Probing(u) => fdtab'[sockfd[u]] = fdtab[sockfd[u]]
    <3> SUFFICES ASSUME Probing(u) PROVE fdtab'[sockfd[u]] = fdtab[sockfd[u]]
      OBVIOUS
    <3>1. sockfd[u] \in Fds /\ sockfd[u] # sockfd[t]
      BY <1>2, OwnSocket DEF Probing, CalmInv, AnyInv, AddrInv
    <3> QED BY <3>1
  <2> QED BY <1>2, <2>1, <2>2, <2>3, OthersKeep
<1>3. ASSUME NEW x \in active' PROVE queue'[x.fd] # <<>>
  <2> DEFINE u == x.probe[1]
  <2>1. x \in active /\ x # e /\ x \in reading
    BY DEF CalmInv, AnyInv, TypeOK
  <2>2. u \in Tests /\ Probing(u) /\ x = LastEvent(u)
    BY <2>1, WaitingEvent
  <2> HIDE DEF u
  <2>3. x.fd = sockfd[u] /\ u # t
    BY <2>1, <2>2 DEF LastEvent
  <2>4. sockfd[u] \in Fds /\ sockfd[u] # sockfd[t]
    BY <2>2, <2>3, OwnSocket DEF Probing, CalmInv, AnyInv, AddrInv
  <2> QED BY <2>1, <2>3, <2>4 DEF CalmInv, QueueInv
<1> QED BY <1>2, <1>3

\* What is left of the queues is echo replies.
LEMMA QueueAfterReplies ==
    ASSUME CalmInv, NEW t \in Tests
    PROVE  /\ QueueAfter(t) \in [Fds -> Seq(EchoReplies)]
           /\ \A x \in Fds : x # sockfd[t] => QueueAfter(t)[x] = queue[x]
<1>1. \A d \in Fds : queue[d] \in Seq(EchoReplies)
                    /\ (queue[d] # <<>> => Tail(queue[d]) \in Seq(EchoReplies))
  BY TailSeq DEF CalmInv, QueueInv
<1> QED BY <1>1 DEF QueueAfter

LEMMA ReadCallbackCalm ==
    ASSUME Calm, CalmInv, AnyInv', NEW e \in active, ReadCallback(e)
    PROVE  CalmInv'
<1> DEFINE t == e.probe[1]
           p == Received(t)
           data == Append(data_vec[t], p)
           rd == EventsAfterDel(e)
           po == PolledAfterDel(e)
           q == QueueAfter(t)
           d == sockfd[t]
<1>1. /\ t \in Tests /\ Probing(t) /\ e = LastEvent(t) /\ e.fd = d /\ d \in Fds
      /\ p \in EchoReplies /\ Accepted(p)
      /\ Outcomes(t, p) = IF nowtimes[t] = times THEN {"LAST"} ELSE {"NOLAST"}
  BY RoundGoesOn
<1>2. /\ TypeOK
      /\ active' = active \ {e}
      /\ nowrecvtimes' = [nowrecvtimes EXCEPT ![t] = @ + 1]
      /\ UNCHANGED <<sockfd, proc, obj, interval, round, ticking>>
  BY DEF ReadCallback, CalmInv, AnyInv
<1>3. \/ /\ "LAST" \in Outcomes(t, p)
         /\ Finish(t, round[t], rd, po, q, nowrecvtimes'[t], data)
      \/ /\ "NOLAST" \in Outcomes(t, p)
         /\ data_vec' = [data_vec EXCEPT ![t] = data]
         /\ queue' = q
         /\ probe(t, round[t], nowtimes[t], d, rd, po)
         /\ UNCHANGED <<servaddr, fdtab, results>>
      \/ Outcomes(t, p) \cap {"PROCESS", "FAIL"} # {}
  BY <1>1 DEF ReadCallback
<1>4. /\ q \in [Fds -> Seq(EchoReplies)]
      /\ \A x \in Fds : x # d => q[x] = queue[x]
  BY <1>1, QueueAfterReplies
<1>5. /\ data_vec[t] \in Seq(EchoReplies) /\ data \in Seq(EchoReplies)
      /\ Len(data) = Len(data_vec[t]) + 1
  BY <1>1, <1>2 DEF TypeOK
<1>6. /\ nowtimes[t] \in 1..times /\ Len(data_vec[t]) = nowtimes[t] - 1
      /\ nowrecvtimes[t] = nowtimes[t] - 1 /\ Len(results[t]) + 1 = round[t]
      /\ servaddr[t] /\ obj[t] = "live" /\ fdtab[d] = <<t, round[t]>>
      /\ Waiting(t) = {e} /\ round[t] \in 1..MaxRound
  BY <1>1 DEF Probing, CalmInv, AnyInv, AddrInv
<1>7. e.probe[1] = t /\ rd = reading \ {e}
  BY DEF EventsAfterDel
<1> HIDE DEF t, p, data, rd, po, q, d
<1>8. /\ Len(data) = nowtimes[t] /\ nowrecvtimes'[t] = nowtimes[t]
      /\ \A u \in Tests : u # t => nowrecvtimes'[u] = nowrecvtimes[u]
  BY <1>1, <1>2, <1>5, <1>6, PingAssumption DEF TypeOK
<1>9. proc' = "up" /\ ticking' = {}
  BY <1>2 DEF CalmInv
<1>10. CASE nowtimes[t] = times
  <2>1. Finish(t, round[t], rd, po, q, nowrecvtimes'[t], data)
    BY <1>1, <1>3, <1>10
  <2> DEFINE r == [round |-> <<t, round[t]>>, transmitted |-> nowtimes[t],
                   received |-> nowrecvtimes'[t], data |-> data]
  <2>2. /\ servaddr' = [servaddr EXCEPT ![t] = FALSE]
        /\ fdtab' = [x \in Fds |-> IF x = d THEN None ELSE fdtab[x]]
        /\ queue' = [x \in Fds |-> IF x = d THEN <<>> ELSE q[x]]
        /\ reading' = rd
        /\ data_vec' = [data_vec EXCEPT ![t] = <<>>]
        /\ results' = [results EXCEPT ![t] = Append(@, r)]
        /\ UNCHANGED <<nowtimes, inair, misread>>
    BY <1>2, <2>1 DEF Finish, Close, LeftData, d
  <2>3. /\ ~servaddr'[t] /\ data_vec'[t] = <<>> /\ results'[t] = Append(results[t], r)
        /\ \A u \in Tests : u # t => /\ servaddr'[u] = servaddr[u] /\ data_vec'[u] = data_vec[u]
                                      /\ results'[u] = results[u]
    BY <1>1, <1>2, <2>2 DEF TypeOK
  <2>4. r \in Reports
    BY <1>1, <1>2, <1>5, <1>6, <1>8, PingAssumption DEF Reports, Rounds, TypeOK
  <2>5. /\ r.transmitted = times /\ r.received = times /\ Len(r.data) = times
    BY <1>8, <1>10
  <2> HIDE DEF r
  <2>6. /\ Len(results'[t]) = Len(results[t]) + 1 /\ Len(results[t]) \in Nat
        /\ results'[t][Len(results[t]) + 1] = r
        /\ \A k \in DOMAIN results[t] : results'[t][k] = results[t][k]
        /\ \A k \in DOMAIN results'[t] : k \in DOMAIN results[t] \/ k = Len(results[t]) + 1
    BY <1>1, <1>2, <2>3, <2>4, AppendFacts DEF TypeOK
  <2>7. /\ \A x \in Fds : x # d => fdtab'[x] = fdtab[x] /\ queue'[x] = queue[x]
        /\ fdtab'[d] = None /\ queue' \in [Fds -> Seq(EchoReplies)]
    BY <1>1, <1>4, <2>2
  <2>8. /\ \A u \in Tests : u # t => Resting(u)' \/ Probing(u)'
        /\ \A x \in active' : queue'[x.fd] # <<>>
    <3>1. reading \ {e} \subseteq reading' /\ \A x \in reading' : x \in reading \/ x.probe[1] = t
      BY <1>7, <2>2
    <3>2. \A x \in Fds : x # sockfd[t] => fdtab'[x] = fdtab[x] /\ queue'[x] = queue[x]
      BY <2>7 DEF d
    <3>3. \A v \in Tests : v # t =>
              /\ servaddr'[v] = servaddr[v] /\ nowtimes'[v] = nowtimes[v]
              /\ nowrecvtimes'[v] = nowrecvtimes[v] /\ data_vec'[v] = data_vec[v]
              /\ results'[v] = results[v]
      BY <1>8, <2>2, <2>3
    <3> QED BY <1>1, <1>2, <3>1, <3>2, <3>3, CallbackOthers
  <2>9. Resting(t)'
    <3>1. Waiting(t)' = {}
      BY <1>6, <1>7, <2>2 DEF Waiting
    <3> QED BY <1>2, <1>6, <2>3, <2>6, <3>1 DEF Resting
  <2>10. RoundInv'
    BY <2>8, <2>9 DEF RoundInv
  <2>11. SocketInv'
    <3> SUFFICES ASSUME NEW x \in Fds, fdtab'[x] # None
                 PROVE  servaddr'[fdtab'[x][1]] /\ sockfd[fdtab'[x][1]] = x
      BY <1>2 DEF SocketInv
    <3>1. x # d /\ fdtab'[x] = fdtab[x]
      BY <2>7
    <3>2. fdtab[x] \in Rounds /\ servaddr[fdtab[x][1]] /\ sockfd[fdtab[x][1]] = x
      BY <1>2, <3>1 DEF CalmInv, SocketInv, TypeOK
    <3>3. fdtab[x][1] \in Tests /\ fdtab[x][1] # t
      BY <3>1, <3>2 DEF Rounds, d
    <3> QED BY <2>3, <3>1, <3>2, <3>3
  <2>12. QueueInv'
    BY <2>7, <2>8 DEF QueueInv
  <2>13. ReportsComplete'
    <3> SUFFICES ASSUME NEW u \in Tests, NEW k \in DOMAIN results'[u]
                 PROVE  /\ results'[u][k].transmitted = times
                        /\ results'[u][k].received = times
                        /\ Len(results'[u][k].data) = times
      BY DEF ReportsComplete
    <3>1. CASE u # t
      BY <2>3, <3>1 DEF CalmInv, ReportsComplete
    <3>2. CASE u = t /\ k \in DOMAIN results[t]
      BY <2>6, <3>2 DEF CalmInv, ReportsComplete
    <3>3. CASE u = t /\ k = Len(results[t]) + 1
      BY <2>5, <2>6, <3>3
    <3> QED BY <2>6, <3>1, <3>2, <3>3
  <2> QED BY <1>9, <2>10, <2>11, <2>12, <2>13 DEF CalmInv
<1>11. CASE nowtimes[t] # times
  <2>1. /\ data_vec' = [data_vec EXCEPT ![t] = data]
        /\ queue' = q
        /\ probe(t, round[t], nowtimes[t], d, rd, po)
        /\ UNCHANGED <<servaddr, fdtab, results>>
    BY <1>1, <1>3, <1>11
  <2>2. Sent(t, round[t], nowtimes[t], d, rd, po)
    BY <2>1 DEF probe, Calm
  <2> DEFINE x1 == [fd |-> d, probe |-> <<t, round[t], nowtimes[t] + 1>>]
  <2>3. /\ nowtimes' = [nowtimes EXCEPT ![t] = nowtimes[t] + 1]
        /\ reading' = (reading \ {e}) \cup {x1}
    BY <1>7, <2>2 DEF Sent
  <2>4. /\ nowtimes'[t] = nowtimes[t] + 1 /\ data_vec'[t] = data
        /\ \A u \in Tests : u # t => nowtimes'[u] = nowtimes[u] /\ data_vec'[u] = data_vec[u]
    BY <1>1, <1>2, <2>1, <2>3 DEF TypeOK
  <2>5. x1.probe[1] = t
    OBVIOUS
  <2>6. LastEvent(t)' = x1
    BY <1>2, <2>4 DEF LastEvent, d
  <2> HIDE DEF x1
  <2>7. /\ \A u \in Tests : u # t => Resting(u)' \/ Probing(u)'
        /\ \A x \in active' : queue'[x.fd] # <<>>
    <3>1. reading \ {e} \subseteq reading' /\ \A x \in reading' : x \in reading \/ x.probe[1] = t
      BY <2>3, <2>5
    <3>2. \A x \in Fds : x # sockfd[t] => fdtab'[x] = fdtab[x] /\ queue'[x] = queue[x]
      BY <1>4, <2>1 DEF d
    <3>3. \A v \in Tests : v # t =>
              /\ servaddr'[v] = servaddr[v] /\ nowtimes'[v] = nowtimes[v]
              /\ nowrecvtimes'[v] = nowrecvtimes[v] /\ data_vec'[v] = data_vec[v]
              /\ results'[v] = results[v]
      BY <1>8, <2>1, <2>4
    <3> QED BY <1>1, <1>2, <3>1, <3>2, <3>3, CallbackOthers
  <2>8. Probing(t)'
    <3>1. Waiting(t)' = {x1}
      BY <1>6, <1>7, <2>3, <2>5 DEF Waiting
    <3>2. nowtimes[t] + 1 \in 1..times
      <4>1. times \in Nat
        BY PingAssumption
      <4>2. nowtimes[t] \in 1..times /\ nowtimes[t] # times
        BY <1>6, <1>11
      <4> QED BY <4>1, <4>2
    <3>3. /\ Len(data_vec'[t]) = nowtimes'[t] - 1 /\ nowrecvtimes'[t] = nowtimes'[t] - 1
          /\ nowtimes'[t] \in 1..times
      BY <1>6, <1>8, <2>4, <3>2
    <3> QED BY <1>2, <1>6, <2>1, <2>6, <3>1, <3>3 DEF Probing, d
  <2>9. RoundInv'
    BY <2>7, <2>8 DEF RoundInv
  <2>10. SocketInv' /\ ReportsComplete'
    BY <1>2, <2>1 DEF CalmInv, SocketInv, ReportsComplete
  <2>11. QueueInv'
    BY <1>4, <2>1, <2>7 DEF QueueInv
  <2> QED BY <1>9, <2>9, <2>10, <2>11 DEF CalmInv
<1> QED BY <1>10, <1>11

LEMMA NextCalm == ASSUME Calm PROVE CalmInv /\ [Next]_vars => CalmInv'
<1> SUFFICES ASSUME CalmInv, [Next]_vars PROVE CalmInv'
  OBVIOUS
<1>1. AnyInv' /\ TypeOK /\ proc = "up" /\ ticking = {} /\ active \subseteq reading
  BY NextAny DEF CalmInv, AnyInv, TypeOK
<1>2. "initfail" \notin Env /\ "overlap" \notin Env /\ "deletebusy" \notin Env
      /\ "stranger" \notin Env /\ "other" \notin Env
  BY DEF Calm
<1>3. ASSUME NEW t \in Tests, Run(t) PROVE CalmInv'
  BY <1>1, <1>3, RunCalm
<1>4. ASSUME NEW t \in Tests, RunInitFails(t) \/ RunInitFailsNoInterval(t) PROVE CalmInv'
  <2>1. FreeFds = {} /\ ~Busy(t)
    BY <1>2, <1>4 DEF RunInitFails, RunInitFailsNoInterval, RoundDue
  <2> QED BY <2>1, NotBusy, DescriptorLeft
<1>5. ASSUME NEW t \in Tests, DeleteTest(t) PROVE CalmInv'
  <2>1. /\ ~Busy(t) /\ obj' = [obj EXCEPT ![t] = "freed"]
        /\ UNCHANGED <<proc, fdtab, queue, polled, reading, active, ticking, inair, interval,
                       round, sockfd, servaddr, nowtimes, nowrecvtimes, recvbuf, data_vec,
                       misread, results>>
    BY <1>2, <1>5 DEF DeleteTest, loopVars
  <2>2. Resting(t)
    BY <2>1, NotBusy
  <2>3. RoundInv'
    <3> SUFFICES ASSUME NEW u \in Tests PROVE Resting(u)' \/ Probing(u)'
      BY DEF RoundInv
    <3>1. Waiting(u)' = Waiting(u)
      BY <2>1 DEF Waiting
    <3>2. CASE u = t
      <4>1. Resting(t)'
        BY <2>1, <2>2 DEF Resting, Waiting
      <4> QED BY <3>2, <4>1
    <3>3. CASE u # t
      <4>1. obj'[u] = obj[u]
        BY <1>1, <2>1, <3>3 DEF TypeOK
      <4>2. Resting(u) \/ Probing(u)
        BY DEF CalmInv, RoundInv
      <4> QED BY <2>1, <3>1, <4>1, <4>2, OthersKeep
    <3> QED BY <3>2, <3>3
  <2>4. SocketInv' /\ QueueInv' /\ ReportsComplete'
    BY <2>1 DEF CalmInv, SocketInv, QueueInv, ReportsComplete
  <2> QED BY <1>1, <2>1, <2>3, <2>4 DEF CalmInv
<1>6. ASSUME NEW r \in ticking PROVE FALSE
  BY <1>1, <1>6
<1>7. CASE Poll
  <2>1. /\ active' = {e \in reading : polled[e.fd] /\ queue[e.fd] # <<>>}
        /\ UNCHANGED <<proc, obj, interval, round, sockfd, servaddr, nowtimes, nowrecvtimes,
                       recvbuf, data_vec, misread, results, fdtab, queue, polled, reading,
                       ticking, inair>>
    BY <1>7 DEF Poll, testVars
  <2>2. RoundInv'
    BY <2>1 DEF CalmInv, RoundInv, Resting, Probing, Waiting, LastEvent
  <2>3. SocketInv' /\ ReportsComplete'
    BY <2>1 DEF CalmInv, SocketInv, ReportsComplete
  <2>4. QueueInv'
    BY <2>1 DEF CalmInv, QueueInv
  <2> QED BY <1>1, <2>1, <2>2, <2>3, <2>4 DEF CalmInv
<1>8. ASSUME NEW e \in active, ReadCallback(e) PROVE CalmInv'
  BY <1>1, <1>8, ReadCallbackCalm
<1>9. ASSUME NEW e \in active, ReadNullAddr(e) PROVE CalmInv'
  BY <1>1, <1>9, WaitingEvent DEF ReadNullAddr, Probing
<1>10. CASE CallbackOfFreed
  <2>1. PICK e \in active : obj[e.probe[1]] = "freed"
    BY <1>6, <1>10 DEF CallbackOfFreed
  <2> QED BY <1>1, <2>1, WaitingEvent DEF Probing
<1>11. ASSUME NEW x \in inair, Reply(x) PROVE CalmInv'
  <2> DEFINE p == [kind |-> "reply", of |-> x]
  <2>1. p \in EchoReplies
    BY <1>1 DEF TypeOK, EchoReplies
  <2>2. /\ Deliver(p)
        /\ UNCHANGED <<proc, obj, interval, round, sockfd, servaddr, nowtimes, nowrecvtimes,
                       recvbuf, data_vec, misread, results, fdtab, polled, reading, active,
                       ticking>>
    BY <1>11 DEF Reply, testVars
  <2> HIDE DEF p
  <2>3. RoundInv'
    BY <2>2 DEF CalmInv, RoundInv, Resting, Probing, Waiting, LastEvent
  <2>4. SocketInv' /\ ReportsComplete'
    BY <2>2 DEF CalmInv, SocketInv, ReportsComplete
  <2>5. QueueInv'
    <3>1. \A d \in Fds : queue[d] \in Seq(EchoReplies)
      BY DEF CalmInv, QueueInv
    <3>2. \A d \in Fds : Append(queue[d], p) \in Seq(EchoReplies) /\ Append(queue[d], p) # <<>>
      BY <2>1, <3>1
    <3>3. queue' \in [Fds -> Seq(EchoReplies)]
      BY <2>2, <3>1, <3>2 DEF Deliver
    <3>4. \A d \in Fds : queue[d] # <<>> => queue'[d] # <<>>
      BY <2>2, <3>2 DEF Deliver
    <3>5. \A e \in active : e.fd \in Fds /\ queue[e.fd] # <<>>
      BY <1>1, EventParts DEF TypeOK, CalmInv, QueueInv
    <3> QED BY <2>2, <3>3, <3>4, <3>5 DEF QueueInv
  <2> QED BY <1>1, <2>2, <2>3, <2>4, <2>5 DEF CalmInv
<1>12. ASSUME NEW kind \in {"stranger", "other"}, Stray(kind) PROVE CalmInv'
  BY <1>2, <1>12 DEF Stray
<1>13. CASE UNCHANGED vars
  <2>1. UNCHANGED <<proc, obj, interval, round, sockfd, servaddr, nowtimes, nowrecvtimes,
                    recvbuf, data_vec, misread, results, fdtab, queue, polled, reading, active,
                    ticking, inair>>
    BY <1>13 DEF vars, testVars, loopVars
  <2>2. RoundInv'
    BY <2>1 DEF CalmInv, RoundInv, Resting, Probing, Waiting, LastEvent
  <2>3. SocketInv' /\ QueueInv' /\ ReportsComplete'
    BY <2>1 DEF CalmInv, SocketInv, QueueInv, ReportsComplete
  <2> QED BY <1>1, <2>1, <2>2, <2>3 DEF CalmInv
<1> QED BY <1>3, <1>4, <1>5, <1>6, <1>7, <1>8, <1>9, <1>10, <1>11, <1>12, <1>13 DEF Next

\* When the tests run undisturbed, the stronger invariant holds too.
THEOREM CalmInvariance == ASSUME Calm PROVE Spec => []CalmInv
<1>1. Init => CalmInv
  BY InitCalm
<1>2. CalmInv /\ [Next]_vars => CalmInv'
  BY NextCalm
<1> QED BY <1>1, <1>2, PTL DEF Spec

\* Then no callback follows the null servaddr that finish() leaves behind, or
\* uses a test that was deleted.
THEOREM NoCrashHolds == ASSUME Calm PROVE Spec => []NoCrash
<1>1. CalmInv => NoCrash
  BY DEF CalmInv, NoCrash
<1> QED BY <1>1, CalmInvariance, PTL

\* Then every round reports exactly once, when it has no events left.
THEOREM OneReportHolds == ASSUME Calm PROVE Spec => []OneReportPerRound
<1>1. CalmInv => OneReportPerRound
  <2> SUFFICES ASSUME CalmInv, NEW t \in Tests
               PROVE  Len(results[t]) + (IF Busy(t) THEN 1 ELSE 0) = round[t]
    BY DEF OneReportPerRound
  <2>1. CASE Busy(t)
    <3>1. Len(results[t]) + 1 = round[t]
      BY <2>1, NotBusy DEF Probing
    <3> QED BY <2>1, <3>1
  <2>2. CASE ~Busy(t)
    <3>1. Len(results[t]) = round[t]
      BY <2>2, NotBusy DEF Resting
    <3>2. round[t] \in Nat
      BY PingAssumption DEF CalmInv, AnyInv, TypeOK
    <3> QED BY <2>2, <3>1, <3>2
  <2> QED BY <2>1, <2>2
<1> QED BY <1>1, CalmInvariance, PTL

\* Then the open sockets are those of the rounds under way, each the one that
\* finish() will close.
THEOREM SocketsAccountedHolds == ASSUME Calm PROVE Spec => []SocketsAccounted
<1>1. CalmInv => SocketsAccounted
  <2> SUFFICES ASSUME CalmInv PROVE SocketsAccounted
    OBVIOUS
  <2>1. ASSUME NEW d \in Fds, fdtab[d] # None
        PROVE  Busy(fdtab[d][1]) /\ sockfd[fdtab[d][1]] = d
    <3>1. fdtab[d] \in Rounds /\ servaddr[fdtab[d][1]] /\ sockfd[fdtab[d][1]] = d
      BY <2>1 DEF CalmInv, AnyInv, TypeOK, SocketInv
    <3>2. fdtab[d][1] \in Tests
      BY <3>1 DEF Rounds
    <3>3. Busy(fdtab[d][1])
      BY <3>1, <3>2, NotBusy DEF Resting
    <3> QED BY <3>1, <3>3
  <2>2. ASSUME NEW t \in Tests, Busy(t) PROVE \E d \in Fds : fdtab[d] = <<t, round[t]>>
    <3>1. Probing(t)
      BY <2>2, NotBusy
    <3>2. sockfd[t] \in Fds /\ fdtab[sockfd[t]] = <<t, round[t]>>
      BY <3>1 DEF Probing, CalmInv, AnyInv, AddrInv
    <3> QED BY <3>2
  <2> QED BY <2>1, <2>2 DEF SocketsAccounted
<1> QED BY <1>1, CalmInvariance, PTL

\* Then a report is complete: as many requests, packets and replies as were
\* configured, whatever replies of other tests the round took for its own; a
\* round one of whose replies is lost does not report at all.
THEOREM ReportsCompleteHolds == ASSUME Calm PROVE Spec => []ReportsComplete
<1>1. CalmInv => ReportsComplete
  BY DEF CalmInv
<1> QED BY <1>1, CalmInvariance, PTL
=============================================================================
