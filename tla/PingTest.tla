------------------------------ MODULE PingTest ------------------------------
(***************************************************************************)
(* The ping tests of one worker (src/ping_test.cpp).  Every frenc seconds  *)
(* a test opens a raw ICMP socket and sends "times" echo requests; each    *)
(* adds a Ping_Test_event that reads one packet.  Without an interval the  *)
(* next request follows the reply; with one, a second, periodic event      *)
(* sends them.  generate_test sets no timeout for a ping test, so its read *)
(* events wait without limit and the EV_TIMEOUT branch of                  *)
(* ping_socket_callback_fn cannot be reached.                              *)
(*                                                                         *)
(* The k-th request of round n of test t is the probe <<t, n, k>>; it also *)
(* names the read event added for it and the reply to it.  A raw socket    *)
(* receives every ICMP packet of the host.                                 *)
(*                                                                         *)
(* libevent wakes all events that wait on a readable descriptor in one     *)
(* pass of its loop; "active" holds those whose callback has not run.  It  *)
(* tells epoll of a descriptor when the first event is added to it, and    *)
(* epoll forgets it when it is closed, while events that were not deleted  *)
(* stay with libevent.                                                     *)
(***************************************************************************)
EXTENDS Integers, Sequences, FiniteSets

CONSTANTS
    Tests,    \* the Ping_test objects of the worker
    times,    \* requests of a round
    Interval, \* whether "interval" may be positive: a subset of BOOLEAN
    pid,      \* the worker's process id
    HeapInts, \* what nowrecvtimes of a new object may hold
    MaxRound, \* bound on the rounds of a test
    MaxExtra, \* bound: no stray packet once a round sent times + MaxExtra requests
    QCap,     \* packets a socket holds
    Fds,      \* descriptors the worker may have open
    None,     \* no round, no packet
    Env       \* what the environment may do beyond the ordinary, see Allowed

\* loss:     a request or its reply may be lost: it stays in the air for ever
\* stranger: an echo reply for another process arrives
\* other:    an ICMP packet of another type arrives
\* sendfail: sendto() fails
\* initfail: socket() or getaddrinfo() fails
\* overlap:  a round starts before the last one has ended
\* deletebusy: DELCONF arrives before the round has ended
Allowed == {"loss", "stranger", "other", "sendfail", "initfail", "overlap", "deletebusy"}

Rounds == Tests \X (1..MaxRound)
Probes == Tests \X (1..MaxRound) \X (Nat \ {0})
EchoReplies == [kind: {"reply"}, of: Probes]
Packets == EchoReplies \cup [kind: {"stranger", "other"}]
ReadEvents == [fd: Fds, probe: Probes]
Reports == [round: Rounds, transmitted: Nat, received: Int, data: Seq(EchoReplies)]

ASSUME PingAssumption ==
    /\ times \in Nat \ {0}
    /\ Interval \subseteq BOOLEAN /\ Interval # {}
    /\ pid \in Nat
    /\ HeapInts \subseteq Int /\ HeapInts # {}
    /\ MaxRound \in Nat
    /\ MaxExtra \in Nat
    /\ QCap \in Nat \ {0}
    /\ Fds \subseteq Nat
    /\ None \notin Rounds \cup Packets
    /\ Env \subseteq Allowed

VARIABLES
    proc,         \* "up" | "crashed": the worker process
    obj,          \* obj[t]: "live" | "freed": the memory of test t
    interval,     \* interval[t]: the member is positive
    round,        \* round[t]: rounds started
    sockfd,       \* sockfd[t]: the member of test t, -1 before init()
    servaddr,     \* servaddr[t]: the member is not NULL
    nowtimes,     \* nowtimes[t]: requests sent
    nowrecvtimes, \* nowrecvtimes[t]: calls of receive()
    recvbuf,      \* recvbuf[t]: the packet in the buffer
    data_vec,     \* data_vec[t]: replies that process() accepted
    fdtab,        \* fdtab[d]: the round whose socket d is, or None
    queue,        \* queue[d]: packets that socket d holds
    polled,       \* polled[d]: epoll watches d
    reading,      \* read events that are added
    active,       \* those of them whose callback is about to run
    ticking,      \* rounds whose periodic interval event is added
    inair,        \* requests without a reply yet
    misread,      \* history: misread[t]: requests of the round that a packet
                  \* which is no echo reply has caused
    results       \* history: results[t]: the reports of test t

testVars == <<obj, interval, round, sockfd, servaddr, nowtimes, nowrecvtimes, recvbuf,
              data_vec, misread, results>>
loopVars == <<fdtab, queue, polled, reading, active, ticking>>
vars == <<proc, testVars, loopVars, inair>>

TypeOK ==
    /\ proc \in {"up", "crashed"}
    /\ obj \in [Tests -> {"live", "freed"}]
    /\ interval \in [Tests -> Interval]
    /\ round \in [Tests -> 0..MaxRound]
    /\ sockfd \in [Tests -> Fds \cup {-1}]
    /\ servaddr \in [Tests -> BOOLEAN]
    /\ nowtimes \in [Tests -> Nat]
    /\ nowrecvtimes \in [Tests -> Int]
    /\ recvbuf \in [Tests -> Packets \cup {None}]
    /\ data_vec \in [Tests -> Seq(EchoReplies)]
    /\ fdtab \in [Fds -> Rounds \cup {None}]
    /\ queue \in [Fds -> Seq(Packets)]
    /\ polled \in [Fds -> BOOLEAN]
    /\ reading \subseteq ReadEvents
    /\ active \subseteq reading
    /\ ticking \subseteq Rounds
    /\ inair \subseteq Probes
    /\ misread \in [Tests -> Nat]
    /\ results \in [Tests -> Seq(Reports)]

\* Ping_test::Ping_test, and add_test has armed the periodic event.
Init ==
    /\ proc = "up"
    /\ obj = [t \in Tests |-> "live"]
    /\ interval \in [Tests -> Interval]
    /\ round = [t \in Tests |-> 0]
    /\ sockfd = [t \in Tests |-> -1]
    /\ servaddr = [t \in Tests |-> FALSE]
    /\ nowtimes = [t \in Tests |-> 0]
    /\ nowrecvtimes \in [Tests -> HeapInts]
    /\ recvbuf = [t \in Tests |-> None]
    /\ data_vec = [t \in Tests |-> <<>>]
    /\ fdtab = [d \in Fds |-> None]
    /\ queue = [d \in Fds |-> <<>>]
    /\ polled = [d \in Fds |-> FALSE]
    /\ reading = {}
    /\ active = {}
    /\ ticking = {}
    /\ inair = {}
    /\ misread = [t \in Tests |-> 0]
    /\ results = [t \in Tests |-> <<>>]

\* A null pointer is followed, or memory that was freed is used.
Crash ==
    /\ proc' = "crashed"
    /\ UNCHANGED <<testVars, loopVars, inair>>

\* Events that wait for test t.
Waiting(t) == {e \in reading : e.probe[1] = t}
Busy(t) == Waiting(t) # {} \/ \E r \in ticking : r[1] = t
-----------------------------------------------------------------------------
(* finish and probe; rd, po and q are the events, the descriptors that epoll *)
(* watches and the socket queues, as the callback has left them so far       *)

\* Mutation: the socket stays open.
CloseNot(d, po, q) == polled' = po /\ queue' = q /\ UNCHANGED fdtab

\* close(): the socket loses its packets, and epoll forgets it.
Close(d, po, q) ==
    /\ fdtab' = [x \in Fds |-> IF x = d THEN None ELSE fdtab[x]]
    /\ queue' = [x \in Fds |-> IF x = d THEN <<>> ELSE q[x]]
    /\ polled' = [x \in Fds |-> x # d /\ po[x]]

\* Mutation: the replies of the round are kept.
KeptData(data) == data

\* data_vec.clear() at the end of finish().
LeftData(data) == <<>>

\* Ping_test::finish in round n: free the address, close the socket, report.
Finish(t, n, rd, po, q, received, data) ==
    /\ servaddr' = [servaddr EXCEPT ![t] = FALSE]
    /\ Close(sockfd'[t], po, q)
    /\ reading' = rd
    /\ results' = [results EXCEPT ![t] =
          Append(@, [round |-> <<t, n>>, transmitted |-> nowtimes[t],
                     received |-> received, data |-> data])]
    /\ data_vec' = [data_vec EXCEPT ![t] = LeftData(data)]
    /\ UNCHANGED <<nowtimes, inair, misread>>

\* event_add for a read event of descriptor d.
PolledAfterAdd(rd, po, d) ==
    IF \E e \in rd : e.fd = d THEN po ELSE [po EXCEPT ![d] = TRUE]

\* Ping_test::probe in round n, after k requests, on the open socket d.
Sent(t, n, k, d, rd, po) ==
    /\ nowtimes' = [nowtimes EXCEPT ![t] = k + 1]
    /\ reading' = rd \cup {[fd |-> d, probe |-> <<t, n, k + 1>>]}
    /\ polled' = PolledAfterAdd(rd, po, d)
    /\ inair' = inair \cup {<<t, n, k + 1>>}

NotSent(t, k, rd, po) ==
    /\ nowtimes' = [nowtimes EXCEPT ![t] = k]
    /\ reading' = rd
    /\ polled' = po
    /\ UNCHANGED inair

probe(t, n, k, d, rd, po) ==
    \/ Sent(t, n, k, d, rd, po)
    \/ "sendfail" \in Env /\ NotSent(t, k, rd, po)

-----------------------------------------------------------------------------
(* worker_timeout_callback_fn: Ping_test::run *)

FreeFds == {d \in Fds : fdtab[d] = None}
LowestFree == CHOOSE d \in FreeFds : \A e \in FreeFds : d <= e

\* The periodic event of test t fires.
RoundDue(t) ==
    /\ proc = "up"
    /\ active = {}
    /\ obj[t] = "live"
    /\ round[t] < MaxRound
    /\ "overlap" \in Env \/ ~Busy(t)

NextRound(t) == round[t] + 1

\* Mutation: the address is looked up in the first round only.
ResolveOnce(t) == servaddr' = [servaddr EXCEPT ![t] = round[t] = 0]

\* getaddrinfo() in init().
Resolve(t) == servaddr' = [servaddr EXCEPT ![t] = TRUE]

\* init() succeeds: with an interval run() adds the periodic event, without
\* it sends the first request.  data_vec is not cleared.
Run(t) ==
    /\ RoundDue(t)
    /\ FreeFds # {}
    /\ round' = [round EXCEPT ![t] = @ + 1]
    /\ sockfd' = [sockfd EXCEPT ![t] = LowestFree]
    /\ Resolve(t)
    /\ fdtab' = [fdtab EXCEPT ![LowestFree] = <<t, NextRound(t)>>]
    /\ nowrecvtimes' = [nowrecvtimes EXCEPT ![t] = 0]
    /\ recvbuf' = [recvbuf EXCEPT ![t] = None]
    /\ misread' = [misread EXCEPT ![t] = 0]
    /\ \/ /\ interval[t]
          /\ ticking' = ticking \cup {<<t, NextRound(t)>>}
          /\ nowtimes' = [nowtimes EXCEPT ![t] = 0]
          /\ UNCHANGED <<reading, polled, inair>>
       \/ /\ ~interval[t]
          /\ probe(t, NextRound(t), 0, LowestFree, reading, polled)
          /\ UNCHANGED ticking
    /\ UNCHANGED <<proc, obj, interval, queue, active, data_vec, results>>

\* sockfd after init() has failed: socket() gave -1, or it gave a descriptor
\* and getaddrinfo() failed.
FailedSocket == {-1} \cup (IF FreeFds = {} THEN {} ELSE {LowestFree})

\* init() fails: finish() reports the counts of an earlier round, and run()
\* goes on.  With an interval the periodic event is added; without, probe()
\* follows the null servaddr and what finish() had to send is lost.
RunInitFails(t) ==
    /\ RoundDue(t)
    /\ "initfail" \in Env \/ FreeFds = {}
    /\ interval[t]
    /\ round' = [round EXCEPT ![t] = @ + 1]
    /\ \E d \in FailedSocket : sockfd' = [sockfd EXCEPT ![t] = d]
    /\ Finish(t, NextRound(t), reading, polled, queue, nowrecvtimes[t], data_vec[t])
    /\ ticking' = ticking \cup {<<t, NextRound(t)>>}
    /\ UNCHANGED <<proc, obj, interval, nowrecvtimes, recvbuf, active>>

RunInitFailsNoInterval(t) ==
    /\ RoundDue(t)
    /\ "initfail" \in Env \/ FreeFds = {}
    /\ ~interval[t]
    /\ Crash

-----------------------------------------------------------------------------
(* ping_timeout_callback_fn, the interval event of round r *)

TickDue(r) == proc = "up" /\ active = {} /\ r \in ticking /\ obj[r[1]] = "live"

\* Mutation: one request more.
AllSentAfterOneMore(t) == nowtimes[t] > times

AllSent(t) == nowtimes[t] >= times

\* All requests are sent: finish.
TickFinish(r) ==
    /\ TickDue(r)
    /\ AllSent(r[1])
    /\ sockfd' = sockfd
    /\ Finish(r[1], r[2], reading, polled, queue, nowrecvtimes[r[1]], data_vec[r[1]])
    /\ ticking' = ticking \ {r}
    /\ UNCHANGED <<proc, obj, interval, round, nowrecvtimes, recvbuf, active>>

\* The next request.
TickProbe(r) ==
    /\ TickDue(r)
    /\ ~AllSent(r[1])
    /\ servaddr[r[1]]
    /\ probe(r[1], round[r[1]], nowtimes[r[1]], sockfd[r[1]], reading, polled)
    /\ UNCHANGED <<proc, obj, interval, round, sockfd, servaddr, nowrecvtimes, recvbuf,
                   data_vec, misread, results, fdtab, queue, active, ticking>>

\* The address is gone: the round has ended.
TickNullAddr(r) ==
    /\ TickDue(r)
    /\ ~AllSent(r[1])
    /\ ~servaddr[r[1]]
    /\ Crash

-----------------------------------------------------------------------------
(* ping_socket_callback_fn *)

\* libevent finds descriptors readable and queues all events that wait on
\* them.
Poll ==
    /\ proc = "up"
    /\ active = {}
    /\ active' = {e \in reading : polled[e.fd] /\ queue[e.fd] # <<>>}
    /\ active' # {}
    /\ UNCHANGED <<proc, testVars, fdtab, queue, polled, reading, ticking, inair>>

\* A read event is not persistent: it is removed before its callback runs.
EventsAfterDel(e) == reading \ {e}

PolledAfterDel(e) ==
    [polled EXCEPT ![e.fd] = @ /\ \E x \in EventsAfterDel(e) : x.fd = e.fd]

\* recvmsg() on sockfd: without a packet the buffer keeps what it held, and
\* process() takes the length -1 for a large one.
Received(t) ==
    IF sockfd[t] \in Fds /\ queue[sockfd[t]] # <<>>
    THEN Head(queue[sockfd[t]]) ELSE recvbuf[t]
QueueAfter(t) ==
    [d \in Fds |-> IF d = sockfd[t] /\ queue[d] # <<>> THEN Tail(queue[d]) ELSE queue[d]]

\* Mutation: the type is not looked at.
AcceptedAnyType(p) == p # None /\ pid % 65536 = pid

\* Mutation: icmp_id is compared in network byte order.
AcceptedSwapped(p) ==
    p # None /\ p.kind = "reply" /\ (pid % 256) * 256 + pid \div 256 = pid

\* The test of process(): an echo reply whose icmp_id, 16 bits wide and set
\* from getpid() by every ping test of the worker, equals the member pid.
Accepted(p) == p # None /\ p.kind = "reply" /\ pid % 65536 = pid

\* What process() may return.  For a packet that is no echo reply it has no
\* return statement; the build returns the ICMP type, which for a redirect
\* is the value of TEST_STATUS_NOLAST and for type 6 that of TEST_STATUS_LAST.
Outcomes(t, p) ==
    CASE Accepted(p) /\ nowtimes[t] >= times                 -> {"LAST"}
      [] Accepted(p) /\ nowtimes[t] < times /\ ~interval[t]  -> {"NOLAST"}
      [] Accepted(p) /\ nowtimes[t] < times /\ interval[t]   -> {"PROCESS"}
      [] p # None /\ p.kind = "other"                        -> {"FAIL", "NOLAST", "LAST"}
      [] OTHER                                               -> {"FAIL"}

\* receive() and process() for event e, then what the callback does with the
\* result: finish, send the next request, or nothing.
ReadCallback(e) ==
    LET t == e.probe[1]
        p == Received(t)
        data == IF Accepted(p) THEN Append(data_vec[t], p) ELSE data_vec[t]
        rd == EventsAfterDel(e)
        po == PolledAfterDel(e)
    IN  /\ proc = "up"
        /\ e \in active
        /\ obj[t] = "live"
        /\ servaddr[t]
        /\ active' = active \ {e}
        /\ recvbuf' = [recvbuf EXCEPT ![t] = p]
        /\ nowrecvtimes' = [nowrecvtimes EXCEPT ![t] = @ + 1]
        /\ sockfd' = sockfd
        /\ \/ /\ "LAST" \in Outcomes(t, p)
              /\ Finish(t, round[t], rd, po, QueueAfter(t), nowrecvtimes'[t], data)
           \/ /\ "NOLAST" \in Outcomes(t, p)
              /\ data_vec' = [data_vec EXCEPT ![t] = data]
              /\ queue' = QueueAfter(t)
              /\ probe(t, round[t], nowtimes[t], sockfd[t], rd, po)
              /\ misread' = [misread EXCEPT ![t] = IF Accepted(p) THEN @ ELSE @ + 1]
              /\ UNCHANGED <<servaddr, fdtab, results>>
           \/ /\ Outcomes(t, p) \cap {"PROCESS", "FAIL"} # {}
              /\ data_vec' = [data_vec EXCEPT ![t] = data]
              /\ queue' = QueueAfter(t)
              /\ reading' = rd
              /\ polled' = po
              /\ UNCHANGED <<servaddr, fdtab, results, nowtimes, inair, misread>>
        /\ UNCHANGED <<proc, obj, interval, round, ticking>>

\* receive() after a finish(): servaddr is null.
ReadNullAddr(e) ==
    /\ proc = "up"
    /\ e \in active
    /\ obj[e.probe[1]] = "live" /\ ~servaddr[e.probe[1]]
    /\ Crash

-----------------------------------------------------------------------------
\* delete_test removes the periodic event and frees the object.  Test has no
\* virtual destructor, so nothing of ~Ping_test runs: the socket stays open,
\* and the read and interval events keep their pointer to the object.
DeleteTest(t) ==
    /\ proc = "up"
    /\ active = {}
    /\ obj[t] = "live"
    /\ "deletebusy" \in Env \/ ~Busy(t)
    /\ obj' = [obj EXCEPT ![t] = "freed"]
    /\ UNCHANGED <<proc, loopVars, inair, interval, round, sockfd, servaddr, nowtimes,
                   nowrecvtimes, recvbuf, data_vec, misread, results>>

\* A callback for a test that was deleted.
CallbackOfFreed ==
    /\ proc = "up"
    /\ \/ \E e \in active : obj[e.probe[1]] = "freed"
       \/ active = {} /\ \E r \in ticking : obj[r[1]] = "freed"
    /\ Crash

-----------------------------------------------------------------------------
(* The network *)

\* Every open raw socket of the host gets a copy.
Deliver(p) ==
    queue' = [d \in Fds |-> IF fdtab[d] # None /\ Len(queue[d]) < QCap
                            THEN Append(queue[d], p) ELSE queue[d]]

\* A request that is lost is one whose reply never comes.
Reply(q) ==
    /\ q \in inair
    /\ inair' = inair \ {q}
    /\ Deliver([kind |-> "reply", of |-> q])
    /\ UNCHANGED <<proc, testVars, fdtab, polled, reading, active, ticking>>

Stray(kind) ==
    /\ kind \in Env
    /\ \A t \in Tests : nowtimes[t] < times + MaxExtra
    /\ \E d \in Fds : fdtab[d] # None /\ Len(queue[d]) < QCap
    /\ Deliver([kind |-> kind])
    /\ UNCHANGED <<proc, testVars, fdtab, polled, reading, active, ticking, inair>>

Next ==
    \/ \E t \in Tests : \/ Run(t) \/ RunInitFails(t) \/ RunInitFailsNoInterval(t)
                        \/ DeleteTest(t)
    \/ \E r \in ticking : TickFinish(r) \/ TickProbe(r) \/ TickNullAddr(r)
    \/ Poll
    \/ \E e \in active : ReadCallback(e) \/ ReadNullAddr(e)
    \/ CallbackOfFreed
    \/ \E q \in inair : Reply(q)
    \/ \E kind \in {"stranger", "other"} : Stray(kind)

Spec == Init /\ [][Next]_vars

\* The event loop turns, its timers fire, and a request that is not lost is
\* answered.
FairSpec ==
    /\ Spec
    /\ WF_vars(Poll)
    /\ WF_vars(\E e \in active : ReadCallback(e) \/ ReadNullAddr(e))
    /\ WF_vars(\E r \in ticking : TickFinish(r) \/ TickProbe(r) \/ TickNullAddr(r))
    /\ "loss" \in Env \/ WF_vars(\E q \in inair : Reply(q))

-----------------------------------------------------------------------------
(* Properties *)

\* No callback follows a null servaddr or uses a test that was deleted: none
\* runs for a test after finish().
NoCrash == proc = "up"

\* Every round reports once, when it has no events left, and not before.
OneReportPerRound ==
    \A t \in Tests : Len(results[t]) + (IF Busy(t) THEN 1 ELSE 0) = round[t]

\* Exactly the tests whose round is under way have a socket open, and it is
\* the one that finish() will close.
SocketsAccounted ==
    /\ \A d \in Fds : fdtab[d] # None => /\ Busy(fdtab[d][1])
                                         /\ sockfd[fdtab[d][1]] = d
    /\ \A t \in Tests : Busy(t) => \E d \in Fds : fdtab[d] = <<t, round[t]>>

\* However many events drive a round, and whichever of them ends it, it sends
\* no more than its number of requests, apart from those that process()
\* causes when it returns nothing for a packet that is no echo reply.
NeverMoreThanTimes == \A t \in Tests : nowtimes[t] <= times + misread[t]

\* On a network that loses nothing a report shows no loss: as many requests as
\* configured, as many packets counted by receive(), as many replies kept by
\* process() for the statistics, nothing left over from the round before.
ReportsComplete ==
    \A t \in Tests : \A k \in DOMAIN results[t] :
        /\ results[t][k].transmitted = times
        /\ results[t][k].received = times
        /\ Len(results[t][k].data) = times

\* Every round that was started is reported in the end.
RoundsReport ==
    \A r \in Rounds :
        round[r[1]] >= r[2] ~> \E k \in DOMAIN results[r[1]] : results[r[1]][k].round = r
=============================================================================
