------------------------------ MODULE UdpTest ------------------------------
(***************************************************************************)
(* The UDP tests of one worker (src/udp_test.cpp, and from src/worker.cpp  *)
(* worker_timeout_callback_fn, worker_icmp_cb, delete_test and the         *)
(* icmp_unreach_map).  Every frenc seconds a test opens a socket, adds a   *)
(* UDP_Test_event that waits for the timeout or for data, registers it     *)
(* under the destination address, and sends a datagram.  The round ends    *)
(* with "ok" when that event fires and with "unreachable" when the raw     *)
(* ICMP socket shows a port unreachable for the address.                   *)
(*                                                                         *)
(* The n-th round of test t is the flight <<t, n>>; it names the round's   *)
(* socket, its UDP_Test_event and the ICMP error its datagram may cause.   *)
(* The worker is one thread: every callback is one action.  A use of freed *)
(* memory can have any effect: the last step of such a behaviour may, or   *)
(* may not, close a socket and report, and leaves the state "undefined".   *)
(***************************************************************************)
EXTENDS Integers, Sequences, FiniteSets

CONSTANTS
    Tests,     \* the UDP_test objects of the worker
    addr,      \* addr[t]: host and port of test t
    Untimed,   \* tests without a positive "timeout"
    HeapAddrs, \* what servaddr of a new object may hold before init()
    MaxRound,  \* bound on the rounds of a test
    Fds,       \* descriptors the worker may have open
    None,      \* no flight
    Env        \* what the environment may do beyond the ordinary, see Allowed

\* late:       an ICMP error arrives after its own round has ended
\* stranger:   an ICMP error answers a datagram of another process
\* sockfail:   socket() fails although descriptors are free
\* overlap:    a round starts while the last one waits (timeout >= frenc)
\* deletebusy: DELCONF arrives while a round waits
Allowed == {"late", "stranger", "sockfail", "overlap", "deletebusy"}

Addrs == {addr[t] : t \in Tests} \cup HeapAddrs
Flights == Tests \X (1..MaxRound)

ASSUME UdpAssumption ==
    /\ addr \in [Tests -> Addrs]
    /\ Untimed \subseteq Tests
    /\ HeapAddrs # {}
    /\ MaxRound \in Nat
    /\ Fds \subseteq Nat
    /\ None \notin Flights
    /\ Env \subseteq Allowed

VARIABLES
    proc,             \* "up" | "undefined": the worker process
    obj,              \* obj[t]: "live" | "freed": the memory of test t
    sockfd,           \* sockfd[t]: the member of test t, -1 before init()
    servaddr,         \* servaddr[t]: the member of test t
    fdtab,            \* fdtab[d]: the flight whose socket d is, or None
    tev,              \* tev[f]: "none" | "pending" | "deleted": its UDP_Test_event
    icmp_unreach_map, \* address -> flight of the registered event, or None
    round,            \* round[t]: rounds started
    sent,             \* history: flights whose datagram was sent
    answered,         \* flights whose ICMP error was read
    results,          \* history: results[t]: what test t has reported
    heard             \* history: flights whose ICMP error was read in time

vars == <<proc, obj, sockfd, servaddr, fdtab, tev, icmp_unreach_map, round,
          sent, answered, results, heard>>

TypeOK ==
    /\ proc \in {"up", "undefined"}
    /\ obj \in [Tests -> {"live", "freed"}]
    /\ sockfd \in [Tests -> Fds \cup {-1}]
    /\ servaddr \in [Tests -> Addrs]
    /\ fdtab \in [Fds -> Flights \cup {None}]
    /\ tev \in [Flights -> {"none", "pending", "deleted"}]
    /\ icmp_unreach_map \in [Addrs -> Flights \cup {None}]
    /\ round \in [Tests -> 0..MaxRound]
    /\ sent \subseteq Flights
    /\ answered \subseteq Flights
    /\ results \in [Tests -> Seq(Flights \X {"ok", "unreachable"})]
    /\ heard \subseteq Flights

\* add_test has armed the tests; nothing has run.
Init ==
    /\ proc = "up"
    /\ obj = [t \in Tests |-> "live"]
    /\ sockfd = [t \in Tests |-> -1]
    /\ servaddr \in [Tests -> HeapAddrs]
    /\ fdtab = [d \in Fds |-> None]
    /\ tev = [f \in Flights |-> "none"]
    /\ icmp_unreach_map = [a \in Addrs |-> None]
    /\ round = [t \in Tests |-> 0]
    /\ sent = {}
    /\ answered = {}
    /\ results = [t \in Tests |-> <<>>]
    /\ heard = {}

Pending(t) == {f \in Flights : f[1] = t /\ tev[f] = "pending"}

-----------------------------------------------------------------------------
(* worker_timeout_callback_fn: UDP_test::run *)

FreeFds == {d \in Fds : fdtab[d] = None}
LowestFree == CHOOSE d \in FreeFds : \A e \in FreeFds : d <= e

\* The periodic event of test t fires.
RoundDue(t) ==
    /\ proc = "up"
    /\ obj[t] = "live"
    /\ round[t] < MaxRound
    /\ "overlap" \in Env \/ Pending(t) = {}

ThisRound(t) == <<t, round[t] + 1>>

\* Mutation: the event is not registered.
RegisterNot(t, a) == UNCHANGED icmp_unreach_map

\* Mutation: an entry that is already in the map is kept (insert, not []).
RegisterInsert(t, a) ==
    icmp_unreach_map' = [icmp_unreach_map EXCEPT ![a] = IF @ = None THEN ThisRound(t) ELSE @]

\* Mutation: the key of the entry is the host without the port.
RegisterHostOnly(t, a) ==
    icmp_unreach_map' = [b \in Addrs \cup {"host"} |->
                            IF b = "host" THEN ThisRound(t) ELSE icmp_unreach_map[b]]

\* set_icmp_unreach_test_event
Register(t, a) == icmp_unreach_map' = [icmp_unreach_map EXCEPT ![a] = ThisRound(t)]

\* The part of run() behind timeout > 0: the event, registered under a.
AddTimer(t, a) ==
    IF t \in Untimed
    THEN UNCHANGED <<tev, icmp_unreach_map>>
    ELSE /\ tev' = [tev EXCEPT ![ThisRound(t)] = "pending"]
         /\ Register(t, a)

\* init() succeeds; run() adds the timer and sends the datagram.
Run(t) ==
    /\ RoundDue(t)
    /\ FreeFds # {}
    /\ fdtab' = [fdtab EXCEPT ![LowestFree] = ThisRound(t)]
    /\ sockfd' = [sockfd EXCEPT ![t] = LowestFree]
    /\ servaddr' = [servaddr EXCEPT ![t] = addr[t]]
    /\ AddTimer(t, addr[t])
    /\ round' = [round EXCEPT ![t] = @ + 1]
    /\ sent' = sent \cup {ThisRound(t)}
    /\ UNCHANGED <<proc, obj, answered, results, heard>>

\* socket() fails: finish() reports, and run() goes on all the same, with the
\* address left from an earlier round, if any.  sendto() fails unnoticed.
RunNoSocket(t) ==
    /\ RoundDue(t)
    /\ "sockfail" \in Env \/ FreeFds = {}
    /\ sockfd' = [sockfd EXCEPT ![t] = -1]
    /\ results' = [results EXCEPT ![t] = Append(@, <<ThisRound(t), "ok">>)]
    /\ AddTimer(t, servaddr[t])
    /\ round' = [round EXCEPT ![t] = @ + 1]
    /\ UNCHANGED <<proc, obj, servaddr, fdtab, sent, answered, heard>>

-----------------------------------------------------------------------------
(* The end of a round *)

\* Mutation: the socket stays open.
CloseNot(t) == UNCHANGED fdtab

Close(t) == fdtab' = [d \in Fds |-> IF d = sockfd[t] THEN None ELSE fdtab[d]]

\* Mutation: the event is neither removed nor deleted.
KeepEvent(f) == UNCHANGED tev

DeleteEvent(f) == tev' = [tev EXCEPT ![f] = "deleted"]

\* UDP_test::finish for the flight f: close(sockfd) and report.
Report(f, res) ==
    /\ Close(f[1])
    /\ results' = [results EXCEPT ![f[1]] = Append(@, <<f, res>>)]

\* A callback that found its event: finish(), and the event is deleted.
Finish(f, res) == Report(f, res) /\ DeleteEvent(f)

\* The same with an event or a Test that was freed.  Either the memory still
\* holds what it held, and finish() runs as before, once more, or not even that.
Undefined(f, res) ==
    /\ proc' = "undefined"
    /\ Report(f, res) \/ UNCHANGED <<fdtab, results>>
    /\ UNCHANGED <<obj, sockfd, servaddr, tev, icmp_unreach_map, round, sent,
                   answered, heard>>

\* udp_timeout_callback_fn, for the timeout and for data on the socket.
TimeoutOrData(f) ==
    /\ proc = "up"
    /\ tev[f] = "pending"
    /\ obj[f[1]] = "live"
    /\ icmp_unreach_map' = [icmp_unreach_map EXCEPT ![servaddr[f[1]]] = None]
    /\ Finish(f, "ok")
    /\ UNCHANGED <<proc, obj, sockfd, servaddr, round, sent, answered, heard>>

\* The same when the Test was deleted under it.
TimeoutOfFreed(f) ==
    /\ proc = "up"
    /\ tev[f] = "pending"
    /\ obj[f[1]] = "freed"
    /\ Undefined(f, "ok")

\* What worker_icmp_cb finds under address a.
NoEvent(a) == icmp_unreach_map[a] = None
Registered(a) ==
    /\ icmp_unreach_map[a] # None
    /\ tev[icmp_unreach_map[a]] = "pending"
    /\ obj[icmp_unreach_map[a][1]] = "live"

\* worker_icmp_cb for a port unreachable of address a, the error that the
\* datagrams of cause led to.  The entry of the map is not erased.
worker_icmp_cb(a, cause) ==
    \/ /\ NoEvent(a)
       /\ answered' = answered \cup cause
       /\ heard' = heard \cup {f \in cause : tev[f] = "pending"}
       /\ UNCHANGED <<proc, obj, sockfd, servaddr, fdtab, tev, icmp_unreach_map,
                      round, sent, results>>
    \/ /\ Registered(a)
       /\ Finish(icmp_unreach_map[a], "unreachable")
       /\ answered' = answered \cup cause
       /\ heard' = heard \cup {f \in cause : tev[f] = "pending"}
       /\ UNCHANGED <<proc, obj, sockfd, servaddr, icmp_unreach_map, round, sent>>
    \/ /\ ~NoEvent(a)
       /\ ~Registered(a)
       /\ Undefined(icmp_unreach_map[a], "unreachable")

\* The error that the datagram of flight f caused.
IcmpAnswer(f) ==
    /\ proc = "up"
    /\ f \in sent \ answered
    /\ "late" \in Env \/ tev[f] = "pending"
    /\ worker_icmp_cb(addr[f[1]], {f})

\* An error that a datagram of another process caused: the raw socket shows
\* every ICMP message of the host.
IcmpStranger(a) ==
    /\ proc = "up"
    /\ "stranger" \in Env
    /\ worker_icmp_cb(a, {})

\* delete_test: the periodic event is removed and the object freed; an event
\* that waits for it stays, with its entry in the map and its socket.
DeleteTest(t) ==
    /\ proc = "up"
    /\ obj[t] = "live"
    /\ "deletebusy" \in Env \/ Pending(t) = {}
    /\ obj' = [obj EXCEPT ![t] = "freed"]
    /\ UNCHANGED <<proc, sockfd, servaddr, fdtab, tev, icmp_unreach_map, round,
                   sent, answered, results, heard>>

Next ==
    \/ \E t \in Tests : Run(t) \/ RunNoSocket(t) \/ DeleteTest(t)
    \/ \E f \in Flights : TimeoutOrData(f) \/ TimeoutOfFreed(f) \/ IcmpAnswer(f)
    \/ \E a \in Addrs : IcmpStranger(a)

Spec == Init /\ [][Next]_vars

-----------------------------------------------------------------------------
(* Properties *)

\* No callback uses a Test or a UDP_Test_event that was freed: neither the
\* pointers left in icmp_unreach_map, nor those in events that wait.
NoUseAfterFree == proc = "up"

\* Every round reports once, when its event is gone, and not before.
OneReportPerRound ==
    \A t \in Tests \ Untimed :
        Len(results[t]) + Cardinality(Pending(t)) = round[t]

\* As long as no freed memory was used, a round that sent its datagram reports
\* at most once, also when rounds overlap, tests share an address or have no
\* timeout, and descriptors run out: the timer, data and an ICMP error exclude
\* one another.  A second error that finds the pointer left in icmp_unreach_map
\* does report the round again: that step is Undefined.
SentReportsOnce ==
    proc = "up" =>
        \A t \in Tests : \A j, k \in DOMAIN results[t] :
            /\ results[t][j][1] = results[t][k][1]
            /\ results[t][j][1] \in sent
            => j = k

\* Exactly the rounds that wait have a socket open, and it is the one finish()
\* will close: nothing leaks and no one closes the socket of another.
SocketsAccounted ==
    /\ \A d \in Fds : fdtab[d] # None => /\ tev[fdtab[d]] = "pending"
                                         /\ sockfd[fdtab[d][1]] = d
    /\ \A f \in Flights : tev[f] = "pending" => \E d \in Fds : fdtab[d] = f

\* A round whose datagram was answered by an ICMP error before the timeout is
\* not reported as ok, and a round reported as unreachable was answered so.
VerdictRight ==
    \A t \in Tests : \A k \in DOMAIN results[t] :
        results[t][k][2] = IF results[t][k][1] \in heard THEN "unreachable" ELSE "ok"
=============================================================================
