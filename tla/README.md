# newprober: a TLA+ verification project

newprober measures network services. A master process reads test
configurations from `test.conf` and from HTTP requests and hands each one to a
worker process; a worker probes its tests periodically (ICMP echo for `PING`,
a datagram for `UDP`) and sends the results to redis. This directory models
that program, checks the models with TLC and proves their safety properties
with TLAPS for every size of the system. Paths are relative to the repository root.

## 1. Inventory

| Part | State | Operations | Talks to |
|---|---|---|---|
| Master control (`src/master.cpp`) | `configid_map` id → text, `config_map` channel → vector of iterators, `configid_channel_map` id → channel | `distribute_conf` (1 s after start), `deal_metric_request` (add, change), `delete_metric_request`, `deal_channel_data` (acknowledgements) | clients by HTTP, workers by channel |
| Channel (`src/tool.h`, `send_msg`) | socket buffers, bufferevent buffers | one `write()` per `channel_data`, result ignored | master ↔ worker |
| Worker control (`src/worker.cpp`) | `test_map` key → Test, armed periodic events, `redisc` | `deal_channel_data`: ADDCONF, DELCONF, REDISPORT; `generate_test`, `add_test`, `delete_test` | master, tests |
| UDP test (`src/udp_test.cpp`) | `sockfd`, `servaddr`, one `UDP_Test_event` per round | `run`, `init`, `probe`, `finish` (two), timer callback | worker's `icmp_unreach_map` |
| ICMP listener (`worker_icmp_cb`) | `icmp_unreach_map` address → event | a port unreachable ends the round of its address | UDP tests |
| Ping test (`src/ping_test.cpp`) | `sockfd`, `servaddr`, `nowtimes`, `nowrecvtimes`, `recvbuf`, `data_vec`, read events, interval event | `run`, `init`, `probe`, `receive`, `process`, `finish`, two callbacks | raw ICMP socket |
| Configuration store | `configid_map`, `test.conf` | `get_test_conf` at start, `flush_test_conf` every `flushconf` seconds | file system |
| Log rotation (`src/logger.cpp`, `send_openfd`, `recv_openfd`) | `logfilefd` of each process, descriptors in the second channel | `split_log` in the master, `recv_openfd` and `split_log` in a worker | file system, workers |
| Helpers and statistics (`in_cksum`, `tv_sub`, first part of `Ping_test::finish`) | – | pure functions | ping tests |
| `Config`, `get_server_conf`, HTTP front end, `main`, process title | – | – | – |

Hard behaviour, in short: acknowledgements that cross later requests; requests
that arrive before the distribution; writes nobody checks; worker callbacks
that leave messages behind; members of a Test (socket, address, counters) that
belong to one round but outlive it; events freed while a pointer to them
remains, and tests freed while an event points to them; raw sockets that see
every ICMP packet of the host; replies that never come; a configuration file
that is truncated and rewritten in place while the process may end; log
descriptors that are closed before their successor has been received.
`PROJECT.json` lists them under `hazards`, each with its line and the properties
that meet it in a run. Where the code goes wrong and no comment says otherwise,
there is no such property: a note names the step of the model that has the
case, and the passing run that assumes it away (section 3 shows what happens
there without the assumption).

What makes the parts correct:

- master and workers agree: a test the master holds is probed by one object of
  one worker, the one its route names; a deleted test stops; an order to delete
  finds its test;
- `test_map` never points to a destroyed object and finds every live one;
- a round of a test ends, reports once, with a verdict about its own packets,
  and gives back its socket and its events; nothing uses freed memory;
- what a client has posted gets into `test.conf`, and a start after a crash
  finds what the last flush wrote, nothing older;
- after a rotation every process writes to the new log, and no worker ever
  returns to an older one;
- checksums verify at any receiver, round trip times and statistics are exact.

## 2. Modules

| Module | Models | Notes |
|---|---|---|
| `Channel` | socketpairs, message types, `send_msg` | the write succeeds, is dropped by a full buffer, kills the master (SIGPIPE) or goes to descriptor 0, the value `configid_channel_map[id]` gives for an unknown id |
| `Master` | master control | one action per callback; `distribute_conf` one step per `write()`, because the workers run in between |
| `Worker` | worker control | one action per message type; `draining` keeps the other callbacks of the worker out while its loop runs; acknowledgements stay in the output buffer until the loop is left |
| `Prober` | composition of the three | `Faults` lets workers die, forks fail and the master end |
| `Lifecycle` | what a client is promised | abstract specification; `Prober!Client` is the refinement mapping |
| `UdpTest` | UDP tests of one worker, ICMP listener, deletion | a *flight* `<<t, n>>` names round n of test t, its socket, event and ICMP error |
| `PingTest` | ping tests of one worker | a *probe* `<<t, n, k>>` names a request, its read event and its reply; libevent's waking of all events of a descriptor and its bookkeeping with epoll are modelled from how the code uses them |
| `ConfStore` | `test.conf`: reading, changes by requests, flushing, end and restart of the master | one step per `write()`; the file is a sequence of tokens |
| `LogRotate` | log rotation in the master and descriptor passing to the workers | one step per `sendmsg()` and per `recvmsg()` |
| `PingMath` | `in_cksum`, `tv_sub`, statistics of a round | operators, applied to packets and clock values that the actions enumerate |
| `DataFacts` | lemmas about sequences and counters that several proofs use | |
| `ProberProofs` | theorems about `Prober`, any client, any fault | |
| `CarefulProofs` | theorems about `Prober` with careful clients; the refinement of `Lifecycle` | extends `ProberProofs` |
| `UdpTestProofs`, `PingTestProofs`, `ConfStoreProofs`, `LogRotateProofs`, `PingMathProofs` | theorems about the module in their name | |
| `MCProber`, `MCUdpTest`, `MCPingTest`, `MCConfStore`, `MCLogRotate`, `MCPingMath` | instances for TLC | |

An operator commented "Mutation" states a plausible error in the definition
that follows it; the mutant list in `PROJECT.json` replaces the definition by it
and names the property that must then fail. Where an operation is long, what a
mutation changes is a small operator of its own (`Route`, `Close`, `AckId`).

### Correspondence and abstractions

- A configuration is a record: id, type, a version that tells two texts with
  one id apart, and whether the text is longer than `MAX_MSG_LEN` (then
  `send_msg` cuts it and the JSON reader of the worker refuses it).
- A channel is named by its worker's index: the descriptors grow with the
  index, so the order of `config_map` is the order of the indices.
  `config_map` keeps only the vectors' sizes, the only thing the code reads of
  them. The initial `min = 1000000` of the search is not modelled: it matters
  only beyond a million tests per worker.
- An uninitialised member takes any value of a constant set (`HeapInts`,
  `HeapAddrs`); `Ping_test::config` does not set `id`, so the key under which
  a ping test is filed is such a value. `process()` of a ping test has no
  return statement for packets that are no echo reply; with the options of
  `make.sh` the function returns the ICMP type, so that a redirect (5) acts as
  `TEST_STATUS_NOLAST` and type 6 as `TEST_STATUS_LAST`.
- Use of freed memory ends in `proc = "undefined"` (UDP): the step `Undefined`
  may close the socket and report once more, as `finish()` does when the memory
  still holds what it held, or do nothing of the kind. Following the null
  `servaddr` or using a deleted test ends in `proc = "crashed"` (ping). Nothing
  is modelled afterwards.
- `delete_test` deletes through a `Test *`, and `Test` has no virtual
  destructor: `~UDP_test` and `~Ping_test` do not run. What `DeleteTest` does is
  the `event_del` of the periodic event and the end of the object.
- In `ConfStore` a text is an id, a version and whether its JSON object spans
  several lines. The file is a sequence of tokens (object, piece of an object,
  comment, line end). `get_test_conf` says what the line by line reader finds:
  only the first thing on a line counts (`LineStart`), a piece of an object
  there ends the reading with what was found so far (`GivesUpAt`), and a later
  line overwrites an earlier one (`Latest`). The file of the first start is a
  comment and a test per line, in any order; an id may have several lines. A flush is `FlushOpen` (truncation),
  `FlushText` and `FlushSeparator` per entry, `FlushClose`; `Serving` keeps the
  requests out in between, because one loop runs all callbacks. `Die` may come
  between any two steps. A missing file makes the reader loop for ever
  (`StartNoFile`).
- In `LogRotate` a log file has the number of the rotation that opened it, and
  a descriptor is named by its file. `recv_openfd` compares an unsigned length
  with `< 0`, so its first error test never holds; after a second `recvmsg()`
  that finds nothing (EAGAIN) the message header still holds the control data
  of the first, which is why a rotation normally works. `Installed` also
  models that the header has no room for control data when the first call got
  none.
- `PingMath` has the base of a byte and the length of a second as parameters
  (256 and 1000000 in the code), so that a small instance meets every carry
  and every borrow. Times are in microseconds; the code's doubles hold
  milliseconds, and their rounding is not modelled.
- `issued` has every ADDCONF that the master wrote, `handed` those whose write
  came through; the difference is what a full channel or a dead worker lost.
- `issued`, `handed`, `retired`, `nreq`, `sent`, `heard`, `results`, `misread`,
  `flushed`, `written`, `clean`, `disturbed`, `elapsed` are histories that the
  code does not keep; no guard that models code reads them (`nreq` and
  `retired` bound and describe clients).
- `metric_request_cb` frees the uri that evhttp owns; whether that aborts the
  process depends on the allocator, so it is one of the reasons of
  `MasterExit`. Worker deaths from the test modules appear in `Prober` as
  `WorkerDies`.

## 3. Runs

Passing runs:

| Run | Instance | Shows |
|---|---|---|
| `prober_full` | 2 workers, 4 configurations of all kinds over 2 ids, `test.conf` empty or with one test, 2 requests, channel of 2 messages, faults | `TypeOK`, `OnlyIssued`, `RoutedAfterDistribution`, `NoDanglingTest`, `LoadSpread` for any client and any fault |
| `prober_careful` | 2 workers, 3 UDP tests, 3 requests, no faults; clients wait for the distribution and do not reuse ids; under `FairSpec` | `ExactlyOneHolder`, `DeleteFindsTest`, `TestMapComplete`, `RouteStable`; `Prober` implements `Lifecycle` (`ImplementsLifecycle`), and accepted tests start, deleted tests stop (`LifecycleResponsive`) |
| `udp` | 2 tests, 2 addresses, 3 rounds, `Env = {}` | `NoUseAfterFree`, `OneReportPerRound`, `SocketsAccounted`, `VerdictRight` |
| `udp_hostile` | 2 tests with one address, one without timeout, everything the environment may do | `TypeOK`; `SentReportsOnce`, as long as no freed memory is used |
| `ping` | 2 tests without interval, 2 requests, 2 rounds, `Env = {}` under `FairSpec` | `NoCrash`, `OneReportPerRound`, `SocketsAccounted`, `ReportsComplete`, `RoundsReport` |
| `ping_hostile` | 1 test with or without interval, every disturbance | `TypeOK`, in particular only echo replies enter `data_vec`; `NeverMoreThanTimes` |
| `conf` | 3 ids, one with two versions, one whose text may span lines; `test.conf` empty or with two lines for one id; full disk; under `FairSpec` | `TypeOK`, `NothingComesBack`, `RestartLosesOnlyTail`, `EventuallySaved` |
| `log` | 2 workers, 4 rotations, channel of 2, failing calls, deaths; under `FairSpec` | `TypeOK`, `OwnsItsLog`, `NeverOlder`, `SameLog`, `FollowsRotation` |
| `math` | packets of up to 10 bytes of base 2; up to 3 replies, clocks of 3 seconds of 3 units | `TypeOK`, `ChecksumVerifies`, `RttExact`, `StatisticsRight` |

`Env` names what the environment may do beyond the ordinary (late or foreign
ICMP packets, loss, failing calls, a round that starts before the last has
ended, a deletion during a round).

Runs that end in a violation. Each states what a comment of the source says;
`PROJECT.json` quotes it under `findings`.

| Run | Property | What happens |
|---|---|---|
| `prober_redis` | `ProbesReportToRedis` | REDISPORT is sent only to workers that get a test of `test.conf`; a worker whose tests come by HTTP probes without a connection to redis |
| `udp_stranger` | `NoUseAfterFree` | `worker_icmp_cb` leaves the map entry of the event it deletes |
| `ping_loss` | `RoundsReport` | there is no timeout; a lost reply stops the round |

### Why the passing runs have their conditions

The conditions of `prober_careful`, `udp` and `ping` are needed. TLC
finds a counterexample when one of them alone is dropped from the `.cfg`:

| Instance | Change | Violated | Because |
|---|---|---|---|
| `prober_careful` | `Habits` without `"waits"` | `ImplementsLifecycle` | what was posted in the first second is sent again by `distribute_conf` (`src/master.cpp:329`) |
| | `Habits` without `"fresh"` | `ExactlyOneHolder` | an id is added again while messages and acknowledgements of its first life are on the way |
| | a `PING` configuration | `TestMapComplete` | `Ping_test::config` never sets `id` (`src/ping_test.cpp:84`) |
| | a text longer than `MAX_MSG_LEN` | `ExactlyOneHolder` | the cut text does not parse and the worker drops it (`src/worker.cpp:233`) |
| | an `OTHER` configuration | `ExactlyOneHolder` | `add_test(NULL)` ends the worker (`src/worker.cpp:247`) |
| | `ChanCap = 1` | `ExactlyOneHolder` | the result of `write()` is ignored (`src/master.cpp:353`); `DeleteFindsTest`, `TestMapComplete` and `RouteStable` still hold, and so does `HeldUnlessLost` |
| `udp` | one address for both tests | `VerdictRight` | one entry of `icmp_unreach_map` for two events (`src/worker.cpp:392`) |
| | a test without timeout | `SocketsAccounted` | its socket is never closed (`src/udp_test.cpp:58`) |
| | `"late"` | `VerdictRight` | the error of the last round is charged to the next |
| | `"stranger"` | `VerdictRight` | the error of another process is charged to the round |
| | `"sockfail"` | `OneReportPerRound` | a failed `init()` reports, and the timer reports again (`src/udp_test.cpp:55`) |
| | `"overlap"` | `SocketsAccounted` | `sockfd` is overwritten while a round waits (`src/udp_test.cpp:86`) |
| | `"deletebusy"` | `NoUseAfterFree` | the test is freed under its event (`src/worker.cpp:353`) |
| `ping` (one test) | `Interval = {TRUE}` | `OneReportPerRound` | the last reply ends the round and leaves the interval event, which ends it again (`src/ping_test.cpp:69`); a tick that ends it leaves the read events (`src/ping_test.cpp:16`). The comment at `src/ping_test.cpp:25` asks for the deletion of both |
| | the same, `NoCrash` alone | `NoCrash` | one reply wakes two read events; the first ends the round and clears `servaddr`, the second follows it (`src/ping_test.cpp:212`) |
| | `pid = 70000` | `OneReportPerRound` | 16-bit `icmp_id` against the full process id: no reply is accepted (`src/ping_test.cpp:248`) |
| | `"loss"` | `RoundsReport` | run `ping_loss` |
| | `"stranger"` | `OneReportPerRound` | a foreign packet uses up the read event and no other is added |
| | `"other"` | `ReportsComplete` | for a packet of another type `process()` returns whatever the build leaves, here the end of the round (`src/ping_test.cpp:280`) |
| | `"deletebusy"` | `NoCrash` | the test is freed under its events (`src/worker.cpp:353`) |
| | `"sendfail"` | `OneReportPerRound` | no event is added, the chain of requests ends |
| | `"initfail"` | `NoCrash` | `probe()` after a failed `init()` follows the null `servaddr` (`src/ping_test.cpp:108`) |
| | `"overlap"` | `OneReportPerRound` | two rounds share socket, address and counters |

The properties of the other modules name their exceptions themselves.
`RestartLosesOnlyTail` and `EventuallySaved` stop at the first text that spans
several lines (`BeforeSplit`): the HTTP handler accepts it, `flush_test_conf`
writes it as it is, and `get_test_conf` gives up at its first line, so that
every larger id is lost at the next start (`src/master.cpp:213`). `OwnsItsLog`,
`SameLog` and `FollowsRotation` speak of workers that met every rotation at
rest: with two descriptors queued, `recv_openfd` takes both, keeps the second
and leaks the first; when one cannot be installed, or the master is gone, the
worker has already closed its log and is left without one (`disturbed`
collects these). `NeverOlder` needs no exception. `NeverMoreThanTimes` allows
for the requests that packets which are no echo reply cause (`misread`): a
redirect makes `process()` return the value of `TEST_STATUS_NOLAST`.

`OnlyIssued` holds for any client and any fault, and says no more than that: what
a worker has of a test comes from an ADDCONF that reached it, and an EDITCONF or
DELCONF goes only to a worker to which the ADDCONF was written. Whether that
ADDCONF arrived is the difference of `issued` and `handed`. `HeldUnlessLost` and
`DeleteFindsTest` say, for careful clients, that nothing but such a loss comes
between a test and its holder, or between a DELCONF and its test; both are
proved for channels of any size.

Two things the code does that no run is about: EDITCONF has no case in the
worker's switch, so a changed text is stored, and saved, but the old test keeps
running until the next start (`HandleEdit`); and when an id is deleted and
added again, a late acknowledgement of its first life rewrites the route
(`RecvAck`), which is why the clients of `prober_careful` are "fresh".

`ReportsComplete` says how many replies a report counts, not whose they are:
all ping tests of a worker use its process id as `icmp_id`, and with two tests
a report of one may count the replies to the other.

### Bounds

Two workers suffice for a message or an acknowledgement to go to the wrong one,
and two ids for two tests to meet on a worker; three ids let the third test see
an imbalance. `MaxReq` (requests) admits add–delete–add. `ChanCap = 2` lets a
channel fill up in `prober_full`; 10, more than one message per request and two
per test, keeps it from filling in `prober_careful`. `MaxRound` of 2 or 3 lets
a round meet the leftovers of the one before. `times = 2` gives a round a first
and a last request. `MaxExtra` and `QCap` keep stray packets from making the
state space infinite. In `conf` three ids put entries before, at and behind a
text that spans lines and let a flush be interrupted between them; the number
of restarts and flushes is not bounded. In `log` four rotations fill the
channel of two and leave one more for a worker that has a descriptor in its
hand. In `math` five words of base 4 sum to as much as 15, which folded once
still exceeds a word, so that the second addition of carries matters; odd
lengths occur. No bound hides an action: between them the passing runs take
every disjunct of the next-state relations. `CHECK_DEADLOCK FALSE` is set where
the bounds, or the death of all processes, stop the system.

### Fairness

Each process is one libevent loop: a callback whose event is ready is
eventually called. So `Prober!Fairness` has weak fairness for the
distribution, for reading acknowledgements and for every worker's loop.
`PingTest!FairSpec` has it for the loop and its timers, and adds that a request
is answered; with `"loss"` in `Env` that assumption is dropped, and
a lost request is one that is never answered. `ConfStore!FairSpec` has weak
fairness for the flush, whose timer is persistent and which goes on once begun;
`LogRotate!FairSpec` for the loop of `Master::split_log` and for the callback
of each worker's second channel. Nothing is assumed of clients, signals,
deaths, of the next round or of the next rotation.

## 4. Proofs

The theorems hold for every value of the constants that satisfies the named
`ASSUME`s of the modules (`ChannelAssumption`, `MasterAssumption`,
`UdpAssumption`, ...): at least one worker, a positive capacity, well-formed
configurations, nonempty sets of heap values and the like. TLC evaluates them
in every run. Where the code is right only under conditions, the condition is
a hypothesis of the theorem with a name (`Calm`, `Careful`, `RoomLeft`, `Ample`), and the
table of counterexamples in section 3 shows for its parts what goes wrong
without them. The instances `MCUdp`, `MCPing` and `MCProberCareful` satisfy
`Calm`, `Calm` and `Careful` with `Ample`, so that no theorem is empty; with
`ChanCap = 1` the last one satisfies `Careful` and loses writes.

Each module follows one pattern: an inductive invariant made of named parts,
one lemma per action, a theorem `Spec => []Inv`, and a corollary per property
of the runs. Every inductive invariant was first checked by TLC.

| Module | Theorem | States |
|---|---|---|
| `ProberProofs` | `TypeCorrect`, `OnlyIssuedHolds`, `RoutedHolds`, `NoDanglingHolds`, `LoadSpreadHolds` | the properties of `prober_full`, any client, any fault |
| `CarefulProofs` | `HeldUnlessLostHolds`, `DeleteFindsHolds`, `TestMapHolds`, `RouteStableHolds` | given `Careful`; channels of any size, lost writes included |
| | `NothingLost`, `ExactlyOneHolds`, `Refinement` | the other safety properties of `prober_careful`, given `Careful` and `[]RoomLeft` |
| | `RoomHolds` | `[]RoomLeft`, given `Ample`; any client, any fault |
| | `CarefulAndAmple` | the safety properties of `prober_careful` together, given `Careful` and `Ample` |
| `UdpTestProofs` | `TypeCorrect`, `SentReportsOnceHolds` | any environment; the second until freed memory is used |
| | `NoUseAfterFreeHolds`, `OneReportHolds`, `SocketsAccountedHolds`, `VerdictRightHolds` | given `Calm` |
| `PingTestProofs` | `TypeCorrect`, `NeverMoreHolds` | any environment |
| | `NoCrashHolds`, `OneReportHolds`, `SocketsAccountedHolds`, `ReportsCompleteHolds` | given `Calm`, which allows loss |
| `ConfStoreProofs` | `TypeCorrect`, `NothingComesBackHolds`, `RestartHolds` | deaths anywhere, full disk, start files with several lines for one id |
| `LogRotateProofs` | `TypeCorrect`, `NeverOlderHolds`, `OwnsItsLogHolds`, `SameLogHolds` | any failure |
| `PingMathProofs` | `TypeCorrect`, `CarriesFolded`, `ChecksumVerifiesHolds` | every base of a byte, every packet |
| | `RttExactHolds`, `StatisticsRightHolds` | every length of a second, every number of replies |

### Prober, any client and any fault

`OnlyIssued` speaks of what is queued; a step of the master writes what its
tables say, so `RouteInv` adds that every route leads to a worker to which the
ADDCONF was written. A route is also rewritten by acknowledgements, hence `UpInv` and
`outbuf` in `WorkerInv`; these come from messages in `inbuf`, hence `DownInv`
and the rest of `WorkerInv`. The queues are stated as `Seq(GoodMsg(w))`, so that
`Append`, `Tail` and `SubSeq` preserve them by type. `RoutedAfterDistribution`
needs how far the loop has come (`DistInv`): what the iterator has passed has a
route. `NoDanglingTest` is not preserved by `delete_test` unless no two keys
share an object, which `MapInv` adds (a new object is larger than all before
it, so `add_test` keeps it). For `LoadSpread` the loop of `distribute_conf` is
seen as laps: the load minus the lap each channel is in differs by at most one,
as before the distribution (`LoadInv`); `ModSucc` is the arithmetic of the
counter.

### Prober with careful clients, and the refinement

`Careful`: nothing dies, clients wait for the distribution and do not reuse
ids, configurations are UDP tests of legal length. `[]RoomLeft`: whenever the
master could write, the channel has room, so that no unchecked `write()` loses
a message; `NothingLost` then says that `handed` is `issued`, and only
`ExactlyOneHolds` and `Refinement` need it. Nothing bounds the number of workers, tests or requests.

`CarefulInv` adds to `IInv`:

- `IssuedOnceInv`: a worker that was sent a test is the one its route names.
  With it an acknowledgement, which `IInv` says comes from a worker that was
  sent the test, rewrites the route to what it was: this is `RouteStable`.
- `UnroutedInv`: what the iterator of `distribute_conf` has not passed has no
  route, so the distribution never sends a test twice.
- `LifeInv`: a routed test is in the table or was deleted, and not both. A
  fresh id therefore has no route, no message and no object anywhere.
- `OrderInv`: in each worker's queue (what is in the channel behind what has
  been read) and objects at most one thing stands for a test, and DELCONF comes
  behind ADDCONF, once. This is the order of the channel.
- `FindInv`: a test whose DELCONF is in the queue stands at that worker, unless
  the ADDCONF was lost; with `OrderInv`, before the DELCONF. This is
  `DeleteFindsTest`.
- `HoldInv`: a test that the master holds stands at its route, unless the ADDCONF
  was lost, and no order to delete it is on the way.

`HeldUnlessLost` follows from `HoldInv`, `OrderInv` and `IssuedOnceInv`, and
`ExactlyOneHolder` from it and `NothingLost`;
`TestMapComplete` is part of the induction, since `HandleDel` must find the
object under the test's id. `Refinement` shows `Client!Spec`: initial states
map to initial states, and every step leaves the phase of every test alone
(`Same`) or moves one test (`Accepted`, `Started`, `Deleted`, `Stopped`), which
is one action of `Lifecycle`.

`RoomHolds` replaces `[]RoomLeft` by a condition on the buffer: `Ample` says that
it takes one message per request and two per test. The invariant `RoomInv`
counts what `distribute_conf` has yet to write (`Owed`) against the requests
made so far; what a channel holds never exceeds the difference, since workers
only shorten it.

### UDP tests

For any environment, `AnyInv` is the type invariant and, while the process is
`"up"`, `OnceInv` (what `SentReportsOnce` says then) with what makes it inductive
(`ReportInv`): a report is about a round that was begun, and
a round that sent its datagram has no event once it has reported, so that
neither the timer nor the ICMP listener can report it again, unless through a
pointer to freed memory; of that step only the types are proved. `Calm` is `Env = {}`, every test has a
timeout, different tests have different addresses, and there is a descriptor
for every test. `CalmInv` then ties together the three places in which the
code keeps a round: a pending event is that of its test's last round, is
registered under the test's address, and `sockfd` is its socket (`WaitInv`); an
open descriptor belongs to a pending round (`SocketInv`); a test has as many
reports as rounds, or one less while a round waits (`CountInv`); and a round
that has reported, or was answered, waits no more (`OverInv`). That `socket()`
never runs out is the pigeonhole principle: the waiting rounds that hold
descriptors belong to the other tests.

### Ping tests

For any environment, `AnyInv` has the types, `AddrInv` (a test with
an address has a socket and a round) and `NeverMoreThanTimes`. `Calm` allows loss, and
asks for no interval, a process id below 65536, none of the other
disturbances, and a descriptor for every test. `CalmInv` says that a test is
`Resting` (no event, no replies, null address, a report for every round) or
`Probing`: the read event of the last request is the only one and waits on
`sockfd`, and the replies to all earlier requests have been counted and kept
(`RoundInv`); sockets belong to probing tests (`SocketInv`); the sockets hold
echo replies only, and an event that is about to be handled finds one
(`QueueInv`). Loss stops a round for
ever, but leaves it probing, which is why safety does not need the answer.

### Configuration store

The map is frozen while a flush runs, and the iterator has passed exactly
what was written (`FlushInv`, `IteratorInv`); the last object that a start
would read for an id is the text the id had when the file was opened
(`FileInv`), which gives `NothingComesBack` even after short writes. It speaks
of the last one because an administrator's file may have several lines for an
id, of which `get_test_conf` keeps the last, and because after a short write an
object may stand behind another on its line, where it is not read. For
`RestartLosesOnlyTail` the position matters: after complete writes every text
stands at the start of a line (`LineInv`), and what stands behind a text of
several lines has a larger id, because the map is written in order
(`ContentInv`). What `get_test_conf` reads is stated by positions in the file,
not as a loop over its lines, so that the proof needs no induction over them.

### Log rotation

`NeverOlder` needs that the descriptors are in order everywhere (`OrderInv`):
those queued increase, are newer than the ones the worker has open, and older
than the master's while the loop of `split_log` has yet to serve the worker.
`OwnsItsLog` and `SameLog` need that a worker which met every rotation at rest
has at most one descriptor on the way (`QuietInv`), and that this one, or else
its log, is the file of the master once the loop has passed it (`ServedInv`).

### Arithmetic

The loops of the code are folds in `PingMath`. The library defines a fold as
the value of a function chosen to satisfy a recursion equation over sets of
indices. `FoldExists` shows that the equation has a solution, `FoldSteps` that
any solution is reached by stepping through the indices 1, 2, ...: after that
`Sum32Steps`, `ReceiverSteps` and `StatSteps` speak of a loop as a function of
the number of its steps, and `UpTo`, induction by the least counterexample,
shows what holds after each. `SumOfIndices` does the same for the sum over a set,
in which `StatisticsRight` states the total.

- `TypeCorrect`: the invariant is that the packet has bytes and at most `MaxLen`
  of them. `WordSums`: the assumption on `MaxLen` (it holds for any packet of the
  program) keeps the 32-bit sum from overflowing, so it is the sum of the words.
- `CarriesFolded`: for every base of a word and every sum below its square the
  two additions of `in_cksum` leave no carry and give the one's complement sum.
- `ChecksumVerifiesHolds`: adding with the carry at once (`OnesAdd`) and adding
  the carries at the end (`FoldCarries`) are both addition up to multiples of
  W - 1, and give zero only for zeros. The checksum makes the sum of the words
  a positive multiple of W - 1 (`SumWithChecksum`). A receiver of the other byte
  order computes with each word times the base of a byte, up to such multiples
  (`WordAgrees`, `SumsAgree`). So its sum is a multiple of W - 1 that is not
  zero, and a word: it is W - 1.
- `RttExactHolds`: `tv_sub` with its single borrow is exact for any two clock
  values.
- `StatisticsRightHolds`: after k steps the loop of `finish` has the least, the
  greatest and the total of the first k + 1 round trip times (`Covered`).

### Only model-checked

Liveness: `LifecycleResponsive`, `RoundsReport`, `EventuallySaved`,
`FollowsRotation`. TLAPS does not prove properties under fairness here. Every
invariant and every action property of the passing runs is a theorem.

## 5. Not modelled, and the plan

Not modelled, and why:

- the contents of results and logs, and JSON beyond "does it parse": no
  property depends on them; a body with more than one JSON object is one text;
- the over-reads of `memcpy(buf, ..., 256)` when the configuration files are
  read: what lies behind a string is copied and not looked at, since the code
  goes on with the string itself or stops at its end;
- `get_server_conf`, which runs once and yields the constants of the models;
  `Config`, getters and setters whose defaults (-1: no timeout, no interval)
  are among the values of `Untimed` and `Interval`;
- `rtt_mdev`: its accumulator is never initialised (`src/ping_test.cpp:314`),
  so that its value is arbitrary, and it is floating point;
- hiredis, libevent's HTTP, the process title, the helper scripts and the
  superseded `*_before` files;
- the EV_TIMEOUT branch of `ping_socket_callback_fn`, which cannot be reached,
  since `generate_test` sets no timeout for ping tests;
- that a worker runs an object whose block `generate_worker` has left
  (`src/master.cpp:306`): the models assume that its storage is left alone;
- a `test.conf` of an administrator with a line that does not parse: what a
  start makes of such a line is modelled for files that a flush has written.

The system's parts that change state are all modelled, and the safety
properties of the passing runs are proved. What remains to a later version is
the content of results, and liveness for every size of the system.
