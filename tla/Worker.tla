------------------------------- MODULE Worker -------------------------------
(***************************************************************************)
(* A worker process (src/worker.cpp): the messages it takes from its       *)
(* channel, the Test objects it builds from them, test_map, and the        *)
(* acknowledgements it writes back.  How a test probes is the subject of   *)
(* other modules; here a test is an object whose periodic event is armed.  *)
(*                                                                         *)
(* deal_channel_data is one callback that loops over the complete messages *)
(* in the input buffer.  It is modelled one message per step; draining[w]  *)
(* says the callback is running, and nothing else of worker w may then     *)
(* run.  The acknowledgements stay in the output buffer until the loop is  *)
(* left, as in libevent.                                                   *)
(***************************************************************************)
EXTENDS Channel

CONSTANT HeapInts \* values an uninitialised int member of a new object may have

ASSUME WorkerAssumption == HeapInts \subseteq Int /\ HeapInts # {}

\* Keys of test_map, and the absent object.
Keys == Ids \cup HeapInts
Null == 0

VARIABLES
    inbuf,    \* inbuf[w]: input buffer of the channel's bufferevent
    draining, \* draining[w]: deal_channel_data is running
    outbuf,   \* outbuf[w]: output buffer of the channel's bufferevent
    tests,    \* tests[w]: configurations of the Test objects built, in order;
              \*           an object is named by its position
    armed,    \* armed[w]: objects whose periodic event test_ev is added
    test_map, \* test_map[w]: key -> object, or Null
    redis     \* redis[w]: "unset" until REDISPORT makes the worker connect

workerVars == <<inbuf, draining, outbuf, tests, armed, test_map, redis>>

WorkerTypeOK ==
    /\ inbuf \in [Channels -> Seq(Msg)]
    /\ draining \in [Channels -> BOOLEAN]
    /\ outbuf \in [Channels -> Seq(Ids)]
    /\ tests \in [Channels -> Seq(Conf)]
    /\ armed \in [Channels -> SUBSET Nat]
    /\ test_map \in [Channels -> [Keys -> Nat]]
    /\ redis \in [Channels -> {"unset", "set"}]

\* Worker::Worker, set_channel: an idle event loop with nothing in it.
WorkerInit ==
    /\ inbuf = [w \in Channels |-> <<>>]
    /\ draining = [w \in Channels |-> FALSE]
    /\ outbuf = [w \in Channels |-> <<>>]
    /\ tests = [w \in Channels |-> <<>>]
    /\ armed = [w \in Channels |-> {}]
    /\ test_map = [w \in Channels |-> [k \in Keys |-> Null]]
    /\ redis = [w \in Channels |-> "unset"]

-----------------------------------------------------------------------------
\* The bufferevent reads some of what the socket holds, and since that is at
\* least one message (the low watermark), calls worker_channel_readcb.
ReadChannel(w) ==
    /\ wstat[w] = "up"
    /\ ~draining[w]
    /\ \E k \in 1..Len(down[w]) :
          /\ inbuf' = [inbuf EXCEPT ![w] = @ \o SubSeq(down[w], 1, k)]
          /\ down' = [down EXCEPT ![w] = SubSeq(@, k + 1, Len(@))]
    /\ draining' = [draining EXCEPT ![w] = TRUE]
    /\ UNCHANGED <<outbuf, tests, armed, test_map, redis, mstat, wstat, up, issued, handed>>

\* The loop of deal_channel_data removes the message m from the buffer.
Take(w, m) ==
    /\ wstat[w] = "up"
    /\ draining[w]
    /\ inbuf[w] # <<>>
    /\ m = Head(inbuf[w])

\* ADDCONF or DELCONF that the JSON parser refuses: deal_channel_data returns
\* and leaves the rest of the buffer for the next time data arrives.
HandleUnparsable(w) ==
    /\ \E m \in ConfMsg : /\ Take(w, m)
                          /\ m.op \in {"ADDCONF", "DELCONF"}
                          /\ m.conf.long
    /\ inbuf' = [inbuf EXCEPT ![w] = Tail(@)]
    /\ draining' = [draining EXCEPT ![w] = FALSE]
    /\ UNCHANGED <<outbuf, tests, armed, test_map, redis, chanVars>>

\* Mutation: no test copies its id.
TestIdsNone(conf) == HeapInts

\* What Test::get_id returns in add_test: UDP_test::config copies the id,
\* Ping_test::config does not and the member keeps what the heap held.
TestIds(conf) == IF conf.type = "UDP" THEN {conf.id} ELSE HeapInts

\* Mutation: the acknowledgement carries the id of the Test object.
AckKey(conf, key) == key

\* The acknowledgement carries the id of the text.
AckId(conf, key) == conf.id

\* ADDCONF of a type generate_test can build: acknowledge, add_test.
HandleAdd(w) ==
    /\ \E m \in ConfMsg, key \in Keys :
          /\ Take(w, m)
          /\ m.op = "ADDCONF"
          /\ ~m.conf.long
          /\ m.conf.type \in {"UDP", "PING"}
          /\ key \in TestIds(m.conf)
          /\ outbuf' = [outbuf EXCEPT ![w] = Append(@, AckId(m.conf, key))]
          /\ tests' = [tests EXCEPT ![w] = Append(@, m.conf)]
          /\ armed' = [armed EXCEPT ![w] = @ \cup {Len(tests[w]) + 1}]
          /\ test_map' = [test_map EXCEPT ![w][key] = Len(tests[w]) + 1]
    /\ inbuf' = [inbuf EXCEPT ![w] = Tail(@)]
    /\ UNCHANGED <<draining, redis, chanVars>>

\* The process of worker w ends: its memory and both ends of its buffers go;
\* what it already wrote to the socket can still be read by the master.
Exit(w) ==
    /\ wstat' = [wstat EXCEPT ![w] = "down"]
    /\ down' = [down EXCEPT ![w] = <<>>]
    /\ inbuf' = [inbuf EXCEPT ![w] = <<>>]
    /\ draining' = [draining EXCEPT ![w] = FALSE]
    /\ outbuf' = [outbuf EXCEPT ![w] = <<>>]
    /\ tests' = [tests EXCEPT ![w] = <<>>]
    /\ armed' = [armed EXCEPT ![w] = {}]
    /\ test_map' = [test_map EXCEPT ![w] = [k \in Keys |-> Null]]
    /\ redis' = [redis EXCEPT ![w] = "unset"]
    /\ UNCHANGED <<mstat, up, issued, handed>>

\* ADDCONF of another type: generate_test returns NULL, which add_test, called
\* outside the test for NULL, dereferences.
HandleAddOther(w) ==
    /\ \E m \in ConfMsg : /\ Take(w, m)
                          /\ m.op = "ADDCONF"
                          /\ ~m.conf.long
                          /\ m.conf.type = "OTHER"
    /\ Exit(w)

\* Mutation: the entry of test_map is not erased.
EraseNot(w, id) == UNCHANGED test_map

\* test_map.erase(id)
Erase(w, id) == test_map' = [test_map EXCEPT ![w][id] = Null]

\* DELCONF: delete_test.
HandleDelete(w) ==
    /\ \E m \in ConfMsg :
          /\ Take(w, m)
          /\ m.op = "DELCONF"
          /\ ~m.conf.long
          /\ armed' = [armed EXCEPT ![w] = @ \ {test_map[w][m.conf.id]}]
          /\ Erase(w, m.conf.id)
    /\ inbuf' = [inbuf EXCEPT ![w] = Tail(@)]
    /\ UNCHANGED <<draining, outbuf, tests, redis, chanVars>>

\* Mutation: the handler returns instead of taking the next message.
Returns(w) == draining' = [draining EXCEPT ![w] = FALSE]

\* break: the loop takes the next message.
GoesOn(w) == UNCHANGED draining

\* REDISPORT: openredis.  Every such message opens one more connection; only
\* the last is kept.
HandleRedis(w) ==
    /\ \E m \in RedisMsg : Take(w, m)
    /\ redis' = [redis EXCEPT ![w] = "set"]
    /\ inbuf' = [inbuf EXCEPT ![w] = Tail(@)]
    /\ GoesOn(w)
    /\ UNCHANGED <<outbuf, tests, armed, test_map, chanVars>>

\* Mutation: EDITCONF falls through to DELCONF.
HandleEditDeletes(w) ==
    /\ \E m \in ConfMsg :
          /\ Take(w, m)
          /\ m.op = "EDITCONF"
          /\ armed' = [armed EXCEPT ![w] = @ \ {test_map[w][m.conf.id]}]
          /\ test_map' = [test_map EXCEPT ![w][m.conf.id] = Null]
    /\ inbuf' = [inbuf EXCEPT ![w] = Tail(@)]
    /\ UNCHANGED <<draining, outbuf, tests, redis, chanVars>>

\* EDITCONF: the switch has no case for it.
HandleEdit(w) ==
    /\ \E m \in ConfMsg : Take(w, m) /\ m.op = "EDITCONF"
    /\ inbuf' = [inbuf EXCEPT ![w] = Tail(@)]
    /\ UNCHANGED <<draining, outbuf, tests, armed, test_map, redis, chanVars>>

\* The buffer holds no complete message: the callback returns.
EndCallback(w) ==
    /\ wstat[w] = "up"
    /\ draining[w]
    /\ inbuf[w] = <<>>
    /\ draining' = [draining EXCEPT ![w] = FALSE]
    /\ UNCHANGED <<inbuf, outbuf, tests, armed, test_map, redis, chanVars>>

\* The loop finds the channel writable and sends the output buffer.
FlushAcks(w) ==
    /\ wstat[w] = "up"
    /\ mstat = "up"
    /\ ~draining[w]
    /\ outbuf[w] # <<>>
    /\ up' = [up EXCEPT ![w] = @ \o outbuf[w]]
    /\ outbuf' = [outbuf EXCEPT ![w] = <<>>]
    /\ UNCHANGED <<inbuf, draining, tests, armed, test_map, redis,
                   mstat, wstat, down, issued, handed>>

\* The same after the master is gone: SIGPIPE ends the worker too.
FlushToDeadMaster(w) ==
    /\ wstat[w] = "up"
    /\ mstat = "down"
    /\ ~draining[w]
    /\ outbuf[w] # <<>>
    /\ Exit(w)

\* The worker dies outside deal_channel_data: a failed fork, a signal, or an
\* error in the code of a test.  Nothing restarts it.
WorkerDies(w) ==
    /\ wstat[w] = "up"
    /\ ~draining[w]
    /\ Exit(w)

WorkerStep(w) ==
    \/ ReadChannel(w)
    \/ HandleUnparsable(w) \/ HandleAdd(w) \/ HandleAddOther(w)
    \/ HandleDelete(w) \/ HandleRedis(w) \/ HandleEdit(w)
    \/ EndCallback(w)
    \/ FlushAcks(w) \/ FlushToDeadMaster(w)
=============================================================================
