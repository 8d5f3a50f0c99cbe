------------------------------- MODULE Prober -------------------------------
(***************************************************************************)
(* newprober's control plane: the master and its workers over their        *)
(* channels, and the properties that make the distribution of tests right. *)
(***************************************************************************)
EXTENDS Master, Worker

CONSTANT Faults \* TRUE: workers may die, fork may fail, the master may be ended

ASSUME ProberAssumption == Faults \in BOOLEAN

vars == <<chanVars, masterVars, workerVars>>

TypeOK == ChannelTypeOK /\ MasterTypeOK /\ WorkerTypeOK

\* generate_worker: the channels are empty; a fork() that failed left a
\* channel without a process at its end.
ChannelInit ==
    /\ mstat = "up"
    /\ wstat \in [Channels -> IF Faults THEN {"up", "down"} ELSE {"up"}]
    /\ down = [w \in Channels |-> <<>>]
    /\ up = [w \in Channels |-> <<>>]
    /\ issued = {}
    /\ handed = {}

Init == ChannelInit /\ MasterInit /\ WorkerInit

Next ==
    \/ MasterStep /\ UNCHANGED workerVars
    \/ \E w \in Channels : WorkerStep(w) /\ UNCHANGED masterVars
    \/ Faults /\ (MasterExit \/ PostNonInteger) /\ UNCHANGED workerVars
    \/ Faults /\ \E w \in Channels : WorkerDies(w) /\ UNCHANGED masterVars

Spec == Init /\ [][Next]_vars

\* Every event loop keeps turning: the distribution timer fires and its loop
\* runs on, and whatever the sockets and buffers hold is read, handled and
\* flushed.  Nothing is assumed of clients, signals and deaths.
Fairness ==
    /\ WF_vars((DistributeStart \/ DistributeAdd \/ DistributeRedis) /\ UNCHANGED workerVars)
    /\ \A w \in Channels : WF_vars(RecvAck(w) /\ UNCHANGED workerVars)
    /\ \A w \in Channels : WF_vars(WorkerStep(w) /\ UNCHANGED masterVars)

FairSpec == Spec /\ Fairness

-----------------------------------------------------------------------------
(* Safety, for any client and any fault *)

\* The messages on their way to worker w, oldest first.
InFlight(w) == inbuf[w] \o down[w]

\* Objects of worker w that probe for configuration id.
Probing(w, id) == {k \in armed[w] : tests[w][k].id = id}

\* What a worker has of a test comes from an ADDCONF that reached it: the
\* objects it built, the acknowledgements it wrote, wherever they are now.  A
\* DELCONF or EDITCONF is only ever written to a worker to which the master
\* has also written an ADDCONF of the id, although acknowledgements rewrite
\* the route table at any later time; that ADDCONF may have been lost on a
\* full channel, and when an id is used again it may be that of an earlier
\* test.  DeleteFindsTest says what more there is when clients are careful.
OnlyIssued ==
    \A w \in Channels :
        /\ \A k \in DOMAIN InFlight(w) :
              LET m == InFlight(w)[k] IN
              /\ m.op = "ADDCONF" => <<w, m.conf.id>> \in handed
              /\ m.op \in {"EDITCONF", "DELCONF"} => <<w, m.conf.id>> \in issued
        /\ \A k \in DOMAIN up[w] : <<w, up[w][k]>> \in handed
        /\ \A k \in DOMAIN outbuf[w] : <<w, outbuf[w][k]>> \in handed
        /\ \A k \in DOMAIN tests[w] : <<w, tests[w][k].id>> \in handed

\* After the distribution every configuration the master holds has a route
\* to a worker to which its ADDCONF was written: no later edit or delete goes
\* to descriptor 0, which is what configid_channel_map yields for an id
\* without an entry.
RoutedAfterDistribution ==
    masterpc = "idle" =>
        \A i \in Live : <<configid_channel_map[i], i>> \in issued

\* test_map never points to a destroyed object: delete_test takes out entry,
\* event and object together, also when add_test has put a second object
\* under the same key in between.
NoDanglingTest ==
    \A w \in Channels, k \in Keys :
        test_map[w][k] # Null => test_map[w][k] \in armed[w]

\* The vectors of config_map stay within two of one another: one for the
\* search for the shortest, one more for requests that came before the
\* round robin of distribute_conf counted the same tests again.
LoadSpread ==
    \A c, d \in Channels : config_map[c] - config_map[d] <= 2
-----------------------------------------------------------------------------
(* Safety and liveness when clients wait for the distribution and do not   *)
(* reuse ids, configurations are UDP tests of legal length and nothing     *)
(* dies; unless a property says otherwise the channels do not fill up      *)

\* ADDCONF messages of id that are on their way to worker w.
PendingAdds(w, id) ==
    {k \in DOMAIN InFlight(w) : /\ InFlight(w)[k].op = "ADDCONF"
                                /\ InFlight(w)[k].conf.id = id}

\* How many things stand for id at worker w: messages that will make it probe
\* and objects that do.
Held(w, id) == Cardinality(PendingAdds(w, id)) + Cardinality(Probing(w, id))

\* A test the master holds is held once, by the worker its route names, and
\* by no other; the acknowledgements that cross later requests do not change
\* that.
ExactlyOneHolder ==
    masterpc = "idle" =>
        \A i \in Live, w \in Channels :
            Held(w, i) = IF w = configid_channel_map[i] THEN 1 ELSE 0

\* The same when a channel may be full: send_msg's caller does not look at the
\* result, so the write of an ADDCONF may be lost without a trace.  A test the
\* master holds is then held by nobody; every other test is held once, at its
\* route, before, during and after the distribution.
HeldUnlessLost ==
    \A i \in Live, w \in Channels :
        Held(w, i) = IF w = configid_channel_map[i] /\ <<w, i>> \in handed
                     THEN 1 ELSE 0

\* A DELCONF finds what it is to delete: unless the ADDCONF was lost, the
\* worker probes for the test, or the ADDCONF lies before the DELCONF in its
\* queue, so that delete_test does not look in vain.
DeleteFindsTest ==
    \A w \in Channels : \A k \in DOMAIN InFlight(w) :
        LET m == InFlight(w)[k] IN
        m.op = "DELCONF" /\ <<w, m.conf.id>> \in handed =>
            \/ Probing(w, m.conf.id) # {}
            \/ \E j \in PendingAdds(w, m.conf.id) : j < k

\* Every object that probes can be found by delete_test under its test's id.
TestMapComplete ==
    \A w \in Channels : \A k \in armed[w] : test_map[w][tests[w][k].id] = k

\* Once a test has a route, it keeps it: the acknowledgements only confirm
\* what distribute_conf and deal_metric_request chose.
RouteStable ==
    [][\A i \in Ids : configid_channel_map[i] # Stdin =>
            configid_channel_map'[i] = configid_channel_map[i]]_vars

\* The refinement mapping: what the master's and the workers' tables, and the
\* messages between them, say of a test.
PhaseOf(i) ==
    CASE i \in Live /\ \E w \in Channels : Probing(w, i) # {} -> "running"
      [] i \in Live /\ \A w \in Channels : Probing(w, i) = {} -> "pending"
      [] i \notin Live /\ \E w \in Channels : Held(w, i) # 0  -> "stopping"
      [] i \in retired /\ \A w \in Channels : Held(w, i) = 0  -> "gone"
      [] OTHER                                                -> "absent"

Client == INSTANCE Lifecycle WITH Test <- Ids, phase <- [i \in Ids |-> PhaseOf(i)]

\* Master, channels and workers together do what Lifecycle promises a client.
ImplementsLifecycle == Client!Spec

\* An accepted test starts and a deleted test stops, although the request is
\* answered long before the worker has read the message.
LifecycleResponsive == Client!Responsive

-----------------------------------------------------------------------------
(* What a comment in the source says, and the code does not do *)

\* Nothing is on its way in either direction and no callback is running.
Quiescent ==
    /\ mstat = "up" /\ masterpc = "idle"
    /\ \A w \in Channels : /\ down[w] = <<>> /\ up[w] = <<>>
                           /\ outbuf[w] = <<>> /\ ~draining[w]

\* Along with the tests "the configuration of server.conf is distributed": a
\* worker that probes has been told the port of redis, through which the
\* results of its tests go.
ProbesReportToRedis ==
    Quiescent => \A w \in Channels : armed[w] # {} => redis[w] = "set"
=============================================================================
