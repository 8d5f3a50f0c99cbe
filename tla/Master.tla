------------------------------- MODULE Master -------------------------------
(***************************************************************************)
(* The master process (src/master.cpp): the table of configurations, which *)
(* worker each one was handed to, the distribution of test.conf one second *)
(* after start, the HTTP requests that add, change and delete tests, and   *)
(* the acknowledgements read back from the workers.                        *)
(*                                                                         *)
(* The master is one thread in one libevent loop: its callbacks do not     *)
(* interleave with one another, only with the workers.  distribute_conf is *)
(* a loop of write()s that the workers can run in between, so it is one    *)
(* step per write; masterpc keeps every other callback out meanwhile.      *)
(***************************************************************************)
EXTENDS Channel

CONSTANTS
    None,       \* marks an id that configid_map does not hold
    StartConfs, \* possible results of reading test.conf: [Ids -> Conf \cup {None}]
    MaxReq,     \* bound on the requests that change the master's tables
    Habits      \* what clients are careful about: "waits" (no request before
                \* the distribution has ended), "fresh" (the id of a deleted
                \* test is not used again)

ASSUME MasterAssumption ==
    /\ None \notin Conf
    /\ StartConfs \subseteq [Ids -> Conf \cup {None}]
    /\ \A s \in StartConfs : \A i \in Ids : s[i] # None => s[i].id = i
    /\ MaxReq \in Nat
    /\ Habits \subseteq {"waits", "fresh"}

VARIABLES
    configid_map,         \* id -> its configuration, or None
    config_map,           \* channel -> size of its vector of iterators
    configid_channel_map, \* id -> channel; 0 when there is no entry
    masterpc,             \* "wait" | "add" | "redis" | "idle"
    todo,                 \* ids that distribute_conf's iterator has not passed
    rr,                   \* distribute_conf's counter i
    nreq,                 \* history: requests that changed configid_map
    retired               \* history: ids that were deleted

masterVars == <<configid_map, config_map, configid_channel_map, masterpc,
                todo, rr, nreq, retired>>

MasterTypeOK ==
    /\ configid_map \in [Ids -> Conf \cup {None}]
    /\ config_map \in [Channels -> Nat]
    /\ configid_channel_map \in [Ids -> Channels \cup {Stdin}]
    /\ masterpc \in {"wait", "add", "redis", "idle"}
    /\ todo \subseteq Ids
    /\ rr \in Nat
    /\ nreq \in Nat
    /\ retired \subseteq Ids

\* The ids that configid_map holds.
Live == {i \in Ids : configid_map[i] # None}

\* generate_worker has forked every worker and filled config_map with empty
\* vectors, get_test_conf has filled configid_map, and run() has armed the
\* one-second timer of distribute_conf.
MasterInit ==
    /\ configid_map \in StartConfs
    /\ config_map = [c \in Channels |-> 0]
    /\ configid_channel_map = [i \in Ids |-> Stdin]
    /\ masterpc = "wait"
    /\ todo = {}
    /\ rr = 0
    /\ nreq = 0
    /\ retired = {}

-----------------------------------------------------------------------------
(* distribute_conf *)

\* The timer fires: the iterator starts at the first id.
DistributeStart ==
    /\ mstat = "up"
    /\ masterpc = "wait"
    /\ todo' = Live
    /\ masterpc' = IF Live = {} THEN "idle" ELSE "add"
    /\ UNCHANGED <<configid_map, config_map, configid_channel_map, rr, nreq,
                   retired, chanVars>>

\* channel_fd_vec[i % workernum]
RoundRobin == (rr % workernum) + 1

\* The id the iterator of configid_map, a std::map, stands on.
IsCurrent(id) == id \in todo /\ \A j \in todo : id <= j

\* Mutation: the route names the next channel.
RouteToNext(id, c) ==
    configid_channel_map' = [configid_channel_map EXCEPT ![id] = (c % workernum) + 1]

\* Mutation: the route is left to the acknowledgement.
RouteLater(id, c) == UNCHANGED configid_channel_map

\* configid_channel_map[id] = channelfd
Route(id, c) == configid_channel_map' = [configid_channel_map EXCEPT ![id] = c]

\* One iteration of the loop up to the ADDCONF write.
DistributeAdd ==
    /\ mstat = "up"
    /\ masterpc = "add"
    /\ \E id \in Ids :
          /\ IsCurrent(id)
          /\ Route(id, RoundRobin)
          /\ config_map' = [config_map EXCEPT ![RoundRobin] = @ + 1]
          /\ send_msg(RoundRobin, [op |-> "ADDCONF", conf |-> configid_map[id]])
    /\ masterpc' = "redis"
    /\ UNCHANGED <<configid_map, todo, rr, nreq, retired>>

\* Mutation: the counter does not advance.
StayOnChannel == UNCHANGED rr

\* i++
NextChannel == rr' = rr + 1

\* The rest of the iteration: the REDISPORT write, i++ and it++.
DistributeRedis ==
    /\ mstat = "up"
    /\ masterpc = "redis"
    /\ send_msg(RoundRobin, [op |-> "REDISPORT"])
    /\ NextChannel
    /\ \E id \in Ids : IsCurrent(id) /\ todo' = todo \ {id}
    /\ masterpc' = IF todo' = {} THEN "idle" ELSE "add"
    /\ UNCHANGED <<configid_map, config_map, configid_channel_map, nreq, retired>>

-----------------------------------------------------------------------------
(* deal_metric_request and delete_metric_request *)

\* The event loop is free to call an HTTP or a channel callback.
Ready == mstat = "up" /\ masterpc \in {"wait", "idle"}

\* What a client may send, given its habits.
MayPost(c) ==
    /\ nreq < MaxReq
    /\ "waits" \in Habits => masterpc = "idle"
    /\ "fresh" \in Habits => c.id \notin retired

\* The search of deal_metric_request: the first of the channels whose vector
\* is shortest.
LeastLoaded ==
    CHOOSE c \in Channels :
        \A d \in Channels : \/ config_map[c] < config_map[d]
                            \/ config_map[c] = config_map[d] /\ c <= d

\* POST /metric with an id that configid_map does not hold.
PostNew(conf) ==
    /\ Ready
    /\ MayPost(conf)
    /\ configid_map[conf.id] = None
    /\ configid_map' = [configid_map EXCEPT ![conf.id] = conf]
    /\ config_map' = [config_map EXCEPT ![LeastLoaded] = @ + 1]
    /\ Route(conf.id, LeastLoaded)
    /\ send_msg(LeastLoaded, [op |-> "ADDCONF", conf |-> conf])
    /\ nreq' = nreq + 1
    /\ UNCHANGED <<masterpc, todo, rr, retired>>

\* Mutation: a changed test is sent as a new one.
EditAsAdd(conf) == [op |-> "ADDCONF", conf |-> conf]

EditMsg(conf) == [op |-> "EDITCONF", conf |-> conf]

\* POST /metric with an id that configid_map holds.
PostEdit(conf) ==
    /\ Ready
    /\ MayPost(conf)
    /\ configid_map[conf.id] # None
    /\ configid_map' = [configid_map EXCEPT ![conf.id] = conf]
    /\ send_msg(configid_channel_map[conf.id], EditMsg(conf))
    /\ nreq' = nreq + 1
    /\ UNCHANGED <<config_map, configid_channel_map, masterpc, todo, rr, retired>>

\* POST /metric/delete.  Neither config_map nor configid_channel_map is
\* touched: the vector keeps the iterator of the erased entry.
PostDelete(conf) ==
    /\ Ready
    /\ MayPost(conf)
    /\ configid_map[conf.id] # None
    /\ configid_map' = [configid_map EXCEPT ![conf.id] = None]
    /\ send_msg(configid_channel_map[conf.id], [op |-> "DELCONF", conf |-> conf])
    /\ nreq' = nreq + 1
    /\ retired' = retired \cup {conf.id}
    /\ UNCHANGED <<config_map, configid_channel_map, masterpc, todo, rr>>

\* Every other request: another method or path, a body that does not parse
\* or lacks "id" or "type", the deletion of an id that is not there.  The
\* handler returns and the reply is 200 all the same.
IgnoredRequest ==
    /\ Ready
    /\ UNCHANGED <<masterVars, chanVars>>

\* A POST whose "id" is not an integer: asInt() throws, nothing catches it.
PostNonInteger ==
    /\ Ready
    /\ mstat' = "down"
    /\ UNCHANGED <<masterVars, wstat, down, up, issued, handed>>

-----------------------------------------------------------------------------
\* deal_channel_data, one acknowledgement of its loop.
RecvAck(w) ==
    /\ Ready
    /\ up[w] # <<>>
    /\ configid_channel_map' = [configid_channel_map EXCEPT ![Head(up[w])] = w]
    /\ up' = [up EXCEPT ![w] = Tail(@)]
    /\ UNCHANGED <<configid_map, config_map, masterpc, todo, rr, nreq, retired,
                   mstat, wstat, down, issued, handed>>

\* The master ends, whatever it was doing: termhandler on SIGINT or SIGTERM,
\* or the allocator's abort when evhttp frees the uri that metric_request_cb
\* has already freed.
MasterExit ==
    /\ mstat = "up"
    /\ mstat' = "down"
    /\ UNCHANGED <<masterVars, wstat, down, up, issued, handed>>

MasterStep ==
    \/ DistributeStart \/ DistributeAdd \/ DistributeRedis
    \/ \E c \in Conf : PostNew(c) \/ PostEdit(c) \/ PostDelete(c)
    \/ IgnoredRequest
    \/ \E w \in Channels : RecvAck(w)
=============================================================================
