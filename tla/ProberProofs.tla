---------------------------- MODULE ProberProofs ----------------------------
(***************************************************************************)
(* Proofs about Prober, for every number of workers, every set of          *)
(* configurations, every channel capacity, any client and any fault.       *)
(***************************************************************************)
EXTENDS Prober, DataFacts

-----------------------------------------------------------------------------
(* The inductive invariant *)

\* What may be queued for, acknowledged by, or built in worker w: an ADDCONF
\* that came through and what follows from it, and commands about an id whose
\* ADDCONF was at least written to w.
GoodMsg(w) == {m \in Msg : /\ m.op = "ADDCONF" => <<w, m.conf.id>> \in handed
                           /\ m.op \in {"EDITCONF", "DELCONF"} => <<w, m.conf.id>> \in issued}
GoodId(w) == {i \in Ids : <<w, i>> \in handed}
GoodConf(w) == {c \in Conf : <<w, c.id>> \in handed}

\* OnlyIssued, with each queue as a sequence over a set, so that Append, Tail
\* and SubSeq preserve it by their types.  What came through was written.
DownInv ==
    /\ handed \subseteq issued
    /\ \A w \in Channels : down[w] \in Seq(GoodMsg(w))
WorkerInv ==
    \A w \in Channels : /\ inbuf[w] \in Seq(GoodMsg(w))
                        /\ outbuf[w] \in Seq(GoodId(w))
                        /\ tests[w] \in Seq(GoodConf(w))
UpInv == \A w \in Channels : up[w] \in Seq(GoodId(w))

\* The master's tables: an entry is stored under its own id, and a route
\* leads to a worker to which the ADDCONF of the id was written.
ConfInv == \A i \in Ids : configid_map[i] # None => configid_map[i].id = i
RouteInv ==
    \A i \in Ids : configid_channel_map[i] # Stdin =>
                       <<configid_channel_map[i], i>> \in issued

\* How far distribute_conf has come.
DistInv ==
    /\ masterpc = "idle" => \A i \in Live : configid_channel_map[i] # Stdin
    /\ masterpc \in {"add", "redis"} =>
          /\ todo \subseteq Live
          /\ \A i \in Live \ todo : configid_channel_map[i] # Stdin
    /\ masterpc = "redis" =>
          \A i \in Ids : IsCurrent(i) => configid_channel_map[i] # Stdin

\* test_map is injective and points to objects that exist and are armed.
MapInv ==
    \A w \in Channels :
        /\ armed[w] \subseteq 1..Len(tests[w])
        /\ \A k \in Keys : test_map[w][k] # Null => test_map[w][k] \in armed[w]
        /\ \A k, l \in Keys :
              test_map[w][k] # Null /\ test_map[w][k] = test_map[w][l] => k = l

\* The histories only grow.
Grows == issued \subseteq issued' /\ handed \subseteq handed'

IInv ==
    /\ TypeOK
    /\ DownInv /\ UpInv /\ WorkerInv
    /\ ConfInv /\ RouteInv /\ DistInv
    /\ MapInv

-----------------------------------------------------------------------------
(* Facts about data *)

\* The search of deal_metric_request finds a channel, and a least loaded one.
LEMMA LeastLoadedFound ==
    ASSUME config_map \in [Channels -> Nat]
    PROVE  /\ LeastLoaded \in Channels
           /\ \A d \in Channels : config_map[LeastLoaded] <= config_map[d]
<1> DEFINE Loads == {config_map[c] : c \in Channels}
<1>1. 1 \in Channels
  BY ChannelAssumption DEF Channels
<1>2. Loads \in SUBSET Nat /\ Loads # {}
  BY <1>1
<1>3. PICK m \in Loads : \A n \in Loads : m <= n
  BY <1>2, NatMin
<1> DEFINE Best == {c \in Channels : config_map[c] = m}
<1>4. Best \in SUBSET Nat /\ Best # {}
  BY <1>3 DEF Channels
<1>5. PICK b \in Best : \A c \in Best : b <= c
  BY <1>4, NatMin
<1>6. ASSUME NEW d \in Channels
      PROVE  \/ config_map[b] < config_map[d]
             \/ config_map[b] = config_map[d] /\ b <= d
  <2>1. /\ m <= config_map[d] /\ config_map[b] = m
        /\ m \in Nat /\ config_map[d] \in Nat
    BY <1>2, <1>3, <1>5
  <2>2. CASE config_map[d] = m
    BY <2>1, <2>2, <1>5
  <2>3. CASE config_map[d] # m
    BY <2>1, <2>3
  <2> QED BY <2>2, <2>3
<1>7. \E c \in Channels :
        \A d \in Channels : \/ config_map[c] < config_map[d]
                            \/ config_map[c] = config_map[d] /\ c <= d
  BY <1>6
<1>8. /\ LeastLoaded \in Channels
      /\ \A d \in Channels : \/ config_map[LeastLoaded] < config_map[d]
                             \/ config_map[LeastLoaded] = config_map[d] /\ LeastLoaded <= d
  BY <1>7 DEF LeastLoaded
<1> QED BY <1>8

\* The channel that distribute_conf picks exists.
LEMMA RoundRobinChannel ==
    ASSUME rr \in Nat
    PROVE  RoundRobin \in Channels
  BY ChannelAssumption DEF RoundRobin, Channels

-----------------------------------------------------------------------------
(* Initial states *)

\* The state after generate_worker and get_test_conf satisfies the invariant.
LEMMA InitIInv == Init => IInv
<1> SUFFICES ASSUME Init PROVE IInv
  OBVIOUS
<1> USE DEF Init, ChannelInit, MasterInit, WorkerInit
<1>1. TypeOK
  BY ChannelAssumption, MasterAssumption
     DEF TypeOK, ChannelTypeOK, MasterTypeOK, WorkerTypeOK, Stdin, Null
<1>2. DownInv /\ UpInv /\ WorkerInv
  BY DEF DownInv, UpInv, WorkerInv
<1>3. ConfInv
  BY MasterAssumption DEF ConfInv
<1>4. RouteInv /\ DistInv
  BY DEF RouteInv, DistInv
<1>5. MapInv
  BY DEF MapInv
<1> QED BY <1>1, <1>2, <1>3, <1>4, <1>5 DEF IInv

-----------------------------------------------------------------------------
(* Steps of the master *)

\* A message written by send_msg is good for its channel, and the histories
\* only grow.
LEMMA SendMsg ==
    ASSUME ChannelTypeOK, DownInv,
           NEW c \in Channels \cup {Stdin}, NEW m \in Msg,
           send_msg(c, m),
           m.op = "ADDCONF" => c \in Channels,
           m.op \in {"EDITCONF", "DELCONF"} /\ c \in Channels =>
              <<c, m.conf.id>> \in issued
    PROVE  /\ ChannelTypeOK'
           /\ DownInv' /\ Grows
           /\ m.op = "ADDCONF" => <<c, m.conf.id>> \in issued'
           /\ UNCHANGED <<wstat, up>>
<1>1. /\ issued' = IF m.op = "ADDCONF" THEN issued \cup {<<c, m.conf.id>>} ELSE issued
      /\ UNCHANGED <<wstat, up>>
  BY DEF send_msg, Recorded
<1>2. issued \subseteq issued' /\ (m.op = "ADDCONF" => <<c, m.conf.id>> \in issued')
  BY <1>1
<1>3. m.op \in {"ADDCONF", "EDITCONF", "DELCONF", "REDISPORT"}
  BY DEF Msg, ConfMsg, RedisMsg
<1>4. m.op # "REDISPORT" => m.conf \in Conf /\ m.conf.id \in Ids
  BY DEF Msg, ConfMsg, RedisMsg, Ids
<1>5. issued' \subseteq Channels \X Ids
  BY <1>1, <1>4 DEF ChannelTypeOK
<1>6. /\ mstat' \in {"up", "down"}
      /\ down' \in [Channels -> Seq(Msg)]
      /\ handed' \subseteq Channels \X Ids
      /\ handed \subseteq handed' /\ handed' \subseteq issued'
      /\ \A w \in Channels : \/ down'[w] = down[w]
                             \/ /\ w = c /\ down'[w] = Append(down[w], m)
                                /\ m.op = "ADDCONF" => <<c, m.conf.id>> \in handed'
  <2>1. CASE Delivered(c, m)
    <3>1. Append(down[c], m) \in Seq(Msg)
      BY <2>1 DEF Delivered, ChannelTypeOK
    <3>2. handed' = IF m.op = "ADDCONF" THEN handed \cup {<<c, m.conf.id>>} ELSE handed
      BY <2>1 DEF Delivered, Recorded
    <3>3. /\ handed' \subseteq Channels \X Ids
          /\ handed \subseteq handed' /\ handed' \subseteq issued'
      BY <1>1, <1>4, <3>2 DEF ChannelTypeOK, DownInv
    <3> QED BY <2>1, <3>1, <3>2, <3>3 DEF Delivered, ChannelTypeOK
  <2>2. CASE DroppedFull(c) \/ BrokenPipe(c) \/ ToStdin(c)
    BY <1>2, <2>2 DEF DroppedFull, BrokenPipe, ToStdin, ChannelTypeOK, DownInv
  <2> QED BY <2>1, <2>2 DEF send_msg
<1>7. Grows
  BY <1>2, <1>6 DEF Grows
<1>8. \A w \in Channels : GoodMsg(w) \subseteq GoodMsg(w)'
  BY <1>7 DEF GoodMsg, Grows
<1>9. ASSUME NEW w \in Channels PROVE down'[w] \in Seq(GoodMsg(w)')
  <2>1. down[w] \in Seq(GoodMsg(w)')
    BY <1>8, SeqMonotone DEF DownInv
  <2>2. CASE down'[w] = down[w]
    BY <2>1, <2>2
  <2>3. CASE /\ w = c /\ down'[w] = Append(down[w], m)
             /\ m.op = "ADDCONF" => <<c, m.conf.id>> \in handed'
    <3>1. m \in GoodMsg(w)'
      BY <1>1, <1>2, <1>3, <2>3 DEF GoodMsg
    <3> QED BY <2>1, <2>3, <3>1
  <2> QED BY <1>6, <2>2, <2>3
<1> QED BY <1>1, <1>2, <1>5, <1>6, <1>7, <1>9 DEF ChannelTypeOK, DownInv

\* When the history grows and a worker's tables do not change, what was good
\* for it stays good.
LEMMA WorkersKeep ==
    ASSUME IInv, Grows, UNCHANGED workerVars, UNCHANGED up
    PROVE  UpInv' /\ WorkerInv' /\ MapInv' /\ WorkerTypeOK'
<1>1. \A w \in Channels : /\ GoodMsg(w) \subseteq GoodMsg(w)'
                          /\ GoodId(w) \subseteq GoodId(w)'
                          /\ GoodConf(w) \subseteq GoodConf(w)'
  BY DEF GoodMsg, GoodId, GoodConf, Grows
<1>2. /\ inbuf' = inbuf /\ draining' = draining /\ outbuf' = outbuf /\ tests' = tests
      /\ armed' = armed /\ test_map' = test_map /\ redis' = redis
  BY DEF workerVars
<1>3. ASSUME NEW w \in Channels
      PROVE  /\ up'[w] \in Seq(GoodId(w)')
             /\ inbuf'[w] \in Seq(GoodMsg(w)')
             /\ outbuf'[w] \in Seq(GoodId(w)')
             /\ tests'[w] \in Seq(GoodConf(w)')
  BY <1>1, <1>2, SeqMonotone DEF IInv, UpInv, WorkerInv
<1>4. MapInv' /\ WorkerTypeOK'
  BY <1>2 DEF IInv, MapInv, TypeOK, WorkerTypeOK
<1> QED BY <1>3, <1>4 DEF UpInv, WorkerInv

\* The start of distribute_conf keeps the invariant.
LEMMA DistributeStartStep ==
    ASSUME IInv, DistributeStart, UNCHANGED workerVars
    PROVE  IInv'
<1>1. /\ mstat' = mstat /\ wstat' = wstat /\ down' = down /\ up' = up /\ issued' = issued /\ handed' = handed
      /\ configid_map' = configid_map /\ config_map' = config_map
      /\ configid_channel_map' = configid_channel_map
      /\ rr' = rr /\ nreq' = nreq /\ retired' = retired
      /\ todo' = Live /\ masterpc' = IF Live = {} THEN "idle" ELSE "add"
  BY DEF DistributeStart, chanVars
<1>2. UpInv' /\ WorkerInv' /\ MapInv' /\ WorkerTypeOK'
  BY <1>1, WorkersKeep DEF Grows
<1>3. TypeOK'
  BY <1>1, <1>2 DEF IInv, TypeOK, ChannelTypeOK, MasterTypeOK, Live
<1>4. DownInv' /\ ConfInv' /\ RouteInv'
  BY <1>1 DEF IInv, DownInv, GoodMsg, ConfInv, RouteInv
<1>5. DistInv'
  BY <1>1 DEF DistInv, Live
<1> QED BY <1>2, <1>3, <1>4, <1>5 DEF IInv

\* The ADDCONF write of distribute_conf keeps the invariant.
LEMMA DistributeAddStep ==
    ASSUME IInv, DistributeAdd, UNCHANGED workerVars
    PROVE  IInv'
<1>1. PICK id \in Ids :
        /\ IsCurrent(id)
        /\ configid_channel_map' = [configid_channel_map EXCEPT ![id] = RoundRobin]
        /\ config_map' = [config_map EXCEPT ![RoundRobin] = @ + 1]
        /\ send_msg(RoundRobin, [op |-> "ADDCONF", conf |-> configid_map[id]])
  BY DEF DistributeAdd, Route
<1>2. /\ masterpc = "add" /\ masterpc' = "redis"
      /\ configid_map' = configid_map /\ todo' = todo /\ rr' = rr
      /\ nreq' = nreq /\ retired' = retired
  BY DEF DistributeAdd, Route
<1>3. RoundRobin \in Channels
  BY RoundRobinChannel DEF IInv, TypeOK, MasterTypeOK
<1>4. configid_map[id] \in Conf /\ configid_map[id].id = id
  BY <1>1, <1>2 DEF IInv, TypeOK, MasterTypeOK, DistInv, Live, IsCurrent, ConfInv
<1> DEFINE m == [op |-> "ADDCONF", conf |-> configid_map[id]]
<1>5. m \in Msg /\ m.op = "ADDCONF" /\ m.conf.id = id
  BY <1>4 DEF Msg, ConfMsg
<1>6. /\ ChannelTypeOK' /\ DownInv'
      /\ Grows /\ <<RoundRobin, id>> \in issued'
      /\ UNCHANGED up
  <2> HIDE DEF m
  <2>1. send_msg(RoundRobin, m)
    BY <1>1 DEF m
  <2> QED BY <2>1, <1>3, <1>5, SendMsg DEF IInv, TypeOK
<1>7. UpInv' /\ WorkerInv' /\ MapInv' /\ WorkerTypeOK'
  BY <1>6, WorkersKeep
<1>8. MasterTypeOK'
  BY <1>1, <1>2, <1>3 DEF IInv, TypeOK, MasterTypeOK
<1>9. ConfInv'
  BY <1>2 DEF IInv, ConfInv
<1>10. RouteInv'
  BY <1>1, <1>6 DEF IInv, RouteInv, Grows, TypeOK, MasterTypeOK
<1>11. DistInv'
  <2>1. \A j \in Ids : configid_channel_map'[j] = IF j = id THEN RoundRobin
                                                  ELSE configid_channel_map[j]
    BY <1>1 DEF IInv, TypeOK, MasterTypeOK
  <2>2. RoundRobin # Stdin
    BY <1>3, ChannelAssumption DEF Channels, Stdin
  <2>3. \A j \in Ids : IsCurrent(j) => j = id
    BY <1>1, ChannelAssumption DEF IsCurrent, Ids
  <2>4. \A j \in Ids : IsCurrent(j)' <=> IsCurrent(j)
    BY <1>2 DEF IsCurrent
  <2>5. Live' = Live
    BY <1>2 DEF Live
  <2> QED BY <1>2, <2>1, <2>2, <2>3, <2>4, <2>5 DEF IInv, DistInv, Live
<1> QED BY <1>6, <1>7, <1>8, <1>9, <1>10, <1>11 DEF IInv, TypeOK

\* The REDISPORT write of distribute_conf keeps the invariant.
LEMMA DistributeRedisStep ==
    ASSUME IInv, DistributeRedis, UNCHANGED workerVars
    PROVE  IInv'
<1>1. PICK id \in Ids : IsCurrent(id) /\ todo' = todo \ {id}
  BY DEF DistributeRedis, NextChannel
<1>2. /\ masterpc = "redis" /\ masterpc' = IF todo' = {} THEN "idle" ELSE "add"
      /\ configid_map' = configid_map /\ config_map' = config_map
      /\ configid_channel_map' = configid_channel_map
      /\ rr' = rr + 1 /\ nreq' = nreq /\ retired' = retired
      /\ send_msg(RoundRobin, [op |-> "REDISPORT"])
  BY DEF DistributeRedis, NextChannel
<1>3. RoundRobin \in Channels
  BY RoundRobinChannel DEF IInv, TypeOK, MasterTypeOK
<1> DEFINE m == [op |-> "REDISPORT"]
<1>4. m \in Msg /\ m.op = "REDISPORT"
  BY DEF Msg, RedisMsg
<1>5. ChannelTypeOK' /\ DownInv' /\ Grows /\ UNCHANGED up
  <2> HIDE DEF m
  <2>1. send_msg(RoundRobin, m)
    BY <1>2 DEF m
  <2> QED BY <2>1, <1>3, <1>4, SendMsg DEF IInv, TypeOK
<1>6. UpInv' /\ WorkerInv' /\ MapInv' /\ WorkerTypeOK'
  BY <1>5, WorkersKeep
<1>7. MasterTypeOK'
  BY <1>1, <1>2 DEF IInv, TypeOK, MasterTypeOK
<1>8. ConfInv' /\ RouteInv'
  BY <1>2, <1>5 DEF IInv, ConfInv, RouteInv, Grows
<1>9. DistInv'
  <2>1. Live' = Live
    BY <1>2 DEF Live
  <2>2. \A i \in Live \ todo' : configid_channel_map'[i] # Stdin
    BY <1>1, <1>2 DEF IInv, DistInv, Live
  <2> QED BY <1>1, <1>2, <2>1, <2>2 DEF IInv, DistInv
<1> QED BY <1>5, <1>6, <1>7, <1>8, <1>9 DEF IInv, TypeOK

\* deal_metric_request for a new id keeps the invariant.
LEMMA PostNewStep ==
    ASSUME IInv, NEW conf \in Conf, PostNew(conf), UNCHANGED workerVars
    PROVE  IInv'
<1>1. /\ masterpc \in {"wait", "idle"}
      /\ configid_map' = [configid_map EXCEPT ![conf.id] = conf]
      /\ config_map' = [config_map EXCEPT ![LeastLoaded] = @ + 1]
      /\ configid_channel_map' = [configid_channel_map EXCEPT ![conf.id] = LeastLoaded]
      /\ send_msg(LeastLoaded, [op |-> "ADDCONF", conf |-> conf])
      /\ masterpc' = masterpc /\ todo' = todo /\ rr' = rr
      /\ nreq' = nreq + 1 /\ retired' = retired
  BY DEF PostNew, Route, Ready
<1>2. conf.id \in Ids
  BY DEF Ids
<1>3. LeastLoaded \in Channels
  BY LeastLoadedFound DEF IInv, TypeOK, MasterTypeOK
<1> DEFINE m == [op |-> "ADDCONF", conf |-> conf]
<1>4. m \in Msg /\ m.op = "ADDCONF" /\ m.conf.id = conf.id
  BY DEF Msg, ConfMsg
<1>5. /\ ChannelTypeOK' /\ DownInv'
      /\ Grows /\ <<LeastLoaded, conf.id>> \in issued'
      /\ UNCHANGED up
  <2> HIDE DEF m
  <2>1. send_msg(LeastLoaded, m)
    BY <1>1 DEF m
  <2> QED BY <2>1, <1>3, <1>4, SendMsg DEF IInv, TypeOK
<1>6. UpInv' /\ WorkerInv' /\ MapInv' /\ WorkerTypeOK'
  BY <1>5, WorkersKeep
<1>7. MasterTypeOK'
  BY <1>1, <1>2, <1>3 DEF IInv, TypeOK, MasterTypeOK
<1>8. ConfInv'
  BY <1>1, <1>2 DEF IInv, ConfInv, TypeOK, MasterTypeOK
<1>9. RouteInv'
  BY <1>1, <1>2, <1>5 DEF IInv, RouteInv, Grows, TypeOK, MasterTypeOK
<1>10. DistInv'
  <2>1. LeastLoaded # Stdin
    BY <1>3, ChannelAssumption DEF Channels, Stdin
  <2>2. \A i \in Live' : i \in Live \/ i = conf.id
    BY <1>1, <1>2 DEF IInv, TypeOK, MasterTypeOK, Live
  <2>3. \A i \in Ids : configid_channel_map'[i] = IF i = conf.id THEN LeastLoaded
                                                  ELSE configid_channel_map[i]
    BY <1>1 DEF IInv, TypeOK, MasterTypeOK
  <2>4. Live' \subseteq Ids
    BY DEF Live
  <2> QED BY <1>1, <2>1, <2>2, <2>3, <2>4 DEF IInv, DistInv
<1> QED BY <1>5, <1>6, <1>7, <1>8, <1>9, <1>10 DEF IInv, TypeOK

\* PostEdit and PostDelete: a message to the id's own route, or to nobody.
LEMMA ToRoute ==
    ASSUME IInv, NEW conf \in Conf, NEW op \in {"EDITCONF", "DELCONF"},
           send_msg(configid_channel_map[conf.id], [op |-> op, conf |-> conf])
    PROVE  ChannelTypeOK' /\ DownInv' /\ Grows /\ UNCHANGED up
<1>1. conf.id \in Ids
  BY DEF Ids
<1> DEFINE c == configid_channel_map[conf.id]
<1> DEFINE m == [op |-> op, conf |-> conf]
<1>2. m \in Msg /\ m.op = op /\ m.conf.id = conf.id
  BY DEF Msg, ConfMsg
<1>3. c \in Channels \cup {Stdin}
  BY <1>1 DEF IInv, TypeOK, MasterTypeOK
<1>4. c \in Channels => <<c, conf.id>> \in issued
  BY <1>1, ChannelAssumption DEF IInv, RouteInv, Channels, Stdin
<1>5. send_msg(c, m)
  OBVIOUS
<1> HIDE DEF c, m
<1> QED BY <1>2, <1>3, <1>4, <1>5, SendMsg DEF IInv, TypeOK

\* deal_metric_request for a known id keeps the invariant.
LEMMA PostEditStep ==
    ASSUME IInv, NEW conf \in Conf, PostEdit(conf), UNCHANGED workerVars
    PROVE  IInv'
<1>1. /\ masterpc \in {"wait", "idle"}
      /\ configid_map[conf.id] # None
      /\ configid_map' = [configid_map EXCEPT ![conf.id] = conf]
      /\ config_map' = config_map /\ configid_channel_map' = configid_channel_map
      /\ send_msg(configid_channel_map[conf.id], [op |-> "EDITCONF", conf |-> conf])
      /\ masterpc' = masterpc /\ todo' = todo /\ rr' = rr
      /\ nreq' = nreq + 1 /\ retired' = retired
  BY DEF PostEdit, EditMsg, Ready
<1>2. ChannelTypeOK' /\ DownInv' /\ Grows /\ UNCHANGED up
  BY <1>1, ToRoute
<1>3. UpInv' /\ WorkerInv' /\ MapInv' /\ WorkerTypeOK'
  BY <1>2, WorkersKeep
<1>4. conf.id \in Ids
  BY DEF Ids
<1>5. MasterTypeOK' /\ ConfInv'
  BY <1>1, <1>4 DEF IInv, TypeOK, MasterTypeOK, ConfInv
<1>6. RouteInv'
  BY <1>1, <1>2 DEF IInv, RouteInv, Grows
<1>7. DistInv'
  <2>1. Live' \subseteq Live
    BY <1>1, <1>4 DEF IInv, TypeOK, MasterTypeOK, Live
  <2> QED BY <1>1, <2>1 DEF IInv, DistInv
<1> QED BY <1>2, <1>3, <1>5, <1>6, <1>7 DEF IInv, TypeOK

\* delete_metric_request keeps the invariant.
LEMMA PostDeleteStep ==
    ASSUME IInv, NEW conf \in Conf, PostDelete(conf), UNCHANGED workerVars
    PROVE  IInv'
<1>1. /\ masterpc \in {"wait", "idle"}
      /\ configid_map' = [configid_map EXCEPT ![conf.id] = None]
      /\ config_map' = config_map /\ configid_channel_map' = configid_channel_map
      /\ send_msg(configid_channel_map[conf.id], [op |-> "DELCONF", conf |-> conf])
      /\ masterpc' = masterpc /\ todo' = todo /\ rr' = rr
      /\ nreq' = nreq + 1 /\ retired' = retired \cup {conf.id}
  BY DEF PostDelete, Ready
<1>2. ChannelTypeOK' /\ DownInv' /\ Grows /\ UNCHANGED up
  BY <1>1, ToRoute
<1>3. UpInv' /\ WorkerInv' /\ MapInv' /\ WorkerTypeOK'
  BY <1>2, WorkersKeep
<1>4. conf.id \in Ids
  BY DEF Ids
<1>5. MasterTypeOK' /\ ConfInv'
  BY <1>1, <1>4 DEF IInv, TypeOK, MasterTypeOK, ConfInv
<1>6. RouteInv'
  BY <1>1, <1>2 DEF IInv, RouteInv, Grows
<1>7. DistInv'
  <2>1. Live' \subseteq Live
    BY <1>1, <1>4 DEF IInv, TypeOK, MasterTypeOK, Live
  <2> QED BY <1>1, <2>1 DEF IInv, DistInv
<1> QED BY <1>2, <1>3, <1>5, <1>6, <1>7 DEF IInv, TypeOK

\* An acknowledgement can only point the route to a worker that an ADDCONF of
\* the id has reached, because only such workers acknowledge it.
LEMMA RecvAckStep ==
    ASSUME IInv, NEW w \in Channels, RecvAck(w), UNCHANGED workerVars
    PROVE  IInv'
<1>1. /\ masterpc \in {"wait", "idle"}
      /\ up[w] # <<>>
      /\ configid_channel_map' = [configid_channel_map EXCEPT ![Head(up[w])] = w]
      /\ up' = [up EXCEPT ![w] = Tail(@)]
      /\ configid_map' = configid_map /\ config_map' = config_map
      /\ masterpc' = masterpc /\ todo' = todo /\ rr' = rr
      /\ nreq' = nreq /\ retired' = retired
      /\ mstat' = mstat /\ wstat' = wstat /\ down' = down /\ issued' = issued /\ handed' = handed
  BY DEF RecvAck, Ready
<1>2. up[w] \in Seq(GoodId(w)) /\ up[w] \in Seq(Ids)
  BY DEF IInv, UpInv, TypeOK, ChannelTypeOK
<1>3. Head(up[w]) \in GoodId(w) /\ Tail(up[w]) \in Seq(GoodId(w)) /\ Tail(up[w]) \in Seq(Ids)
  BY <1>1, <1>2, TailSeq
<1>4. Head(up[w]) \in Ids /\ <<w, Head(up[w])>> \in issued
  BY <1>3 DEF GoodId, IInv, DownInv
<1>5. ChannelTypeOK' /\ MasterTypeOK'
  BY <1>1, <1>3, <1>4 DEF IInv, TypeOK, ChannelTypeOK, MasterTypeOK
<1>6. \A v \in Channels : GoodId(v)' = GoodId(v) /\ GoodMsg(v)' = GoodMsg(v) /\ GoodConf(v)' = GoodConf(v)
  BY <1>1 DEF GoodId, GoodMsg, GoodConf
<1>7. UpInv'
  BY <1>1, <1>3, <1>6 DEF IInv, UpInv, TypeOK, ChannelTypeOK
<1>8. /\ inbuf' = inbuf /\ draining' = draining /\ outbuf' = outbuf /\ tests' = tests
      /\ armed' = armed /\ test_map' = test_map /\ redis' = redis
  BY DEF workerVars
<1>9. DownInv' /\ WorkerInv' /\ MapInv' /\ WorkerTypeOK'
  BY <1>1, <1>6, <1>8 DEF IInv, DownInv, WorkerInv, MapInv, TypeOK, WorkerTypeOK
<1>10. ConfInv'
  BY <1>1 DEF IInv, ConfInv
<1>11. RouteInv'
  BY <1>1, <1>4 DEF IInv, RouteInv, TypeOK, MasterTypeOK
<1>12. DistInv'
  <2>1. w # Stdin
    BY ChannelAssumption DEF Channels, Stdin
  <2>2. Live' = Live /\ Live \subseteq Ids
    BY <1>1 DEF Live
  <2>3. \A i \in Ids : configid_channel_map[i] # Stdin => configid_channel_map'[i] # Stdin
    BY <1>1, <1>4, <2>1 DEF IInv, TypeOK, MasterTypeOK
  <2> QED BY <1>1, <2>2, <2>3 DEF IInv, DistInv
<1> QED BY <1>5, <1>7, <1>9, <1>10, <1>11, <1>12 DEF IInv, TypeOK

\* Steps that change nothing but the state of the master's process.
LEMMA MasterEndsStep ==
    ASSUME IInv, mstat' \in {"up", "down"},
           UNCHANGED <<masterVars, wstat, down, up, issued, handed, workerVars>>
    PROVE  IInv'
<1>1. /\ wstat' = wstat /\ down' = down /\ up' = up /\ issued' = issued /\ handed' = handed
      /\ configid_map' = configid_map /\ config_map' = config_map
      /\ configid_channel_map' = configid_channel_map /\ masterpc' = masterpc
      /\ todo' = todo /\ rr' = rr /\ nreq' = nreq /\ retired' = retired
  BY DEF masterVars
<1>2. UpInv' /\ WorkerInv' /\ MapInv' /\ WorkerTypeOK'
  BY <1>1, WorkersKeep DEF Grows
<1>3. ChannelTypeOK' /\ MasterTypeOK' /\ DownInv'
  BY <1>1 DEF IInv, TypeOK, ChannelTypeOK, MasterTypeOK, DownInv, GoodMsg
<1>4. ConfInv' /\ RouteInv'
  BY <1>1 DEF IInv, ConfInv, RouteInv
<1>5. DistInv'
  BY <1>1 DEF IInv, DistInv, Live, IsCurrent
<1> QED BY <1>2, <1>3, <1>4, <1>5 DEF IInv, TypeOK

-----------------------------------------------------------------------------
(* Steps of a worker *)

\* A worker touches neither the master's tables nor the history.
LEMMA MasterKeeps ==
    ASSUME IInv, UNCHANGED masterVars, UNCHANGED <<issued, handed>>
    PROVE  /\ MasterTypeOK' /\ ConfInv' /\ RouteInv' /\ DistInv'
           /\ \A w \in Channels : /\ GoodMsg(w)' = GoodMsg(w)
                                  /\ GoodId(w)' = GoodId(w)
                                  /\ GoodConf(w)' = GoodConf(w)
<1>1. /\ configid_map' = configid_map /\ config_map' = config_map
      /\ configid_channel_map' = configid_channel_map /\ masterpc' = masterpc
      /\ todo' = todo /\ rr' = rr /\ nreq' = nreq /\ retired' = retired
  BY DEF masterVars
<1>2. MasterTypeOK'
  BY <1>1 DEF IInv, TypeOK, MasterTypeOK
<1>3. ConfInv' /\ RouteInv'
  BY <1>1 DEF IInv, ConfInv, RouteInv
<1>4. DistInv'
  BY <1>1 DEF IInv, DistInv, Live, IsCurrent
<1>5. \A w \in Channels : /\ GoodMsg(w)' = GoodMsg(w)
                          /\ GoodId(w)' = GoodId(w)
                          /\ GoodConf(w)' = GoodConf(w)
  BY DEF GoodMsg, GoodId, GoodConf
<1> QED BY <1>2, <1>3, <1>4, <1>5

\* The worker's read from its channel keeps the invariant.
LEMMA ReadChannelStep ==
    ASSUME IInv, NEW w \in Channels, ReadChannel(w), UNCHANGED masterVars
    PROVE  IInv'
<1>1. PICK k \in 1..Len(down[w]) :
        /\ inbuf' = [inbuf EXCEPT ![w] = @ \o SubSeq(down[w], 1, k)]
        /\ down' = [down EXCEPT ![w] = SubSeq(@, k + 1, Len(@))]
  BY DEF ReadChannel
<1>2. /\ draining' = [draining EXCEPT ![w] = TRUE]
      /\ outbuf' = outbuf /\ tests' = tests /\ armed' = armed /\ test_map' = test_map
      /\ redis' = redis /\ mstat' = mstat /\ wstat' = wstat /\ up' = up /\ issued' = issued /\ handed' = handed
  BY DEF ReadChannel
<1>3. /\ MasterTypeOK' /\ ConfInv' /\ RouteInv' /\ DistInv'
      /\ \A v \in Channels : /\ GoodMsg(v)' = GoodMsg(v)
                             /\ GoodId(v)' = GoodId(v)
                             /\ GoodConf(v)' = GoodConf(v)
  BY <1>2, MasterKeeps
<1>4. /\ down[w] \in Seq(GoodMsg(w)) /\ down[w] \in Seq(Msg)
      /\ inbuf[w] \in Seq(GoodMsg(w)) /\ inbuf[w] \in Seq(Msg)
  BY DEF IInv, DownInv, WorkerInv, TypeOK, ChannelTypeOK, WorkerTypeOK
<1>5. /\ SubSeq(down[w], 1, k) \in Seq(GoodMsg(w))
      /\ SubSeq(down[w], 1, k) \in Seq(Msg)
      /\ SubSeq(down[w], k + 1, Len(down[w])) \in Seq(GoodMsg(w))
      /\ SubSeq(down[w], k + 1, Len(down[w])) \in Seq(Msg)
  BY <1>4, PrefixSeq
<1>6. /\ inbuf[w] \o SubSeq(down[w], 1, k) \in Seq(GoodMsg(w))
      /\ inbuf[w] \o SubSeq(down[w], 1, k) \in Seq(Msg)
  BY <1>4, <1>5
<1>7. ChannelTypeOK' /\ WorkerTypeOK'
  BY <1>1, <1>2, <1>5, <1>6 DEF IInv, TypeOK, ChannelTypeOK, WorkerTypeOK
<1>8. DownInv'
  BY <1>1, <1>2, <1>3, <1>5 DEF IInv, DownInv, TypeOK, ChannelTypeOK
<1>9. UpInv' /\ WorkerInv'
  BY <1>1, <1>2, <1>3, <1>6 DEF IInv, UpInv, WorkerInv, TypeOK, WorkerTypeOK
<1>10. MapInv'
  BY <1>2 DEF IInv, MapInv
<1> QED BY <1>3, <1>7, <1>8, <1>9, <1>10 DEF IInv, TypeOK

\* What taking a message gives.
LEMMA TakeFacts ==
    ASSUME IInv, NEW w \in Channels, NEW m, Take(w, m)
    PROVE  /\ m \in GoodMsg(w) /\ m \in Msg
           /\ Tail(inbuf[w]) \in Seq(GoodMsg(w))
           /\ Tail(inbuf[w]) \in Seq(Msg)
<1>1. inbuf[w] # <<>> /\ m = Head(inbuf[w])
  BY DEF Take
<1>2. inbuf[w] \in Seq(GoodMsg(w)) /\ inbuf[w] \in Seq(Msg)
  BY DEF IInv, WorkerInv, TypeOK, WorkerTypeOK
<1> QED BY <1>1, <1>2, TailSeq

\* The handlers that only take a message from the buffer.
LEMMA SkipStep ==
    ASSUME IInv, NEW w \in Channels, NEW m, Take(w, m),
           inbuf' = [inbuf EXCEPT ![w] = Tail(@)],
           draining' \in [Channels -> BOOLEAN], redis' \in [Channels -> {"unset", "set"}],
           UNCHANGED <<outbuf, tests, armed, test_map, chanVars, masterVars>>
    PROVE  IInv'
<1>1. /\ outbuf' = outbuf /\ tests' = tests /\ armed' = armed /\ test_map' = test_map
      /\ mstat' = mstat /\ wstat' = wstat /\ down' = down /\ up' = up /\ issued' = issued /\ handed' = handed
  BY DEF chanVars
<1>2. /\ MasterTypeOK' /\ ConfInv' /\ RouteInv' /\ DistInv'
      /\ \A v \in Channels : /\ GoodMsg(v)' = GoodMsg(v)
                             /\ GoodId(v)' = GoodId(v)
                             /\ GoodConf(v)' = GoodConf(v)
  BY <1>1, MasterKeeps
<1>3. Tail(inbuf[w]) \in Seq(GoodMsg(w)) /\ Tail(inbuf[w]) \in Seq(Msg)
  BY TakeFacts
<1>4. ChannelTypeOK' /\ WorkerTypeOK'
  BY <1>1, <1>3 DEF IInv, TypeOK, ChannelTypeOK, WorkerTypeOK
<1>5. DownInv' /\ UpInv' /\ WorkerInv'
  BY <1>1, <1>2, <1>3 DEF IInv, DownInv, UpInv, WorkerInv, TypeOK, WorkerTypeOK
<1>6. MapInv'
  BY <1>1 DEF IInv, MapInv
<1> QED BY <1>2, <1>4, <1>5, <1>6 DEF IInv, TypeOK

\* add_test keeps the invariant: the new object is a key's only object.
LEMMA HandleAddStep ==
    ASSUME IInv, NEW w \in Channels, HandleAdd(w), UNCHANGED masterVars
    PROVE  IInv'
<1> DEFINE new == Len(tests[w]) + 1
<1>1. PICK m \in ConfMsg, key \in Keys :
        /\ Take(w, m)
        /\ m.op = "ADDCONF"
        /\ outbuf' = [outbuf EXCEPT ![w] = Append(@, m.conf.id)]
        /\ tests' = [tests EXCEPT ![w] = Append(@, m.conf)]
        /\ armed' = [armed EXCEPT ![w] = @ \cup {new}]
        /\ test_map' = [test_map EXCEPT ![w][key] = new]
  BY DEF HandleAdd, AckId
<1>2. /\ inbuf' = [inbuf EXCEPT ![w] = Tail(@)]
      /\ draining' = draining /\ redis' = redis
      /\ mstat' = mstat /\ wstat' = wstat /\ down' = down /\ up' = up /\ issued' = issued /\ handed' = handed
  BY DEF HandleAdd, AckId, chanVars
<1>3. /\ MasterTypeOK' /\ ConfInv' /\ RouteInv' /\ DistInv'
      /\ \A v \in Channels : /\ GoodMsg(v)' = GoodMsg(v)
                             /\ GoodId(v)' = GoodId(v)
                             /\ GoodConf(v)' = GoodConf(v)
  BY <1>2, MasterKeeps
<1>4. /\ m \in GoodMsg(w)
      /\ Tail(inbuf[w]) \in Seq(GoodMsg(w)) /\ Tail(inbuf[w]) \in Seq(Msg)
  BY <1>1, TakeFacts
<1>5. /\ m.conf \in Conf /\ m.conf.id \in Ids /\ <<w, m.conf.id>> \in handed
  BY <1>1, <1>4 DEF ConfMsg, GoodMsg, Ids
<1>6. m.conf \in GoodConf(w) /\ m.conf.id \in GoodId(w)
  BY <1>5 DEF GoodConf, GoodId
<1>7. /\ Append(outbuf[w], m.conf.id) \in Seq(GoodId(w))
      /\ Append(outbuf[w], m.conf.id) \in Seq(Ids)
      /\ Append(tests[w], m.conf) \in Seq(GoodConf(w))
      /\ Append(tests[w], m.conf) \in Seq(Conf)
      /\ new \in Nat /\ new # 0
      /\ Len(Append(tests[w], m.conf)) = new
  BY <1>5, <1>6 DEF IInv, WorkerInv, TypeOK, WorkerTypeOK
<1> HIDE DEF new
<1>8. ChannelTypeOK'
  BY <1>2 DEF IInv, TypeOK, ChannelTypeOK
<1>9. WorkerTypeOK'
  BY <1>1, <1>2, <1>4, <1>7 DEF IInv, TypeOK, WorkerTypeOK
<1>10. DownInv' /\ UpInv'
  BY <1>2, <1>3 DEF IInv, DownInv, UpInv
<1>11. WorkerInv'
  BY <1>1, <1>2, <1>3, <1>4, <1>7 DEF IInv, WorkerInv, TypeOK, WorkerTypeOK
<1>12. MapInv'
  <2> SUFFICES ASSUME NEW v \in Channels
               PROVE  /\ armed'[v] \subseteq 1..Len(tests'[v])
                      /\ \A k \in Keys : test_map'[v][k] # Null => test_map'[v][k] \in armed'[v]
                      /\ \A k, l \in Keys :
                            test_map'[v][k] # Null /\ test_map'[v][k] = test_map'[v][l] => k = l
    BY DEF MapInv
  <2>1. CASE v # w
    BY <1>1, <2>1 DEF IInv, MapInv, TypeOK, WorkerTypeOK
  <2>2. CASE v = w
    <3>1. /\ armed'[w] = armed[w] \cup {new}
          /\ Len(tests'[w]) = new /\ Len(tests[w]) \in Nat /\ new = Len(tests[w]) + 1
          /\ \A k \in Keys : test_map'[w][k] = IF k = key THEN new ELSE test_map[w][k]
      BY <1>1, <1>7 DEF IInv, TypeOK, WorkerTypeOK, new
    <3>2. \A k \in Keys : test_map[w][k] # new
      BY <3>1, <1>7 DEF IInv, MapInv, Null
    <3>3. armed'[w] \subseteq 1..Len(tests'[w])
      BY <3>1 DEF IInv, MapInv
    <3>4. \A k \in Keys : test_map'[w][k] # Null => test_map'[w][k] \in armed'[w]
      BY <3>1 DEF IInv, MapInv
    <3>5. \A k, l \in Keys :
              test_map'[w][k] # Null /\ test_map'[w][k] = test_map'[w][l] => k = l
      BY <3>1, <3>2 DEF IInv, MapInv
    <3> QED BY <2>2, <3>3, <3>4, <3>5
  <2> QED BY <2>1, <2>2
<1> QED BY <1>3, <1>8, <1>9, <1>10, <1>11, <1>12 DEF IInv, TypeOK

\* delete_test keeps the invariant: test_map is injective.
LEMMA HandleDeleteStep ==
    ASSUME IInv, NEW w \in Channels, HandleDelete(w), UNCHANGED masterVars
    PROVE  IInv'
<1>1. PICK m \in ConfMsg :
        /\ Take(w, m)
        /\ armed' = [armed EXCEPT ![w] = @ \ {test_map[w][m.conf.id]}]
        /\ test_map' = [test_map EXCEPT ![w][m.conf.id] = Null]
  BY DEF HandleDelete, Erase
<1>2. /\ inbuf' = [inbuf EXCEPT ![w] = Tail(@)]
      /\ draining' = draining /\ outbuf' = outbuf /\ tests' = tests /\ redis' = redis
      /\ mstat' = mstat /\ wstat' = wstat /\ down' = down /\ up' = up /\ issued' = issued /\ handed' = handed
  BY DEF HandleDelete, Erase, chanVars
<1>3. /\ MasterTypeOK' /\ ConfInv' /\ RouteInv' /\ DistInv'
      /\ \A v \in Channels : /\ GoodMsg(v)' = GoodMsg(v)
                             /\ GoodId(v)' = GoodId(v)
                             /\ GoodConf(v)' = GoodConf(v)
  BY <1>2, MasterKeeps
<1>4. Tail(inbuf[w]) \in Seq(GoodMsg(w)) /\ Tail(inbuf[w]) \in Seq(Msg)
  BY <1>1, TakeFacts
<1>5. m.conf.id \in Keys
  BY <1>1 DEF ConfMsg, Ids, Keys
<1>6. ChannelTypeOK' /\ WorkerTypeOK'
  BY <1>1, <1>2, <1>4, <1>5 DEF IInv, TypeOK, ChannelTypeOK, WorkerTypeOK, Null
<1>7. DownInv' /\ UpInv' /\ WorkerInv'
  BY <1>2, <1>3, <1>4 DEF IInv, DownInv, UpInv, WorkerInv, TypeOK, WorkerTypeOK
<1>8. MapInv'
  BY <1>1, <1>2, <1>5 DEF IInv, MapInv, TypeOK, WorkerTypeOK, Null
<1> QED BY <1>3, <1>6, <1>7, <1>8 DEF IInv, TypeOK

\* The end of a worker's process.
LEMMA ExitStep ==
    ASSUME IInv, NEW w \in Channels, Exit(w), UNCHANGED masterVars
    PROVE  IInv'
<1>1. /\ MasterTypeOK' /\ ConfInv' /\ RouteInv' /\ DistInv'
      /\ \A v \in Channels : /\ GoodMsg(v)' = GoodMsg(v)
                             /\ GoodId(v)' = GoodId(v)
                             /\ GoodConf(v)' = GoodConf(v)
  BY MasterKeeps DEF Exit
<1>2. ChannelTypeOK' /\ WorkerTypeOK'
  BY DEF Exit, IInv, TypeOK, ChannelTypeOK, WorkerTypeOK, Null
<1>3. DownInv' /\ UpInv' /\ WorkerInv'
  BY <1>1 DEF Exit, IInv, DownInv, UpInv, WorkerInv, TypeOK, ChannelTypeOK, WorkerTypeOK
<1>4. MapInv'
  BY DEF Exit, IInv, MapInv, TypeOK, WorkerTypeOK, Null
<1> QED BY <1>1, <1>2, <1>3, <1>4 DEF IInv, TypeOK

\* Sending the output buffer keeps the invariant.
LEMMA FlushAcksStep ==
    ASSUME IInv, NEW w \in Channels, FlushAcks(w), UNCHANGED masterVars
    PROVE  IInv'
<1>1. /\ up' = [up EXCEPT ![w] = @ \o outbuf[w]]
      /\ outbuf' = [outbuf EXCEPT ![w] = <<>>]
      /\ inbuf' = inbuf /\ draining' = draining /\ tests' = tests /\ armed' = armed
      /\ test_map' = test_map /\ redis' = redis
      /\ mstat' = mstat /\ wstat' = wstat /\ down' = down /\ issued' = issued /\ handed' = handed
  BY DEF FlushAcks
<1>2. /\ MasterTypeOK' /\ ConfInv' /\ RouteInv' /\ DistInv'
      /\ \A v \in Channels : /\ GoodMsg(v)' = GoodMsg(v)
                             /\ GoodId(v)' = GoodId(v)
                             /\ GoodConf(v)' = GoodConf(v)
  BY <1>1, MasterKeeps
<1>3. up[w] \o outbuf[w] \in Seq(GoodId(w)) /\ up[w] \o outbuf[w] \in Seq(Ids)
  BY DEF IInv, UpInv, WorkerInv, TypeOK, ChannelTypeOK, WorkerTypeOK
<1>4. ChannelTypeOK' /\ WorkerTypeOK'
  BY <1>1, <1>3 DEF IInv, TypeOK, ChannelTypeOK, WorkerTypeOK
<1>5. DownInv' /\ UpInv' /\ WorkerInv'
  BY <1>1, <1>2, <1>3 DEF IInv, DownInv, UpInv, WorkerInv, TypeOK, ChannelTypeOK, WorkerTypeOK
<1>6. MapInv'
  BY <1>1 DEF IInv, MapInv
<1> QED BY <1>2, <1>4, <1>5, <1>6 DEF IInv, TypeOK

\* The end of the worker's callback keeps the invariant.
LEMMA EndCallbackStep ==
    ASSUME IInv, NEW w \in Channels, EndCallback(w), UNCHANGED masterVars
    PROVE  IInv'
<1>1. /\ draining' = [draining EXCEPT ![w] = FALSE]
      /\ inbuf' = inbuf /\ outbuf' = outbuf /\ tests' = tests /\ armed' = armed
      /\ test_map' = test_map /\ redis' = redis
      /\ mstat' = mstat /\ wstat' = wstat /\ down' = down /\ up' = up /\ issued' = issued /\ handed' = handed
  BY DEF EndCallback, chanVars
<1>2. /\ MasterTypeOK' /\ ConfInv' /\ RouteInv' /\ DistInv'
      /\ \A v \in Channels : /\ GoodMsg(v)' = GoodMsg(v)
                             /\ GoodId(v)' = GoodId(v)
                             /\ GoodConf(v)' = GoodConf(v)
  BY <1>1, MasterKeeps
<1>3. ChannelTypeOK' /\ WorkerTypeOK'
  BY <1>1 DEF IInv, TypeOK, ChannelTypeOK, WorkerTypeOK
<1>4. DownInv' /\ UpInv' /\ WorkerInv' /\ MapInv'
  BY <1>1, <1>2 DEF IInv, DownInv, UpInv, WorkerInv, MapInv
<1> QED BY <1>2, <1>3, <1>4 DEF IInv, TypeOK

\* Every step of a worker keeps the invariant.
LEMMA WorkerStepIInv ==
    ASSUME IInv, NEW w \in Channels, WorkerStep(w), UNCHANGED masterVars
    PROVE  IInv'
<1>1. CASE HandleUnparsable(w)
  <2>1. PICK m \in ConfMsg : Take(w, m)
    BY <1>1 DEF HandleUnparsable
  <2>2. /\ inbuf' = [inbuf EXCEPT ![w] = Tail(@)]
        /\ draining' = [draining EXCEPT ![w] = FALSE]
        /\ UNCHANGED <<outbuf, tests, armed, test_map, redis, chanVars>>
    BY <1>1 DEF HandleUnparsable
  <2>3. draining' \in [Channels -> BOOLEAN] /\ redis' \in [Channels -> {"unset", "set"}]
    BY <2>2 DEF IInv, TypeOK, WorkerTypeOK
  <2> QED BY <2>1, <2>2, <2>3, SkipStep
<1>2. CASE HandleRedis(w)
  <2>1. PICK m \in RedisMsg : Take(w, m)
    BY <1>2 DEF HandleRedis, GoesOn
  <2>2. /\ inbuf' = [inbuf EXCEPT ![w] = Tail(@)]
        /\ redis' = [redis EXCEPT ![w] = "set"]
        /\ UNCHANGED <<draining, outbuf, tests, armed, test_map, chanVars>>
    BY <1>2 DEF HandleRedis, GoesOn
  <2>3. draining' \in [Channels -> BOOLEAN] /\ redis' \in [Channels -> {"unset", "set"}]
    BY <2>2 DEF IInv, TypeOK, WorkerTypeOK
  <2> QED BY <2>1, <2>2, <2>3, SkipStep
<1>3. CASE HandleEdit(w)
  <2>1. PICK m \in ConfMsg : Take(w, m)
    BY <1>3 DEF HandleEdit
  <2>2. /\ inbuf' = [inbuf EXCEPT ![w] = Tail(@)]
        /\ UNCHANGED <<draining, outbuf, tests, armed, test_map, redis, chanVars>>
    BY <1>3 DEF HandleEdit
  <2>3. draining' \in [Channels -> BOOLEAN] /\ redis' \in [Channels -> {"unset", "set"}]
    BY <2>2 DEF IInv, TypeOK, WorkerTypeOK
  <2> QED BY <2>1, <2>2, <2>3, SkipStep
<1>4. CASE HandleAddOther(w) \/ FlushToDeadMaster(w)
  BY <1>4, ExitStep DEF HandleAddOther, FlushToDeadMaster
<1> QED BY <1>1, <1>2, <1>3, <1>4, ReadChannelStep, HandleAddStep, HandleDeleteStep,
           EndCallbackStep, FlushAcksStep DEF WorkerStep

-----------------------------------------------------------------------------
(* The invariant of the whole program *)

\* Every step of the master, of a worker and of the environment preserves the
\* inductive invariant.
LEMMA NextIInv == IInv /\ [Next]_vars => IInv'
<1> SUFFICES ASSUME IInv, [Next]_vars PROVE IInv'
  OBVIOUS
<1>1. CASE MasterStep /\ UNCHANGED workerVars
  <2>1. CASE DistributeStart
    BY <1>1, <2>1, DistributeStartStep
  <2>2. CASE DistributeAdd
    BY <1>1, <2>2, DistributeAddStep
  <2>3. CASE DistributeRedis
    BY <1>1, <2>3, DistributeRedisStep
  <2>4. CASE \E c \in Conf : PostNew(c) \/ PostEdit(c) \/ PostDelete(c)
    BY <1>1, <2>4, PostNewStep, PostEditStep, PostDeleteStep
  <2>5. CASE IgnoredRequest
    <3>1. mstat' = mstat /\ UNCHANGED <<masterVars, wstat, down, up, issued, handed, workerVars>>
      BY <1>1, <2>5 DEF IgnoredRequest, chanVars
    <3>2. mstat' \in {"up", "down"}
      BY <3>1 DEF IInv, TypeOK, ChannelTypeOK
    <3> QED BY <3>1, <3>2, MasterEndsStep
  <2>6. CASE \E w \in Channels : RecvAck(w)
    BY <1>1, <2>6, RecvAckStep
  <2> QED BY <1>1, <2>1, <2>2, <2>3, <2>4, <2>5, <2>6 DEF MasterStep
<1>2. CASE \E w \in Channels : WorkerStep(w) /\ UNCHANGED masterVars
  BY <1>2, WorkerStepIInv
<1>3. CASE (MasterExit \/ PostNonInteger) /\ UNCHANGED workerVars
  BY <1>3, MasterEndsStep DEF MasterExit, PostNonInteger
<1>4. CASE \E w \in Channels : WorkerDies(w) /\ UNCHANGED masterVars
  BY <1>4, ExitStep DEF WorkerDies
<1>5. CASE UNCHANGED vars
  <2>1. mstat' = mstat /\ UNCHANGED <<masterVars, wstat, down, up, issued, handed, workerVars>>
    BY <1>5 DEF vars, chanVars
  <2>2. mstat' \in {"up", "down"}
    BY <2>1 DEF IInv, TypeOK, ChannelTypeOK
  <2> QED BY <2>1, <2>2, MasterEndsStep
<1> QED BY <1>1, <1>2, <1>3, <1>4, <1>5 DEF Next

\* IInv holds in every reachable state.
THEOREM Invariance == Spec => []IInv
<1>1. Init => IInv
  BY InitIInv
<1>2. IInv /\ [Next]_vars => IInv'
  BY NextIInv
<1> QED BY <1>1, <1>2, PTL DEF Spec

\* Type correctness of the master's tables, the channels and the workers'
\* tables, for every number of workers and every set of configurations.
THEOREM TypeCorrect == Spec => []TypeOK
<1>1. IInv => TypeOK
  BY DEF IInv
<1> QED BY <1>1, Invariance, PTL

\* What a worker queues, acknowledges or has built comes from an ADDCONF that
\* reached it, and commands go only to workers to which an ADDCONF of the id
\* was written (send_msg, deal_channel_data of both processes), also with
\* workers that die, channels that fill up and clients that reuse ids.
THEOREM OnlyIssuedHolds == Spec => []OnlyIssued
<1>1. IInv => OnlyIssued
  <2> SUFFICES ASSUME IInv, NEW w \in Channels
               PROVE  /\ \A k \in DOMAIN InFlight(w) : InFlight(w)[k] \in GoodMsg(w)
                      /\ \A k \in DOMAIN up[w] : up[w][k] \in GoodId(w)
                      /\ \A k \in DOMAIN outbuf[w] : outbuf[w][k] \in GoodId(w)
                      /\ \A k \in DOMAIN tests[w] : tests[w][k] \in GoodConf(w)
    BY DEF OnlyIssued, GoodMsg, GoodId, GoodConf
  <2>1. /\ down[w] \in Seq(GoodMsg(w)) /\ inbuf[w] \in Seq(GoodMsg(w))
        /\ up[w] \in Seq(GoodId(w)) /\ outbuf[w] \in Seq(GoodId(w))
        /\ tests[w] \in Seq(GoodConf(w))
    BY DEF IInv, DownInv, UpInv, WorkerInv
  <2>2. InFlight(w) \in Seq(GoodMsg(w))
    BY <2>1 DEF InFlight
  <2> QED BY <2>1, <2>2
<1> QED BY <1>1, Invariance, PTL

\* After distribute_conf every configuration has a route to a worker to which
\* its ADDCONF was written, so that no edit and no delete is ever written to descriptor 0.
THEOREM RoutedHolds == Spec => []RoutedAfterDistribution
<1>1. IInv => RoutedAfterDistribution
  BY DEF IInv, DistInv, RouteInv, RoutedAfterDistribution, Live
<1> QED BY <1>1, Invariance, PTL

\* delete_test never leaves test_map with a pointer to a destroyed Test, even
\* when several objects were added under one key or under keys nobody chose.
THEOREM NoDanglingHolds == Spec => []NoDanglingTest
<1>1. IInv => NoDanglingTest
  BY DEF IInv, MapInv, NoDanglingTest
<1> QED BY <1>1, Invariance, PTL

-----------------------------------------------------------------------------
(* The spread of the load *)

\* Quotient and remainder of consecutive numbers.
LEMMA EuclidStep ==
    ASSUME NEW n \in Nat \ {0}, NEW a \in Int, NEW b \in Int,
           NEW x \in 0..(n - 1), NEW y \in 0..(n - 1),
           n * a + x + 1 = n * b + y
    PROVE  y = IF x + 1 = n THEN 0 ELSE x + 1
<1>1. PICK d \in Int : d = b - a
  OBVIOUS
<1>2. n * (b - a) = x + 1 - y
  OBVIOUS
<1>3. n * d = x + 1 - y
  BY <1>1, <1>2
<1>4. d >= 0 /\ d <= 1
  <2>1. CASE d >= 2
    <3>1. n * d >= n * 2
      BY <2>1
    <3> QED BY <3>1, <1>3
  <2>2. CASE d <= -1
    <3>1. n * d <= n * (-1)
      BY <2>2
    <3> QED BY <3>1, <1>3
  <2> QED BY <2>1, <2>2
<1> QED BY <1>3, <1>4

\* How the remainder moves when the counter of distribute_conf advances.
LEMMA ModSucc ==
    ASSUME NEW n \in Nat \ {0}, NEW r \in Nat
    PROVE  (r + 1) % n = IF (r % n) + 1 = n THEN 0 ELSE (r % n) + 1
<1>1. r % n \in 0..(n - 1) /\ (r + 1) % n \in 0..(n - 1)
  OBVIOUS
<1>2. r \div n \in Int /\ (r + 1) \div n \in Int
  OBVIOUS
<1>3. r = n * (r \div n) + (r % n) /\ r + 1 = n * ((r + 1) \div n) + ((r + 1) % n)
  OBVIOUS
<1>4. n * (r \div n) + (r % n) + 1 = n * ((r + 1) \div n) + ((r + 1) % n)
  BY <1>3
<1>5. PICK a \in Int, b \in Int, x \in 0..(n - 1), y \in 0..(n - 1) :
        a = r \div n /\ b = (r + 1) \div n /\ x = r % n /\ y = (r + 1) % n
  BY <1>1, <1>2
<1>6. n * a + x + 1 = n * b + y
  BY <1>4, <1>5
<1>7. y = IF x + 1 = n THEN 0 ELSE x + 1
  BY <1>6, EuclidStep
<1> QED BY <1>5, <1>7

\* What the current lap of the round robin has already given to channel c.
Lap(c) ==
    IF masterpc = "wait" THEN 0
    ELSE IF c <= (rr % workernum) \/ (masterpc = "redis" /\ c = RoundRobin) THEN 1 ELSE 0

\* Until the distribution has ended the vectors differ by at most one, not
\* counting the current lap; from then on by at most two.
LoadInv ==
    /\ masterpc = "wait" => rr = 0
    /\ masterpc # "idle" =>
          \A c, d \in Channels : (config_map[c] - Lap(c)) - (config_map[d] - Lap(d)) <= 1
    /\ LoadSpread

\* The load invariant holds of the empty vectors of config_map.
LEMMA LoadInit == Init => LoadInv
  BY DEF Init, MasterInit, LoadInv, LoadSpread, Lap

\* The counts of the lap when it is taken together with the remainder.
LEMMA LapFacts ==
    ASSUME IInv
    PROVE  /\ rr % workernum \in 0..(workernum - 1)
           /\ RoundRobin = (rr % workernum) + 1
           /\ \A c \in Channels : c \in Int /\ c >= 1 /\ c <= workernum /\ Lap(c) \in {0, 1}
           /\ \A c \in Channels : config_map[c] \in Nat
<1>1. rr \in Nat /\ workernum \in Nat \ {0}
  BY ChannelAssumption DEF IInv, TypeOK, MasterTypeOK
<1>2. rr % workernum \in 0..(workernum - 1)
  BY <1>1
<1> QED BY <1>1, <1>2 DEF IInv, TypeOK, MasterTypeOK, Channels, Lap, RoundRobin

\* Every step keeps the load invariant.
LEMMA LoadStep ==
    ASSUME IInv, IInv', LoadInv, [Next]_vars
    PROVE  LoadInv'
<1> USE DEF LoadInv
<1>1. CASE DistributeStart
  <2>1. rr' = rr /\ config_map' = config_map /\ masterpc = "wait" /\ masterpc' \in {"idle", "add"}
    BY <1>1 DEF DistributeStart
  <2>2. rr % workernum = 0
    BY <2>1, ChannelAssumption
  <2>3. \A c \in Channels : Lap(c) = 0 /\ Lap(c)' = 0
    BY <2>1, <2>2, ChannelAssumption DEF Lap, Channels
  <2> QED BY <2>1, <2>3, LapFacts DEF LoadSpread
<1>2. CASE DistributeAdd
  <2>1. /\ masterpc = "add" /\ masterpc' = "redis" /\ rr' = rr
        /\ config_map' = [config_map EXCEPT ![RoundRobin] = @ + 1]
    BY <1>2 DEF DistributeAdd, Route
  <2>2. \A c \in Channels : /\ Lap(c) = (IF c <= rr % workernum THEN 1 ELSE 0)
                            /\ Lap(c)' = (IF c <= rr % workernum \/ c = RoundRobin THEN 1 ELSE 0)
    BY <2>1 DEF Lap, RoundRobin
  <2>3. \A c \in Channels : config_map'[c] - Lap(c)' = config_map[c] - Lap(c)
    BY <2>1, <2>2, LapFacts DEF IInv, TypeOK, MasterTypeOK
  <2>4. \A c, d \in Channels : (config_map[c] - Lap(c)) - (config_map[d] - Lap(d)) <= 1
    BY <2>1
  <2>5. \A c, d \in Channels : (config_map'[c] - Lap(c)') - (config_map'[d] - Lap(d)') <= 1
    BY <2>3, <2>4
  <2>6. \A c \in Channels : config_map'[c] \in Nat /\ Lap(c)' \in {0, 1}
    BY <2>1, <2>2 DEF IInv, TypeOK, MasterTypeOK
  <2>7. LoadSpread'
    BY <2>5, <2>6 DEF LoadSpread
  <2> QED BY <2>1, <2>5, <2>7
<1>3. CASE DistributeRedis
  <2>1. /\ masterpc = "redis" /\ masterpc' \in {"idle", "add"} /\ rr' = rr + 1
        /\ config_map' = config_map
    BY <1>3 DEF DistributeRedis, NextChannel
  <2>2. (rr + 1) % workernum = IF (rr % workernum) + 1 = workernum THEN 0 ELSE (rr % workernum) + 1
    BY ModSucc, ChannelAssumption DEF IInv, TypeOK, MasterTypeOK
  <2>3. \A c \in Channels : /\ Lap(c) = (IF c <= (rr % workernum) + 1 THEN 1 ELSE 0)
                            /\ Lap(c)' = (IF c <= (rr + 1) % workernum THEN 1 ELSE 0)
    BY <2>1, LapFacts DEF Lap
  <2>4. \A c, d \in Channels : Lap(c)' - Lap(d)' = Lap(c) - Lap(d)
    BY <2>2, <2>3, LapFacts
  <2>5. \A c, d \in Channels : (config_map[c] - Lap(c)) - (config_map[d] - Lap(d)) <= 1
    BY <2>1
  <2>6. \A c \in Channels : Lap(c)' \in {0, 1}
    BY <2>3
  <2>7. \A c, d \in Channels : (config_map'[c] - Lap(c)') - (config_map'[d] - Lap(d)') <= 1
    BY <2>1, <2>4, <2>5, <2>6, LapFacts
  <2> QED BY <2>1, <2>7 DEF LoadSpread
<1>4. CASE \E conf \in Conf : PostNew(conf)
  <2>1. /\ masterpc' = masterpc /\ masterpc \in {"wait", "idle"} /\ rr' = rr
        /\ config_map' = [config_map EXCEPT ![LeastLoaded] = @ + 1]
    BY <1>4 DEF PostNew, Route, Ready
  <2>2. /\ LeastLoaded \in Channels
        /\ \A d \in Channels : config_map[LeastLoaded] <= config_map[d]
    BY LeastLoadedFound DEF IInv, TypeOK, MasterTypeOK
  <2>3. \A c \in Channels : config_map'[c] = IF c = LeastLoaded THEN config_map[c] + 1
                                             ELSE config_map[c]
    BY <2>1 DEF IInv, TypeOK, MasterTypeOK
  <2>4. LoadSpread'
    BY <2>2, <2>3, LapFacts DEF LoadSpread
  <2>5. CASE masterpc = "wait"
    <3>1. \A c \in Channels : Lap(c) = 0 /\ Lap(c)' = 0
      BY <2>1, <2>5 DEF Lap
    <3>2. \A c, d \in Channels : config_map[c] - config_map[d] <= 1
      BY <2>5, <3>1, LapFacts
    <3>3. \A c, d \in Channels : config_map'[c] - config_map'[d] <= 1
      BY <2>2, <2>3, <3>2, LapFacts
    <3>4. \A c \in Channels : config_map'[c] \in Nat
      BY <2>3, LapFacts
    <3>5. \A c, d \in Channels : (config_map'[c] - Lap(c)') - (config_map'[d] - Lap(d)') <= 1
      BY <3>1, <3>3, <3>4
    <3> QED BY <2>1, <2>4, <2>5, <3>5
  <2>6. CASE masterpc = "idle"
    BY <2>1, <2>4, <2>6
  <2> QED BY <2>1, <2>5, <2>6
<1>5. CASE UNCHANGED <<config_map, masterpc, rr>>
  <2>1. \A c \in Channels : Lap(c)' = Lap(c)
    BY <1>5 DEF Lap, RoundRobin
  <2> QED BY <1>5, <2>1 DEF LoadSpread
<1>6. \/ DistributeStart \/ DistributeAdd \/ DistributeRedis
      \/ \E conf \in Conf : PostNew(conf)
      \/ UNCHANGED <<config_map, masterpc, rr>>
  BY DEF Next, MasterStep, PostEdit, PostDelete, IgnoredRequest, RecvAck, MasterExit,
         PostNonInteger, vars, masterVars
<1> QED BY <1>1, <1>2, <1>3, <1>4, <1>5, <1>6

\* However requests and the distribution interleave, the vectors from which
\* deal_metric_request takes the shortest differ by at most two.
THEOREM LoadSpreadHolds == Spec => []LoadSpread
<1>1. Init => LoadInv
  BY LoadInit
<1>2. IInv /\ IInv' /\ LoadInv /\ [Next]_vars => LoadInv'
  BY LoadStep
<1>3. LoadInv => LoadSpread
  BY DEF LoadInv
<1> QED BY <1>1, <1>2, <1>3, Invariance, PTL DEF Spec
=============================================================================
