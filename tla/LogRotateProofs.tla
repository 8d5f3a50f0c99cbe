-------------------------- MODULE LogRotateProofs --------------------------
(***************************************************************************)
(* Proofs about LogRotate, for every number of workers and of rotations,   *)
(* every channel capacity and whatever fails.                              *)
(***************************************************************************)
EXTENDS LogRotate, DataFacts

-----------------------------------------------------------------------------
(* The inductive invariant *)

Increasing(s) == \A j, k \in DOMAIN s : j < k => s[j] < s[k]

\* Worker w has still to be served by the loop of the current rotation.
ToServe(w) == next # 0 /\ next <= w

\* The descriptor of the master is that of the last rotation, if it has one.
MasterInv == mlog \in {None, rot}

\* Every file a worker knows, or is about to get, is one of a past rotation,
\* and an earlier one than the current while the worker has yet to be served;
\* what is queued is in order and newer than what is open.
OrderInv ==
    \A w \in Workers :
        /\ Increasing(chan[w])
        /\ \A f \in open[w] :
              f <= rot /\ (ToServe(w) => f < rot)
        /\ \A k \in DOMAIN chan[w] :
              chan[w][k] <= rot /\ (ToServe(w) => chan[w][k] < rot)
        /\ \A f \in open[w] : \A k \in DOMAIN chan[w] : f < chan[w][k]

\* A worker that no rotation disturbed has at most one descriptor on its way:
\* in the channel or, between the two recvmsg(), in the control data.
QuietInv ==
    /\ mstat = "down" => disturbed = Workers
    /\ \A w \in Workers \ disturbed :
          /\ log[w] # None /\ open[w] = Owned(w)
          /\ Len(chan[w]) <= 1
          /\ recvpc[w] = "second" =>
                chan[w] = <<>> /\ recvfd[w] # None /\ recvfd[w] # log[w]

\* The file a worker will write to once it has taken what is on its way.
Latest(w) ==
    IF chan[w] # <<>> THEN Head(chan[w])
    ELSE IF recvpc[w] = "second" THEN recvfd[w] ELSE log[w]

\* The workers the loop has passed have, or will have, the file of the master.
ServedInv ==
    mlog # None => \A w \in Workers \ disturbed : ~ToServe(w) => Latest(w) = mlog

IInv == TypeOK /\ MasterInv /\ OrderInv /\ QuietInv /\ ServedInv

-----------------------------------------------------------------------------
(* Facts about the queues *)

\* The end of a queue: a newer descriptor keeps it in order.
LEMMA AppendInOrder ==
    ASSUME NEW s \in Seq(Files), NEW m \in Files, Increasing(s),
           \A k \in DOMAIN s : s[k] < m
    PROVE  /\ Append(s, m) \in Seq(Files) /\ Len(Append(s, m)) = Len(s) + 1
           /\ Increasing(Append(s, m))
           /\ Append(s, m) # <<>>
           /\ \A k \in DOMAIN Append(s, m) : \/ k \in DOMAIN s /\ Append(s, m)[k] = s[k]
                                             \/ Append(s, m)[k] = m
           /\ s = <<>> => Head(Append(s, m)) = m
<1> DEFINE t == Append(s, m)
<1>1. /\ t \in Seq(Files) /\ Len(t) = Len(s) + 1 /\ t # <<>>
      /\ Len(s) \in Nat /\ DOMAIN s = 1..Len(s) /\ DOMAIN t = 1..(Len(s) + 1)
      /\ t[Len(s) + 1] = m
      /\ \A k \in DOMAIN s : t[k] = s[k]
      /\ \A k \in DOMAIN t : k \in DOMAIN s \/ k = Len(s) + 1
  BY AppendFacts
<1>2. s = <<>> => Head(t) = m
  OBVIOUS
<1>4. Increasing(t)
  <2> SUFFICES ASSUME NEW j \in DOMAIN t, NEW k \in DOMAIN t, j < k PROVE t[j] < t[k]
    BY DEF Increasing
  <2>1. j \in DOMAIN s /\ t[j] = s[j]
    BY <1>1
  <2>2. CASE k = Len(s) + 1
    BY <1>1, <2>1, <2>2
  <2>3. CASE k # Len(s) + 1
    BY <1>1, <2>1, <2>3 DEF Increasing
  <2> QED BY <2>2, <2>3
<1> HIDE DEF t
<1>5. \A k \in DOMAIN t : (k \in DOMAIN s /\ t[k] = s[k]) \/ t[k] = m
  BY <1>1
<1> QED BY <1>1, <1>2, <1>4, <1>5 DEF t

\* The front of a queue: its head is older than the rest, which stays in order.
LEMMA TailInOrder ==
    ASSUME NEW s \in Seq(Files), s # <<>>, Increasing(s)
    PROVE  /\ Head(s) \in Files /\ Tail(s) \in Seq(Files) /\ Len(Tail(s)) = Len(s) - 1
           /\ Increasing(Tail(s))
           /\ Head(s) = s[1] /\ 1 \in DOMAIN s
           /\ \A k \in DOMAIN Tail(s) : /\ k + 1 \in DOMAIN s
                                       /\ Tail(s)[k] = s[k + 1]
                                       /\ Head(s) < Tail(s)[k]
<1>1. /\ Len(s) \in Nat \ {0} /\ DOMAIN s = 1..Len(s)
      /\ Tail(s) \in Seq(Files) /\ Len(Tail(s)) = Len(s) - 1
      /\ DOMAIN Tail(s) = 1..(Len(s) - 1)
      /\ Head(s) = s[1]
  OBVIOUS
<1>2. \A k \in 1..(Len(s) - 1) : Tail(s)[k] = s[k + 1]
  BY <1>1
<1>3. s[1] \in Files
  BY <1>1
<1> QED BY <1>1, <1>2, <1>3 DEF Increasing

-----------------------------------------------------------------------------
LEMMA InitIInv == Init => IInv
<1> SUFFICES ASSUME Init PROVE IInv
  OBVIOUS
<1> USE LogRotateAssumption
<1>1. TypeOK
  BY DEF Init, TypeOK, Workers, Files, Log
<1>2. MasterInv /\ OrderInv
  BY DEF Init, MasterInv, OrderInv, Increasing, ToServe, Files
<1>3. QuietInv
  BY DEF Init, QuietInv, Owned, Files
<1>4. ServedInv
  BY DEF Init, ServedInv, Latest
<1> QED BY <1>1, <1>2, <1>3, <1>4 DEF IInv

\* The loop variable stays in its range.
LEMMA AfterRange ==
    ASSUME NEW w \in Workers
    PROVE  After(w) \in 0..workernum /\ (After(w) = 0 <=> w = workernum)
                                     /\ (After(w) # 0 => After(w) = w + 1)
  BY LogRotateAssumption DEF After, Workers

LEMMA SplitLogStep == IInv /\ SplitLog => IInv'
<1> SUFFICES ASSUME IInv, SplitLog PROVE IInv'
  OBVIOUS
<1> USE LogRotateAssumption
<1>1. /\ rot' = rot + 1 /\ rot' \in Files /\ rot \in Files /\ mlog' \in {rot', None} /\ next' = 1
      /\ UNCHANGED <<mstat, chan, disturbed, wstat, log, open, recvpc, recvfd>>
      /\ TypeOK
  BY DEF IInv, TypeOK, SplitLog, NewLog, workerVars, Files
<1>2. TypeOK'
  BY <1>1 DEF TypeOK, Log
<1>3. MasterInv'
  BY <1>1 DEF MasterInv
<1>4. OrderInv'
  <2>1. \A w \in Workers : \A f \in open[w] : f \in Files
    BY <1>1 DEF TypeOK
  <2>2. \A w \in Workers : \A k \in DOMAIN chan[w] : chan[w][k] \in Files
    BY <1>1 DEF TypeOK
  <2> QED BY <1>1, <2>1, <2>2 DEF IInv, OrderInv, ToServe, Files
<1>5. QuietInv'
  BY <1>1 DEF IInv, QuietInv, Owned
<1>6. ServedInv'
  BY <1>1 DEF ServedInv, ToServe, Workers
<1> QED BY <1>2, <1>3, <1>4, <1>5, <1>6 DEF IInv

\* Once worker w is passed, the loop has only the workers after it to serve.
LEMMA Passed ==
    ASSUME TypeOK, NEW w \in Workers, next = w, next' = After(w), NEW v \in Workers
    PROVE  ToServe(v)' <=> ToServe(v) /\ v # w
  BY LogRotateAssumption DEF TypeOK, After, ToServe, Workers

LEMMA SendStep == ASSUME NEW w \in Workers, IInv, Send(w) PROVE IInv'
<1> USE LogRotateAssumption
<1> DEFINE s == chan[w]
           t == Append(chan[w], rot)
<1>1. /\ TypeOK /\ mlog = rot /\ rot \in Files /\ mlog # None /\ next = w
      /\ mstat = "up" /\ next' = After(w)
      /\ UNCHANGED <<mstat, rot, mlog, wstat, log, open, recvpc, recvfd>>
      /\ chan' = [chan EXCEPT ![w] = t] /\ Len(s) < Cap
      /\ disturbed' = IF AtRest(w) THEN disturbed ELSE disturbed \cup {w}
  BY DEF IInv, TypeOK, MasterInv, Send, Sending, workerVars
<1>2. ToServe(w)
  BY <1>1 DEF ToServe, Workers
<1>3. /\ s \in Seq(Files) /\ Increasing(s)
      /\ \A k \in DOMAIN s : s[k] < rot
      /\ \A f \in open[w] : f < rot
  BY <1>1, <1>2 DEF TypeOK, IInv, OrderInv
<1>4. /\ t \in Seq(Files) /\ Len(t) = Len(s) + 1 /\ Increasing(t) /\ t # <<>>
      /\ \A k \in DOMAIN t : (k \in DOMAIN s /\ t[k] = s[k]) \/ t[k] = rot
      /\ s = <<>> => Head(t) = rot
  BY <1>1, <1>3, AppendInOrder
<1>5. /\ chan' \in [Workers -> Seq(Files)]
      /\ chan'[w] = t
      /\ \A v \in Workers : v # w => chan'[v] = chan[v]
  BY <1>1, <1>4 DEF TypeOK
<1> HIDE DEF t
<1>6. TypeOK'
  <2>1. ASSUME NEW v \in Workers PROVE Len(chan'[v]) <= Cap
    <3>1. Len(s) \in Nat
      BY <1>3
    <3>2. CASE v = w
      BY <1>1, <1>4, <1>5, <3>1, <3>2
    <3>3. CASE v # w
      BY <1>1, <1>5, <3>3 DEF TypeOK
    <3> QED BY <3>2, <3>3
  <2> QED BY <1>1, <1>5, <2>1, AfterRange DEF TypeOK
<1>7. MasterInv'
  BY <1>1 DEF MasterInv
<1>8. OrderInv'
  <2> SUFFICES ASSUME NEW v \in Workers
               PROVE  /\ Increasing(chan'[v])
                      /\ \A f \in open[v] : f <= rot /\ (ToServe(v)' => f < rot)
                      /\ \A k \in DOMAIN chan'[v] :
                            chan'[v][k] <= rot /\ (ToServe(v)' => chan'[v][k] < rot)
                      /\ \A f \in open[v] : \A k \in DOMAIN chan'[v] : f < chan'[v][k]
    BY <1>1 DEF OrderInv
  <2>1. ToServe(v)' <=> ToServe(v) /\ v # w
    BY <1>1, Passed
  <2>2. CASE v = w
    <3>1. chan'[v] = t /\ Increasing(t) /\ ~ToServe(v)'
      BY <1>4, <1>5, <2>1, <2>2
    <3>2. \A f \in open[v] : f <= rot /\ f < rot
      BY <1>2, <2>2 DEF IInv, OrderInv
    <3>3. ASSUME NEW k \in DOMAIN t
          PROVE  t[k] <= rot /\ \A f \in open[w] : f < t[k]
      <4>1. CASE k \in DOMAIN s /\ t[k] = s[k]
        BY <4>1 DEF IInv, OrderInv
      <4>2. CASE t[k] = rot
        BY <1>1, <1>3, <4>2 DEF Files
      <4> QED BY <1>4, <4>1, <4>2
    <3> QED BY <2>2, <3>1, <3>2, <3>3
  <2>3. CASE v # w
    BY <1>5, <2>1, <2>3 DEF IInv, OrderInv
  <2> QED BY <2>2, <2>3
<1>9. QuietInv'
  <2>1. ASSUME NEW v \in Workers \ disturbed'
        PROVE  /\ log[v] # None /\ open[v] = Owned(v) /\ Len(chan'[v]) <= 1
               /\ recvpc[v] = "second" =>
                     chan'[v] = <<>> /\ recvfd[v] # None /\ recvfd[v] # log[v]
    <3>1. v \in Workers \ disturbed /\ (v = w => AtRest(w))
      BY <1>1
    <3>2. v = w => s = <<>> /\ recvpc[w] = "idle" /\ Len(t) = 1
      BY <1>4, <3>1 DEF AtRest
    <3>3. /\ log[v] # None /\ open[v] = Owned(v) /\ Len(chan[v]) <= 1
          /\ recvpc[v] = "second" =>
                chan[v] = <<>> /\ recvfd[v] # None /\ recvfd[v] # log[v]
      BY <3>1 DEF IInv, QuietInv
    <3>4. CASE v = w
      <4>1. Len(chan'[v]) <= 1
        <5>1. Len(chan'[v]) = Len(t)
          BY <1>5, <3>4
        <5>2. Len(t) = 1
          BY <3>2, <3>4
        <5> QED BY <5>1, <5>2
      <4>2. recvpc[v] # "second"
        BY <3>2, <3>4
      <4> QED BY <3>3, <4>1, <4>2
    <3>5. CASE v # w
      BY <1>5, <3>3, <3>5
    <3> QED BY <3>4, <3>5
  <2> QED BY <1>1, <2>1 DEF QuietInv, Owned
<1>10. ServedInv'
  <2> SUFFICES ASSUME NEW v \in Workers \ disturbed', ~ToServe(v)' PROVE Latest(v)' = rot
    BY <1>1 DEF ServedInv
  <2>1. ToServe(v)' <=> ToServe(v) /\ v # w
    BY <1>1, Passed
  <2>2. CASE v = w
    BY <1>1, <1>4, <1>5, <2>2 DEF AtRest, Latest
  <2>3. CASE v # w
    <3>1. v \in Workers \ disturbed /\ ~ToServe(v)
      BY <1>1, <2>1, <2>3
    <3> QED BY <1>1, <1>5, <2>3, <3>1 DEF IInv, ServedInv, Latest
  <2> QED BY <2>2, <2>3
<1> QED BY <1>6, <1>7, <1>8, <1>9, <1>10 DEF IInv

\* The loop goes on and nothing is queued.
LEMMA SkipStep ==
    ASSUME NEW w \in Workers, IInv, next = w, next' = After(w),
           disturbed \subseteq disturbed', disturbed' \subseteq Workers,
           mlog # None => w \in disturbed',
           UNCHANGED <<mstat, rot, mlog, chan, workerVars>>
    PROVE  IInv'
<1> USE LogRotateAssumption
<1>1. TypeOK /\ UNCHANGED <<wstat, log, open, recvpc, recvfd>>
  BY DEF IInv, workerVars
<1>2. TypeOK'
  BY <1>1, AfterRange DEF TypeOK
<1>3. MasterInv'
  BY DEF IInv, MasterInv
<1>4. \A v \in Workers : ToServe(v)' <=> ToServe(v) /\ v # w
  BY <1>1, Passed
<1>5. OrderInv'
  BY <1>1, <1>4 DEF IInv, OrderInv
<1>6. QuietInv'
  BY <1>1 DEF IInv, QuietInv, Owned, TypeOK
<1>7. ServedInv'
  <2> SUFFICES ASSUME mlog # None, NEW v \in Workers \ disturbed', ~ToServe(v)'
               PROVE  Latest(v)' = mlog
    BY <1>1 DEF ServedInv
  <2>1. v \in Workers \ disturbed /\ ~ToServe(v)
    BY <1>4
  <2> QED BY <1>1, <2>1 DEF IInv, ServedInv, Latest
<1> QED BY <1>2, <1>3, <1>5, <1>6, <1>7 DEF IInv

\* The master ends: from now on every worker counts as disturbed.
LEMMA DownStep ==
    ASSUME IInv, mstat' = "down", next' = 0, disturbed' = Workers,
           UNCHANGED <<rot, mlog, chan, workerVars>>
    PROVE  IInv'
<1> USE LogRotateAssumption
<1>1. TypeOK /\ UNCHANGED <<wstat, log, open, recvpc, recvfd>>
  BY DEF IInv, workerVars
<1>2. TypeOK'
  BY <1>1 DEF TypeOK
<1>3. MasterInv' /\ OrderInv'
  BY <1>1 DEF IInv, MasterInv, OrderInv, ToServe
<1>4. QuietInv' /\ ServedInv'
  BY DEF QuietInv, ServedInv
<1> QED BY <1>2, <1>3, <1>4 DEF IInv

\* recvmsg() takes the head of the queue and the worker installs it or drops it.
LEMMA InstalledFacts ==
    ASSUME NEW w \in Workers, IInv, chan[w] # <<>>, NEW room \in BOOLEAN,
           Installed(w, Head(chan[w]), room)
    PROVE  /\ chan' \in [Workers -> Seq(Files)]
           /\ chan'[w] = Tail(chan[w])
           /\ \A v \in Workers : v # w => chan'[v] = chan[v]
           /\ \A v \in Workers : Len(chan'[v]) <= Cap
           /\ recvfd' \in [Workers -> Log]
           /\ recvfd'[w] \in {Head(chan[w]), None}
           /\ \A v \in Workers : v # w => recvfd'[v] = recvfd[v]
           /\ disturbed \subseteq disturbed' /\ disturbed' \subseteq Workers
           /\ \A v \in Workers \ disturbed' :
                 v \in Workers \ disturbed /\ (v = w => recvfd'[w] = Head(chan[w]))
<1> USE LogRotateAssumption
<1>1. TypeOK /\ chan[w] \in Seq(Files) /\ Increasing(chan[w])
  BY DEF IInv, TypeOK, OrderInv
<1>2. /\ Head(chan[w]) \in Files /\ Tail(chan[w]) \in Seq(Files)
      /\ Len(Tail(chan[w])) = Len(chan[w]) - 1 /\ Len(chan[w]) \in Nat
  BY <1>1, TailInOrder
<1>3. chan' = [chan EXCEPT ![w] = Tail(chan[w])]
  BY DEF Installed
<1>4. /\ chan' \in [Workers -> Seq(Files)]
      /\ chan'[w] = Tail(chan[w])
      /\ \A v \in Workers : v # w => chan'[v] = chan[v]
  BY <1>1, <1>2, <1>3 DEF TypeOK
<1>5. ASSUME NEW v \in Workers PROVE Len(chan'[v]) <= Cap
  <2>1. Len(chan[v]) <= Cap /\ chan[v] \in Seq(Files)
    BY <1>1 DEF TypeOK
  <2>2. CASE v = w
    BY <1>2, <1>4, <2>1, <2>2
  <2>3. CASE v # w
    BY <1>4, <2>1, <2>3
  <2> QED BY <2>2, <2>3
<1>6. PICK r \in {Head(chan[w]), None} : recvfd' = [recvfd EXCEPT ![w] = r]
  BY DEF Installed
<1>7. /\ recvfd' \in [Workers -> Log] /\ recvfd'[w] = r
      /\ \A v \in Workers : v # w => recvfd'[v] = recvfd[v]
  BY <1>1, <1>2, <1>6 DEF TypeOK, Log
<1>8. disturbed' = IF recvfd'[w] = None THEN disturbed \cup {w} ELSE disturbed
  BY DEF Installed
<1>9. disturbed \subseteq disturbed' /\ disturbed' \subseteq Workers
  BY <1>1, <1>8 DEF TypeOK
<1> QED BY <1>4, <1>5, <1>6, <1>7, <1>8, <1>9

\* What a step that takes the head of a queue leaves of the order: the worker
\* has open what it had and the head, or less.
LEMMA TakenOrder ==
    ASSUME NEW w \in Workers, IInv, chan[w] # <<>>,
           chan'[w] = Tail(chan[w]),
           \A v \in Workers : v # w => chan'[v] = chan[v] /\ open'[v] = open[v],
           open'[w] \subseteq open[w] \cup {Head(chan[w])},
           UNCHANGED <<rot, next>>
    PROVE  OrderInv'
<1> SUFFICES ASSUME NEW v \in Workers
             PROVE  /\ Increasing(chan'[v])
                    /\ \A f \in open'[v] : f <= rot /\ (ToServe(v) => f < rot)
                    /\ \A k \in DOMAIN chan'[v] :
                          chan'[v][k] <= rot /\ (ToServe(v) => chan'[v][k] < rot)
                    /\ \A f \in open'[v] : \A k \in DOMAIN chan'[v] : f < chan'[v][k]
  BY DEF OrderInv, ToServe
<1>1. CASE v # w
  BY <1>1 DEF IInv, OrderInv
<1>2. CASE v = w
  <2> DEFINE s == chan[w]
             h == Head(chan[w])
             t == Tail(chan[w])
  <2>1. s \in Seq(Files) /\ s # <<>> /\ Increasing(s)
    BY DEF IInv, TypeOK, OrderInv
  <2>2. /\ Increasing(t) /\ h = s[1] /\ 1 \in DOMAIN s
        /\ \A k \in DOMAIN t : k + 1 \in DOMAIN s /\ t[k] = s[k + 1] /\ h < t[k]
    BY <2>1, TailInOrder
  <2>3. /\ \A f \in open[w] : f <= rot /\ (ToServe(w) => f < rot)
        /\ \A k \in DOMAIN s : s[k] <= rot /\ (ToServe(w) => s[k] < rot)
        /\ \A f \in open[w] : \A k \in DOMAIN s : f < s[k]
    BY DEF IInv, OrderInv
  <2> HIDE DEF s, h, t
  <2>4. /\ \A f \in open[w] \cup {h} : f <= rot /\ (ToServe(w) => f < rot)
        /\ \A k \in DOMAIN t : t[k] <= rot /\ (ToServe(w) => t[k] < rot)
        /\ \A f \in open[w] \cup {h} : \A k \in DOMAIN t : f < t[k]
    BY <2>2, <2>3
  <2>5. chan'[v] = t /\ open'[v] \subseteq open[w] \cup {h}
    BY <1>2 DEF t, h
  <2> QED BY <1>2, <2>2, <2>4, <2>5
<1> QED BY <1>1, <1>2

\* Between the two calls of recvmsg().
LEMMA RecvFirstStep == ASSUME NEW w \in Workers, IInv, RecvFirst(w) PROVE IInv'
<1> USE LogRotateAssumption
<1>1. /\ TypeOK /\ wstat[w] = "up" /\ recvpc[w] = "idle"
      /\ recvpc' = [recvpc EXCEPT ![w] = "second"]
      /\ UNCHANGED <<mstat, rot, mlog, next, wstat, log>>
  BY DEF IInv, RecvFirst
<1>2. /\ recvpc' \in [Workers -> {"idle", "second"}] /\ recvpc'[w] = "second"
      /\ \A v \in Workers : v # w => recvpc'[v] = recvpc[v]
  BY <1>1 DEF TypeOK
<1>3. \A v \in Workers : ToServe(v)' <=> ToServe(v)
  BY <1>1 DEF ToServe
<1>4. MasterInv'
  BY <1>1 DEF IInv, MasterInv
<1>5. CASE chan[w] # <<>>
  <2> DEFINE h == Head(chan[w])
  <2>1. /\ Installed(w, h, TRUE)
        /\ open' = [open EXCEPT ![w] = @ \cup ({recvfd'[w]} \ {None})]
    BY <1>5 DEF RecvFirst
  <2>2. /\ chan' \in [Workers -> Seq(Files)]
        /\ chan'[w] = Tail(chan[w])
        /\ \A v \in Workers : v # w => chan'[v] = chan[v]
        /\ \A v \in Workers : Len(chan'[v]) <= Cap
        /\ recvfd' \in [Workers -> Log]
        /\ recvfd'[w] \in {h, None}
        /\ \A v \in Workers : v # w => recvfd'[v] = recvfd[v]
        /\ disturbed \subseteq disturbed' /\ disturbed' \subseteq Workers
        /\ \A v \in Workers \ disturbed' :
              v \in Workers \ disturbed /\ (v = w => recvfd'[w] = h)
    BY <1>5, <2>1, InstalledFacts
  <2>3. /\ chan[w] \in Seq(Files) /\ h \in Files /\ Len(Tail(chan[w])) = Len(chan[w]) - 1
        /\ h = chan[w][1] /\ 1 \in DOMAIN chan[w] /\ Tail(chan[w]) \in Seq(Files)
    BY <1>5, TailInOrder DEF IInv, TypeOK, OrderInv
  <2>4. /\ open' \in [Workers -> SUBSET Files]
        /\ open'[w] = open[w] \cup ({recvfd'[w]} \ {None})
        /\ \A v \in Workers : v # w => open'[v] = open[v]
    BY <1>1, <2>1, <2>2, <2>3 DEF TypeOK
  <2>5. TypeOK'
    BY <1>1, <1>2, <2>2, <2>4 DEF TypeOK
  <2>6. OrderInv'
    BY <1>1, <1>5, <2>2, <2>4, TakenOrder
  <2>7. QuietInv'
    <3>1. mstat' = "down" => disturbed' = Workers
      BY <1>1, <2>2 DEF IInv, QuietInv
    <3>2. ASSUME NEW v \in Workers \ disturbed'
          PROVE  /\ log[v] # None /\ open'[v] = Owned(v)' /\ Len(chan'[v]) <= 1
                 /\ recvpc'[v] = "second" =>
                       chan'[v] = <<>> /\ recvfd'[v] # None /\ recvfd'[v] # log[v]
      <4>1. /\ v \in Workers \ disturbed
            /\ log[v] # None /\ open[v] = Owned(v) /\ Len(chan[v]) <= 1
            /\ recvpc[v] = "second" =>
                  chan[v] = <<>> /\ recvfd[v] # None /\ recvfd[v] # log[v]
        BY <2>2 DEF IInv, QuietInv
      <4>2. CASE v # w
        BY <1>1, <1>2, <2>2, <2>4, <4>1, <4>2 DEF Owned
      <4>3. CASE v = w
        <5>1. recvfd'[w] = h /\ h # None
          BY <2>2, <2>3, <4>3
        <5>2. open[w] = {log[w]}
          BY <1>1, <4>1, <4>3 DEF Owned
        <5>3. log[w] < h
          <6>1. log[w] \in open[w]
            BY <5>2
          <6>2. \A f \in open[w] : \A k \in DOMAIN chan[w] : f < chan[w][k]
            BY DEF IInv, OrderInv
          <6> QED BY <2>3, <6>1, <6>2
        <5>4. log[w] # h
          BY <2>3, <4>1, <4>3, <1>1, <5>3 DEF TypeOK, Log, Files
        <5>5. Tail(chan[w]) = <<>>
          BY <2>3, <4>1, <4>3
        <5>6. open'[w] = Owned(w)'
          BY <1>1, <1>2, <2>4, <4>1, <4>3, <5>1, <5>2 DEF Owned
        <5>7. chan'[v] = <<>> /\ Len(chan'[v]) <= 1
          <6>1. chan'[v] = <<>>
            BY <2>2, <4>3, <5>5
          <6> QED BY <6>1
        <5>8. open'[v] = Owned(v)'
          BY <4>3, <5>6 DEF Owned
        <5>9. recvfd'[v] # None /\ recvfd'[v] # log[v]
          BY <4>3, <5>1, <5>4
        <5> QED BY <4>1, <5>7, <5>8, <5>9
      <4> QED BY <4>2, <4>3
    <3> QED BY <1>1, <3>1, <3>2 DEF QuietInv
  <2>8. ServedInv'
    <3> SUFFICES ASSUME mlog # None, NEW v \in Workers \ disturbed', ~ToServe(v)
                 PROVE  Latest(v)' = mlog
      BY <1>1, <1>3 DEF ServedInv
    <3>1. v \in Workers \ disturbed /\ Latest(v) = mlog /\ Len(chan[v]) <= 1
      BY <2>2 DEF IInv, ServedInv, QuietInv
    <3>2. CASE v # w
      BY <1>1, <1>2, <2>2, <3>1, <3>2 DEF Latest
    <3>3. CASE v = w
      <4>1. Tail(chan[w]) = <<>>
        BY <2>3, <3>1, <3>3
      <4>2. recvfd'[w] = h /\ Latest(w) = h
        BY <1>5, <2>2, <3>3 DEF Latest
      <4> QED BY <1>2, <2>2, <3>1, <3>3, <4>1, <4>2 DEF Latest
    <3> QED BY <3>2, <3>3
  <2> QED BY <1>4, <2>5, <2>6, <2>7, <2>8 DEF IInv
<1>6. CASE chan[w] = <<>>
  <2>1. /\ mstat = "down" /\ recvfd' = [recvfd EXCEPT ![w] = None]
        /\ UNCHANGED <<chan, open, disturbed>>
    BY <1>6 DEF RecvFirst
  <2>2. TypeOK'
    BY <1>1, <1>2, <2>1 DEF TypeOK, Log
  <2>3. disturbed = Workers
    BY <2>1 DEF IInv, QuietInv
  <2>4. OrderInv'
    BY <1>1, <1>3, <2>1 DEF IInv, OrderInv
  <2>5. QuietInv' /\ ServedInv'
    BY <2>1, <2>3 DEF QuietInv, ServedInv
  <2> QED BY <1>4, <2>2, <2>4, <2>5 DEF IInv
<1> QED BY <1>5, <1>6

\* The second call found a descriptor as well: the worker was disturbed.
LEMMA RecvSecondStep == ASSUME NEW w \in Workers, IInv, RecvSecond(w) PROVE IInv'
<1> USE LogRotateAssumption
<1> DEFINE h == Head(chan[w])
<1>1. /\ TypeOK /\ recvpc[w] = "second" /\ chan[w] # <<>>
      /\ Installed(w, h, recvfd[w] # None)
      /\ log' = [log EXCEPT ![w] = recvfd'[w]]
      /\ open' = [open EXCEPT ![w] = (@ \cup ({recvfd'[w]} \ {None})) \ {log[w]}]
      /\ recvpc' = [recvpc EXCEPT ![w] = "idle"]
      /\ UNCHANGED <<mstat, rot, mlog, next, wstat>>
  BY DEF IInv, RecvSecond, Closed
<1>2. /\ chan' \in [Workers -> Seq(Files)]
      /\ chan'[w] = Tail(chan[w])
      /\ \A v \in Workers : v # w => chan'[v] = chan[v]
      /\ \A v \in Workers : Len(chan'[v]) <= Cap
      /\ recvfd' \in [Workers -> Log]
      /\ recvfd'[w] \in {h, None}
      /\ \A v \in Workers : v # w => recvfd'[v] = recvfd[v]
      /\ disturbed \subseteq disturbed' /\ disturbed' \subseteq Workers
      /\ \A v \in Workers \ disturbed' : v \in Workers \ disturbed
  BY <1>1, InstalledFacts
<1>3. h \in Files
  BY <1>1, TailInOrder DEF IInv, TypeOK, OrderInv
<1>4. /\ open' \in [Workers -> SUBSET Files]
      /\ open'[w] \subseteq open[w] \cup {h}
      /\ log' \in [Workers -> Log]
      /\ recvpc' \in [Workers -> {"idle", "second"}]
      /\ \A v \in Workers : v # w => /\ open'[v] = open[v] /\ log'[v] = log[v]
                                     /\ recvpc'[v] = recvpc[v]
  <2>1. ({recvfd'[w]} \ {None}) \subseteq {h}
    BY <1>2
  <2> QED BY <1>1, <1>2, <1>3, <2>1 DEF TypeOK
<1>5. w \in disturbed
  BY <1>1 DEF IInv, QuietInv
<1>6. TypeOK'
  BY <1>1, <1>2, <1>4 DEF TypeOK
<1>7. MasterInv'
  BY <1>1 DEF IInv, MasterInv
<1>8. OrderInv'
  BY <1>1, <1>2, <1>4, TakenOrder
<1>9. \A v \in Workers \ disturbed' :
         /\ v \in Workers \ disturbed
         /\ chan'[v] = chan[v] /\ recvfd'[v] = recvfd[v]
         /\ open'[v] = open[v] /\ log'[v] = log[v] /\ recvpc'[v] = recvpc[v]
  BY <1>2, <1>4, <1>5
<1>10. QuietInv'
  <2>1. mstat' = "down" => disturbed' = Workers
    BY <1>1, <1>2 DEF IInv, QuietInv
  <2> QED BY <1>9, <2>1 DEF IInv, QuietInv, Owned
<1>11. ServedInv'
  BY <1>1, <1>9 DEF IInv, ServedInv, ToServe, Latest
<1> QED BY <1>6, <1>7, <1>8, <1>10, <1>11 DEF IInv

\* The second call found nothing: the worker takes the descriptor of the first.
LEMMA RecvNothingStep == ASSUME NEW w \in Workers, IInv, RecvNothing(w) PROVE IInv'
<1> USE LogRotateAssumption
<1>1. /\ TypeOK /\ recvpc[w] = "second" /\ chan[w] = <<>>
      /\ log' = [log EXCEPT ![w] = Returned(w)]
      /\ open' = [open EXCEPT ![w] = @ \ {log[w]}]
      /\ recvpc' = [recvpc EXCEPT ![w] = "idle"]
      /\ UNCHANGED <<mstat, rot, mlog, next, chan, disturbed, wstat, recvfd>>
  BY DEF IInv, RecvNothing, Closed
<1>2. Returned(w) \in Log /\ (mstat = "up" => Returned(w) = recvfd[w])
  BY <1>1 DEF Returned, TypeOK, Log
<1>3. /\ open' \in [Workers -> SUBSET Files] /\ log' \in [Workers -> Log]
      /\ recvpc' \in [Workers -> {"idle", "second"}]
      /\ open'[w] = open[w] \ {log[w]} /\ log'[w] = Returned(w) /\ recvpc'[w] = "idle"
      /\ \A v \in Workers : v # w => /\ open'[v] = open[v] /\ log'[v] = log[v]
                                     /\ recvpc'[v] = recvpc[v]
  BY <1>1, <1>2 DEF TypeOK
<1>4. TypeOK'
  BY <1>1, <1>3 DEF TypeOK
<1>5. MasterInv'
  BY <1>1 DEF IInv, MasterInv
<1>6. OrderInv'
  <2>1. \A v \in Workers : open'[v] \subseteq open[v]
    BY <1>3
  <2> QED BY <1>1, <2>1 DEF IInv, OrderInv, ToServe
<1>7. w \notin disturbed => /\ mstat = "up" /\ recvfd[w] # None /\ recvfd[w] # log[w]
                            /\ open[w] = {log[w], recvfd[w]} /\ log'[w] = recvfd[w]
  <2> SUFFICES ASSUME w \notin disturbed
               PROVE  /\ mstat = "up" /\ recvfd[w] # None /\ recvfd[w] # log[w]
                      /\ open[w] = {log[w], recvfd[w]} /\ log'[w] = recvfd[w]
    OBVIOUS
  <2>1. /\ mstat = "up" /\ recvfd[w] # None /\ recvfd[w] # log[w] /\ log[w] # None
        /\ open[w] = Owned(w)
    BY <1>1 DEF IInv, QuietInv, TypeOK
  <2>2. open[w] = {log[w], recvfd[w]}
    BY <1>1, <2>1 DEF Owned
  <2> QED BY <1>2, <1>3, <2>1, <2>2
<1>8. QuietInv'
  <2>1. ASSUME NEW v \in Workers \ disturbed
        PROVE  /\ log'[v] # None /\ open'[v] = Owned(v)' /\ Len(chan[v]) <= 1
               /\ recvpc'[v] = "second" =>
                     chan[v] = <<>> /\ recvfd[v] # None /\ recvfd[v] # log'[v]
    <3>1. CASE v = w
      <4>1. open'[w] = {recvfd[w]} /\ Owned(w)' = {recvfd[w]}
        BY <1>3, <1>7, <3>1 DEF Owned
      <4> QED BY <1>1, <1>3, <1>7, <3>1, <4>1 DEF Owned
    <3>2. CASE v # w
      BY <1>1, <1>3, <3>2 DEF IInv, QuietInv, Owned
    <3> QED BY <3>1, <3>2
  <2> QED BY <1>1, <2>1 DEF IInv, QuietInv
<1>9. ServedInv'
  <2> SUFFICES ASSUME mlog # None, NEW v \in Workers \ disturbed, ~ToServe(v)
               PROVE  Latest(v)' = mlog
    BY <1>1 DEF ServedInv, ToServe
  <2>1. Latest(v) = mlog
    BY DEF IInv, ServedInv
  <2>2. CASE v = w
    BY <1>1, <1>3, <1>7, <2>1, <2>2 DEF Latest
  <2>3. CASE v # w
    BY <1>1, <1>3, <2>1, <2>3 DEF Latest
  <2> QED BY <2>2, <2>3
<1> QED BY <1>4, <1>5, <1>6, <1>8, <1>9 DEF IInv

LEMMA WorkerDiesStep == ASSUME NEW w \in Workers, IInv, WorkerDies(w) PROVE IInv'
<1>1. /\ TypeOK /\ wstat' = [wstat EXCEPT ![w] = "down"]
      /\ UNCHANGED <<mstat, rot, mlog, next, chan, disturbed, log, open, recvpc, recvfd>>
  BY DEF IInv, WorkerDies
<1>2. TypeOK'
  BY <1>1 DEF TypeOK
<1>3. MasterInv' /\ OrderInv'
  BY <1>1 DEF IInv, MasterInv, OrderInv, ToServe
<1>4. QuietInv' /\ ServedInv'
  BY <1>1 DEF IInv, QuietInv, Owned, ServedInv, ToServe, Latest
<1> QED BY <1>2, <1>3, <1>4 DEF IInv

LEMMA NextIInv == IInv /\ [Next]_vars => IInv'
<1> SUFFICES ASSUME IInv, [Next]_vars PROVE IInv'
  OBVIOUS
<1>1. CASE SplitLog
  BY <1>1, SplitLogStep
<1>2. CASE MasterDies
  BY <1>2, DownStep DEF MasterDies
<1>3. ASSUME NEW w \in Workers, Send(w) PROVE IInv'
  BY <1>3, SendStep
<1>4. ASSUME NEW w \in Workers, SendRefused(w) PROVE IInv'
  <2>1. /\ next = w /\ next' = After(w) /\ disturbed \subseteq disturbed'
        /\ disturbed' \subseteq Workers /\ (mlog # None => w \in disturbed')
        /\ UNCHANGED <<mstat, rot, mlog, chan, workerVars>>
    BY <1>4 DEF SendRefused, Sending, IInv, TypeOK
  <2> QED BY <2>1, SkipStep
<1>5. ASSUME NEW w \in Workers, SendToDead(w) PROVE IInv'
  <2>1. CASE mlog # None
    BY <1>5, <2>1, DownStep DEF SendToDead
  <2>2. CASE mlog = None
    <3>1. /\ next = w /\ next' = After(w) /\ disturbed \subseteq disturbed'
          /\ disturbed' \subseteq Workers /\ (mlog # None => w \in disturbed')
          /\ UNCHANGED <<mstat, rot, mlog, chan, workerVars>>
      BY <1>5, <2>2 DEF SendToDead, IInv, TypeOK
    <3> QED BY <3>1, SkipStep
  <2> QED BY <2>1, <2>2
<1>6. ASSUME NEW w \in Workers, Receive(w) PROVE IInv'
  BY <1>6, RecvFirstStep, RecvSecondStep, RecvNothingStep DEF Receive
<1>7. ASSUME NEW w \in Workers, WorkerDies(w) PROVE IInv'
  BY <1>7, WorkerDiesStep
<1>8. CASE UNCHANGED vars
  <2>1. UNCHANGED <<mstat, rot, mlog, next, chan, disturbed, wstat, log, open, recvpc, recvfd>>
    BY <1>8 DEF vars, workerVars
  <2>2. TypeOK' /\ MasterInv' /\ OrderInv'
    BY <2>1 DEF IInv, TypeOK, MasterInv, OrderInv, ToServe
  <2>3. QuietInv' /\ ServedInv'
    BY <2>1 DEF IInv, QuietInv, Owned, ServedInv, ToServe, Latest
  <2> QED BY <2>2, <2>3 DEF IInv
<1> QED BY <1>1, <1>2, <1>3, <1>4, <1>5, <1>6, <1>7, <1>8 DEF Next

\* In every reachable state the invariant holds.
THEOREM Invariance == Spec => []IInv
<1>1. Init => IInv
  BY InitIInv
<1>2. IInv /\ [Next]_vars => IInv'
  BY NextIInv
<1> QED BY <1>1, <1>2, PTL DEF Spec

-----------------------------------------------------------------------------
(* Results *)

\* The loop of Master::split_log stays within its table, no channel holds more
\* than it can, and every descriptor is that of a file some rotation opened.
THEOREM TypeCorrect == Spec => []TypeOK
<1>1. IInv => TypeOK
  BY DEF IInv
<1> QED BY <1>1, Invariance, PTL

\* Whatever is lost, refused or delayed, and whoever ends, the descriptors on
\* the way to a worker are newer than those it has open and arrive in order:
\* no worker goes back to a log file that it has left.
THEOREM NeverOlderHolds == Spec => []NeverOlder
<1>1. IInv => NeverOlder
  <2> SUFFICES ASSUME IInv, NEW w \in Workers, NEW f \in open[w], NEW k \in DOMAIN chan[w]
               PROVE  f < chan[w][k] /\ \A j \in 1..(k-1) : chan[w][j] < chan[w][k]
    BY DEF NeverOlder
  <2>1. DOMAIN chan[w] = 1..Len(chan[w]) /\ Len(chan[w]) \in Nat
    BY DEF IInv, TypeOK
  <2>2. \A j \in 1..(k-1) : j \in DOMAIN chan[w] /\ j < k
    BY <2>1
  <2> QED BY <2>2 DEF IInv, OrderInv, Increasing
<1> QED BY <1>1, Invariance, PTL

\* A worker that met every rotation at rest has a log file to write to, and
\* its log descriptors are exactly the ones it should have: closing the old one
\* before the new one is known loses nothing and leaks nothing.
THEOREM OwnsItsLogHolds == Spec => []OwnsItsLog
<1>1. IInv => OwnsItsLog
  BY DEF IInv, QuietInv, OwnsItsLog
<1> QED BY <1>1, Invariance, PTL

\* After a rotation, when every worker is at rest, the workers that no rotation
\* disturbed write to the file of the master.
THEOREM SameLogHolds == Spec => []SameLog
<1>1. IInv => SameLog
  BY DEF IInv, ServedInv, SameLog, ToServe, AtRest, Latest
<1> QED BY <1>1, Invariance, PTL
=============================================================================
