--------------------------- MODULE CarefulProofs ---------------------------
(***************************************************************************)
(* Proofs about Prober when clients wait for the distribution and do not   *)
(* reuse ids, configurations are UDP tests of legal length and nothing     *)
(* dies, for every number of workers, configurations and requests and any  *)
(* capacity of the channels: unless its ADDCONF was lost, a test is held   *)
(* once, by the worker its route names, and a DELCONF finds it there.  As  *)
(* long as no channel fills up nothing is lost, and master and workers     *)
(* together implement Lifecycle.  The last part shows how large a channel  *)
(* has to be for that.                                                     *)
(***************************************************************************)
EXTENDS ProberProofs, FiniteSetTheorems, SequenceTheorems

\* The conditions under which deal_metric_request, delete_metric_request and
\* the workers keep one copy of a test.
Careful ==
    /\ ~Faults
    /\ {"waits", "fresh"} \subseteq Habits
    /\ \A c \in Conf : c.type = "UDP" /\ ~c.long

\* No write of the master finds the socket buffer of a channel full.
RoomLeft == \A w \in Channels : Len(down[w]) < ChanCap

-----------------------------------------------------------------------------
(* The inductive invariant *)

\* Positions in the queue q of the messages with operation op about id i.
Marks(q, op, i) == {k \in DOMAIN q : q[k].op = op /\ q[k].conf.id = i}

\* What the queue q and the set P of probing objects say of test i at one
\* worker: at most one thing stands for it, and there is at most one order to
\* delete, behind the order to add.
Orderly(q, P, i) ==
    /\ \A j, k \in Marks(q, "ADDCONF", i) : j = k
    /\ \A j, k \in P : j = k
    /\ Marks(q, "ADDCONF", i) = {} \/ P = {}
    /\ \A j, k \in Marks(q, "DELCONF", i) : j = k
    /\ \A j \in Marks(q, "ADDCONF", i), k \in Marks(q, "DELCONF", i) : j < k

\* Something at worker w makes, or will make, it probe for test i.
Stands(w, i) == Marks(InFlight(w), "ADDCONF", i) # {} \/ Probing(w, i) # {}

\* Master and workers run.
AliveInv == mstat = "up" /\ \A w \in Channels : wstat[w] = "up"

\* Every ADDCONF the master wrote came through.
AllHanded == issued \subseteq handed

\* A worker to which an ADDCONF was written is the one the test's route names.
IssuedOnceInv ==
    \A w \in Channels, i \in Ids : <<w, i>> \in issued => configid_channel_map[i] = w

\* What the iterator of distribute_conf has not passed has no route.
UnroutedInv ==
    /\ masterpc = "wait" => \A i \in Ids : configid_channel_map[i] = Stdin
    /\ masterpc = "add" => \A i \in todo : configid_channel_map[i] = Stdin
    /\ masterpc = "redis" =>
          \A i \in todo : ~IsCurrent(i) => configid_channel_map[i] = Stdin

\* A test with a route is there or was deleted, and a deleted test is not
\* there.
LifeInv ==
    /\ \A i \in Ids : configid_channel_map[i] # Stdin => i \in Live \cup retired
    /\ Live \cap retired = {}

\* Each worker's queue and objects are orderly about each test.  Unless its
\* ADDCONF was lost, a test stands where an order to delete it is on the way;
\* one that the master holds stands at its route, and no order to delete it is
\* on the way.
OrderInv == \A w \in Channels, i \in Ids : Orderly(InFlight(w), Probing(w, i), i)
FindInv ==
    \A w \in Channels, i \in Ids :
        <<w, i>> \in handed /\ Marks(InFlight(w), "DELCONF", i) # {} => Stands(w, i)
HoldInv ==
    \A w \in Channels, i \in Live :
        /\ configid_channel_map[i] = w /\ <<w, i>> \in handed => Stands(w, i)
        /\ Marks(InFlight(w), "DELCONF", i) = {}

CarefulInv ==
    /\ IInv
    /\ AliveInv
    /\ IssuedOnceInv /\ UnroutedInv /\ LifeInv
    /\ OrderInv /\ FindInv /\ HoldInv
    /\ TestMapComplete

-----------------------------------------------------------------------------
(* What a step means to a client *)

Runs(i) == \E w \in Channels : Probing(w, i) # {}
Somewhere(i) == \E w \in Channels : Stands(w, i)

\* Nothing that the phase of test i depends on changes.
Same(i) ==
    /\ i \in Live' <=> i \in Live
    /\ i \in retired' <=> i \in retired
    /\ i \in Live => (Runs(i)' <=> Runs(i))
    /\ i \notin Live => (Somewhere(i)' <=> Somewhere(i))

\* Test i is accepted, starts, is deleted, or stops.
Accepted(i) == i \notin Live /\ i \notin retired /\ ~Somewhere(i) /\ i \in Live' /\ ~Runs(i)'
Started(i) == i \in Live /\ ~Runs(i) /\ i \in Live' /\ Runs(i)'
Deleted(i) == i \in Live /\ i \notin Live' /\ Somewhere(i)'
Stopped(i) ==
    i \notin Live /\ Somewhere(i) /\ i \notin Live' /\ ~Somewhere(i)' /\ i \in retired'

\* At most one test moves on.
Moves ==
    \E i \in Ids : /\ \A j \in Ids \ {i} : Same(j)
                   /\ Accepted(i) \/ Started(i) \/ Deleted(i) \/ Stopped(i)
Outcome == (\A i \in Ids : Same(i)) \/ Moves

\* The tables of the workers' tests do not change.
TestsKept == tests' = tests /\ armed' = armed /\ test_map' = test_map

-----------------------------------------------------------------------------
(* Facts about data *)

\* Writing to the second of two queues writes to their concatenation.
LEMMA ConcatAppend ==
    ASSUME NEW S, NEW a \in Seq(S), NEW b \in Seq(S), NEW e \in S
    PROVE  a \o Append(b, e) = Append(a \o b, e)
<1> DEFINE l == a \o Append(b, e)
           r == Append(a \o b, e)
<1>1. l \in Seq(S) /\ r \in Seq(S) /\ Len(l) = Len(r)
  OBVIOUS
<1>2. \A k \in 1..Len(l) : l[k] = r[k]
  OBVIOUS
<1> QED BY <1>1, <1>2

\* Concatenation is associative.
LEMMA ConcatAssoc ==
    ASSUME NEW S, NEW a \in Seq(S), NEW b \in Seq(S), NEW c \in Seq(S)
    PROVE  (a \o b) \o c = a \o (b \o c)
<1> DEFINE l == (a \o b) \o c
           r == a \o (b \o c)
<1>1. l \in Seq(S) /\ r \in Seq(S)
  OBVIOUS
<1>2. Len(l) = Len(r)
  OBVIOUS
<1>3. \A n \in 1..Len(l) : l[n] = r[n]
  OBVIOUS
<1> HIDE DEF l, r
<1>4. l = r
  BY <1>1, <1>2, <1>3, SeqEqual
<1> QED BY <1>4 DEF l, r

\* Moving a prefix from the second of two queues to the first keeps their
\* concatenation.
LEMMA ConcatMove ==
    ASSUME NEW S
    PROVE  \A a, b \in Seq(S) : \A k \in 1..Len(b) :
               (a \o SubSeq(b, 1, k)) \o SubSeq(b, k + 1, Len(b)) = a \o b
<1>1. \A a, p, q \in Seq(S) : (a \o p) \o q = a \o (p \o q)
  BY ConcatAssoc
<1> TAKE a, b \in Seq(S)
<1> TAKE k \in 1..Len(b)
<1> DEFINE p == SubSeq(b, 1, k)
           q == SubSeq(b, k + 1, Len(b))
<1>2. p \in Seq(S) /\ q \in Seq(S)
  BY PrefixSeq
<1>3. p \o q = b
  <2>1. 1 \in 1..Len(b) + 1 /\ k \in 1 - 1..Len(b) /\ Len(b) \in k..Len(b)
    OBVIOUS
  <2>2. p \o q = SubSeq(b, 1, Len(b))
    BY <2>1, ConcatAdjacentSubSeq
  <2> QED BY <2>2, SubSeqFull
<1> HIDE DEF p, q
<1>4. (a \o p) \o q = a \o (p \o q)
  BY <1>1, <1>2
<1>5. (a \o p) \o q = a \o b
  BY <1>3, <1>4, Zenon
<1> QED BY <1>5 DEF p, q

\* Taking the head of the first of two queues takes it from the concatenation.
LEMMA ConcatTail ==
    ASSUME NEW S, NEW a \in Seq(S), NEW b \in Seq(S), a # <<>>
    PROVE  /\ a \o b # <<>> /\ a \o b \in Seq(S)
           /\ Head(a \o b) = Head(a)
           /\ Tail(a) \o b = Tail(a \o b)
<1>1. /\ a \o b # <<>> /\ a \o b \in Seq(S) /\ Head(a \o b) = Head(a)
  OBVIOUS
<1>2. /\ Tail(a) \o b \in Seq(S) /\ Tail(a \o b) \in Seq(S)
      /\ Len(Tail(a) \o b) = Len(Tail(a \o b))
  OBVIOUS
<1>3. \A k \in 1..Len(Tail(a \o b)) : (Tail(a) \o b)[k] = Tail(a \o b)[k]
  OBVIOUS
<1> QED BY <1>1, <1>2, <1>3

\* What appending a message does to the marks.
LEMMA AppendMarks ==
    ASSUME NEW S, NEW q \in Seq(S), NEW m \in S, NEW op, NEW i
    PROVE  Marks(Append(q, m), op, i) =
              IF m.op = op /\ m.conf.id = i THEN Marks(q, op, i) \cup {Len(q) + 1}
              ELSE Marks(q, op, i)
<1> DEFINE a == Append(q, m)
<1>1. /\ Len(q) \in Nat /\ DOMAIN q = 1..Len(q) /\ DOMAIN a = 1..(Len(q) + 1)
      /\ a[Len(q) + 1] = m
      /\ \A k \in DOMAIN q : k \in DOMAIN a /\ a[k] = q[k]
      /\ \A k \in DOMAIN a : k \in DOMAIN q \/ k = Len(q) + 1
  BY AppendFacts
<1>2. Len(q) + 1 \in DOMAIN a
  BY <1>1
<1> HIDE DEF a
<1>3. Marks(a, op, i) = IF m.op = op /\ m.conf.id = i THEN Marks(q, op, i) \cup {Len(q) + 1}
                        ELSE Marks(q, op, i)
  BY <1>1, <1>2 DEF Marks
<1> QED BY <1>3 DEF a

\* What taking the head does to the marks: they move one place down.
LEMMA TailMarks ==
    ASSUME NEW S, NEW q \in Seq(S), q # <<>>, NEW op, NEW i
    PROVE  /\ 1 \in Marks(q, op, i) <=> Head(q).op = op /\ Head(q).conf.id = i
           /\ \A k : k \in Marks(Tail(q), op, i) =>
                        k \in Nat /\ k >= 1 /\ k + 1 \in Marks(q, op, i)
           /\ \A k \in Marks(q, op, i) : k \in Nat /\ k >= 1
           /\ \A k \in Marks(q, op, i) : k # 1 => k - 1 \in Marks(Tail(q), op, i)
<1> DEFINE t == Tail(q)
<1>1. /\ Len(q) \in Nat /\ Len(q) >= 1 /\ DOMAIN q = 1..Len(q) /\ q[1] = Head(q)
      /\ DOMAIN t = 1..(Len(q) - 1)
  OBVIOUS
<1>2. \A k \in DOMAIN t : t[k] = q[k + 1]
  OBVIOUS
<1>3. \A k : k \in DOMAIN t => k \in Nat /\ k >= 1 /\ k + 1 \in DOMAIN q
  BY <1>1
<1>4. \A k \in DOMAIN q : k \in Nat /\ k >= 1 /\ (k # 1 => k - 1 \in DOMAIN t /\ (k - 1) + 1 = k)
  BY <1>1
<1>5. 1 \in DOMAIN q
  BY <1>1
<1> HIDE DEF t
<1>6. 1 \in Marks(q, op, i) <=> Head(q).op = op /\ Head(q).conf.id = i
  BY <1>1, <1>5 DEF Marks
<1>7. \A k : k \in Marks(t, op, i) => k \in Nat /\ k >= 1 /\ k + 1 \in Marks(q, op, i)
  BY <1>2, <1>3 DEF Marks
<1>8. \A k \in Marks(q, op, i) : k \in Nat /\ k >= 1 /\ k \in DOMAIN q
  BY <1>4 DEF Marks
<1>9. \A k \in Marks(q, op, i) : k # 1 => k - 1 \in Marks(t, op, i)
  <2> TAKE k \in Marks(q, op, i)
  <2> HAVE k # 1
  <2>1. k - 1 \in DOMAIN t /\ (k - 1) + 1 = k
    BY <1>4, <1>8
  <2>2. t[k - 1] = q[k]
    BY <1>2, <2>1
  <2> QED BY <2>1, <2>2 DEF Marks
<1> QED BY <1>6, <1>7, <1>8, <1>9 DEF t

\* A message that is neither ADDCONF nor DELCONF about i changes nothing for
\* i, a first DELCONF comes behind everything, and an ADDCONF is the only thing
\* that stands for i if nothing did.
LEMMA OrderlyAppend ==
    ASSUME NEW S, NEW q \in Seq(S), NEW m \in S, NEW i, NEW P, Orderly(q, P, i),
           m.op = "ADDCONF" /\ m.conf.id = i =>
              Marks(q, "ADDCONF", i) = {} /\ Marks(q, "DELCONF", i) = {} /\ P = {},
           m.op = "DELCONF" /\ m.conf.id = i => Marks(q, "DELCONF", i) = {}
    PROVE  Orderly(Append(q, m), P, i)
<1>1. /\ Marks(Append(q, m), "ADDCONF", i) =
            IF m.op = "ADDCONF" /\ m.conf.id = i THEN Marks(q, "ADDCONF", i) \cup {Len(q) + 1}
            ELSE Marks(q, "ADDCONF", i)
      /\ Marks(Append(q, m), "DELCONF", i) =
            IF m.op = "DELCONF" /\ m.conf.id = i THEN Marks(q, "DELCONF", i) \cup {Len(q) + 1}
            ELSE Marks(q, "DELCONF", i)
  BY AppendMarks
<1>2. \A k \in Marks(q, "ADDCONF", i) : k < Len(q) + 1
  BY DEF Marks
<1>3. CASE m.op = "ADDCONF" /\ m.conf.id = i
  BY <1>1, <1>3 DEF Orderly
<1>4. CASE m.op = "DELCONF" /\ m.conf.id = i
  BY <1>1, <1>2, <1>4 DEF Orderly
<1>5. CASE ~(m.op \in {"ADDCONF", "DELCONF"} /\ m.conf.id = i)
  BY <1>1, <1>5 DEF Orderly
<1> QED BY <1>3, <1>4, <1>5

\* Taking the head of a queue leaves at most the DELCONF there was.
LEMMA OneDeleteLeft ==
    ASSUME NEW S, NEW q \in Seq(S), q # <<>>, NEW i,
           \A j, k \in Marks(q, "DELCONF", i) : j = k
    PROVE  \A j, k \in Marks(Tail(q), "DELCONF", i) : j = k
<1> TAKE j, k \in Marks(Tail(q), "DELCONF", i)
<1>1. /\ j \in Nat /\ k \in Nat
      /\ j + 1 \in Marks(q, "DELCONF", i) /\ k + 1 \in Marks(q, "DELCONF", i)
  BY TailMarks
<1>2. j + 1 = k + 1
  BY <1>1
<1> QED BY <1>1, <1>2

\* Taking a message that does not concern i, or not in these two ways.
LEMMA OrderlySkip ==
    ASSUME NEW S, NEW q \in Seq(S), q # <<>>, NEW i, NEW P, Orderly(q, P, i),
           ~(Head(q).op = "ADDCONF" /\ Head(q).conf.id = i)
    PROVE  /\ Orderly(Tail(q), P, i)
           /\ Marks(Tail(q), "ADDCONF", i) = {} <=> Marks(q, "ADDCONF", i) = {}
<1>1. /\ 1 \notin Marks(q, "ADDCONF", i)
      /\ \A k : k \in Marks(Tail(q), "ADDCONF", i) =>
                   k \in Nat /\ k >= 1 /\ k + 1 \in Marks(q, "ADDCONF", i)
      /\ \A k \in Marks(q, "ADDCONF", i) : k # 1 => k - 1 \in Marks(Tail(q), "ADDCONF", i)
      /\ \A k : k \in Marks(Tail(q), "DELCONF", i) =>
                   k \in Nat /\ k >= 1 /\ k + 1 \in Marks(q, "DELCONF", i)
  BY TailMarks
<1>2. Marks(Tail(q), "ADDCONF", i) = {} <=> Marks(q, "ADDCONF", i) = {}
  BY <1>1
<1>3. \A j, k \in Marks(Tail(q), "ADDCONF", i) : j = k
  <2> TAKE j, k \in Marks(Tail(q), "ADDCONF", i)
  <2>1. j \in Nat /\ k \in Nat /\ j + 1 = k + 1
    BY <1>1 DEF Orderly
  <2> QED BY <2>1
<1>4. \A j \in Marks(Tail(q), "ADDCONF", i), k \in Marks(Tail(q), "DELCONF", i) : j < k
  <2> TAKE j \in Marks(Tail(q), "ADDCONF", i), k \in Marks(Tail(q), "DELCONF", i)
  <2>1. j \in Nat /\ k \in Nat /\ j + 1 < k + 1
    BY <1>1 DEF Orderly
  <2> QED BY <2>1
<1>5. \A j, k \in Marks(Tail(q), "DELCONF", i) : j = k
  BY OneDeleteLeft DEF Orderly
<1> QED BY <1>2, <1>3, <1>4, <1>5 DEF Orderly

\* Taking the ADDCONF of i: it was the only thing that stood for i, and the
\* object that add_test builds is now.
LEMMA OrderlyAdd ==
    ASSUME NEW S, NEW q \in Seq(S), q # <<>>, NEW i, NEW P, Orderly(q, P, i),
           Head(q).op = "ADDCONF", Head(q).conf.id = i, NEW n
    PROVE  /\ P = {} /\ Marks(q, "ADDCONF", i) # {}
           /\ Marks(Tail(q), "ADDCONF", i) = {}
           /\ Orderly(Tail(q), {n}, i)
<1>1. /\ 1 \in Marks(q, "ADDCONF", i)
      /\ \A k : k \in Marks(Tail(q), "ADDCONF", i) =>
                   k \in Nat /\ k >= 1 /\ k + 1 \in Marks(q, "ADDCONF", i)
  BY TailMarks
<1>2. P = {} /\ Marks(q, "ADDCONF", i) # {}
  BY <1>1 DEF Orderly
<1>3. Marks(Tail(q), "ADDCONF", i) = {}
  <2> SUFFICES ASSUME NEW k \in Marks(Tail(q), "ADDCONF", i) PROVE FALSE
    OBVIOUS
  <2>1. k \in Nat /\ k >= 1 /\ k + 1 = 1
    BY <1>1 DEF Orderly
  <2> QED BY <2>1
<1>4. \A j, k \in Marks(Tail(q), "DELCONF", i) : j = k
  BY OneDeleteLeft DEF Orderly
<1> QED BY <1>2, <1>3, <1>4 DEF Orderly

\* Taking the DELCONF of i: neither an ADDCONF nor a DELCONF of i is left
\* behind it.
LEMMA OrderlyDelete ==
    ASSUME NEW S, NEW q \in Seq(S), q # <<>>, NEW i, NEW P, Orderly(q, P, i),
           Head(q).op = "DELCONF", Head(q).conf.id = i
    PROVE  /\ Marks(q, "ADDCONF", i) = {} /\ Marks(Tail(q), "ADDCONF", i) = {}
           /\ Marks(Tail(q), "DELCONF", i) = {}
           /\ Orderly(Tail(q), {}, i)
<1>1. 1 \in Marks(q, "DELCONF", i)
  BY TailMarks
<1>2. \A k \in Marks(q, "ADDCONF", i) : k \in Nat /\ k >= 1
  BY TailMarks
<1>3. Marks(q, "ADDCONF", i) = {}
  BY <1>1, <1>2 DEF Orderly
<1>4. \A k : k \in Marks(Tail(q), "ADDCONF", i) => k + 1 \in Marks(q, "ADDCONF", i)
  BY TailMarks
<1>5. Marks(Tail(q), "ADDCONF", i) = {}
  BY <1>3, <1>4
<1>6. Marks(Tail(q), "DELCONF", i) = {}
  <2> SUFFICES ASSUME NEW k \in Marks(Tail(q), "DELCONF", i) PROVE FALSE
    OBVIOUS
  <2>1. k \in Nat /\ k >= 1 /\ k + 1 \in Marks(q, "DELCONF", i)
    BY TailMarks
  <2>2. k + 1 = 1
    BY <1>1, <2>1 DEF Orderly
  <2> QED BY <2>1, <2>2
<1> QED BY <1>3, <1>5, <1>6 DEF Orderly

-----------------------------------------------------------------------------
(* Facts about the state *)

\* The messages on their way to a worker are good for it.
LEMMA InFlightSeq ==
    ASSUME IInv, NEW w \in Channels
    PROVE  /\ inbuf[w] \in Seq(GoodMsg(w)) /\ down[w] \in Seq(GoodMsg(w))
           /\ InFlight(w) \in Seq(GoodMsg(w))
<1>1. inbuf[w] \in Seq(GoodMsg(w)) /\ down[w] \in Seq(GoodMsg(w))
  BY DEF IInv, DownInv, WorkerInv
<1> QED BY <1>1 DEF InFlight

\* Nothing stands for a test at a worker that no ADDCONF of it has reached.
LEMMA Unhanded ==
    ASSUME IInv, NEW w \in Channels, NEW i \in Ids, <<w, i>> \notin handed
    PROVE  /\ Marks(InFlight(w), "ADDCONF", i) = {}
           /\ Probing(w, i) = {}
           /\ ~Stands(w, i)
<1>1. \A k \in DOMAIN InFlight(w) : InFlight(w)[k] \in GoodMsg(w)
  BY InFlightSeq
<1>2. Marks(InFlight(w), "ADDCONF", i) = {}
  BY <1>1 DEF Marks, GoodMsg
<1>3. \A k \in armed[w] : tests[w][k] \in GoodConf(w)
  BY DEF IInv, MapInv, WorkerInv
<1>4. Probing(w, i) = {}
  BY <1>3 DEF Probing, GoodConf
<1> QED BY <1>2, <1>4 DEF Stands

\* A worker that the route of a test does not name knows nothing of the test.
LEMMA Stranger ==
    ASSUME IInv, IssuedOnceInv, NEW w \in Channels, NEW i \in Ids,
           configid_channel_map[i] # w
    PROVE  /\ Marks(InFlight(w), "ADDCONF", i) = {}
           /\ Marks(InFlight(w), "DELCONF", i) = {}
           /\ Probing(w, i) = {}
           /\ ~Stands(w, i)
           /\ <<w, i>> \notin handed
<1>1. <<w, i>> \notin issued /\ <<w, i>> \notin handed
  BY DEF IssuedOnceInv, IInv, DownInv
<1>2. \A k \in DOMAIN InFlight(w) : InFlight(w)[k] \in GoodMsg(w)
  BY InFlightSeq
<1>3. Marks(InFlight(w), "DELCONF", i) = {}
  BY <1>1, <1>2 DEF Marks, GoodMsg
<1> QED BY <1>1, <1>3, Unhanded

\* A channel is never descriptor 0.
LEMMA NotStdin == \A w \in Channels : w # Stdin
  BY ChannelAssumption DEF Channels, Stdin

\* The master's write of m to channel c reaches the worker's queue, or is lost.
Arrives(c, m) ==
    /\ \A v \in Channels : InFlight(v)' = IF v = c THEN Append(InFlight(v), m)
                                          ELSE InFlight(v)
    /\ handed' = IF m.op = "ADDCONF" THEN handed \cup {<<c, m.conf.id>>} ELSE handed
Lost ==
    /\ \A v \in Channels : InFlight(v)' = InFlight(v)
    /\ handed' = handed

\* Which of the two a write does.
LEMMA Sent ==
    ASSUME CarefulInv, NEW c \in Channels, NEW m \in Msg, send_msg(c, m), inbuf' = inbuf
    PROVE  /\ AliveInv'
           /\ Arrives(c, m) \/ Lost
           /\ issued' = IF m.op = "ADDCONF" THEN issued \cup {<<c, m.conf.id>>} ELSE issued
<1>1. /\ issued' = IF m.op = "ADDCONF" THEN issued \cup {<<c, m.conf.id>>} ELSE issued
      /\ wstat' = wstat
  BY DEF send_msg, Recorded
<1>2. wstat[c] = "up" /\ c # Stdin
  BY NotStdin DEF CarefulInv, AliveInv
<1>3. Delivered(c, m) \/ DroppedFull(c)
  BY <1>2 DEF send_msg, BrokenPipe, ToStdin
<1>4. AliveInv'
  BY <1>1, <1>3 DEF Delivered, DroppedFull, CarefulInv, AliveInv
<1>5. CASE Delivered(c, m)
  <2>1. /\ down' = [down EXCEPT ![c] = Append(@, m)]
        /\ handed' = IF m.op = "ADDCONF" THEN handed \cup {<<c, m.conf.id>>} ELSE handed
    BY <1>5 DEF Delivered, Recorded
  <2>2. ASSUME NEW v \in Channels
        PROVE  InFlight(v)' = IF v = c THEN Append(InFlight(v), m) ELSE InFlight(v)
    <3>1. inbuf[v] \in Seq(Msg) /\ down[v] \in Seq(Msg)
      BY DEF CarefulInv, IInv, TypeOK, ChannelTypeOK, WorkerTypeOK
    <3>2. CASE v = c
      <4>1. down'[v] = Append(down[v], m)
        BY <2>1, <3>2 DEF CarefulInv, IInv, TypeOK, ChannelTypeOK
      <4>2. \A a, b \in Seq(Msg), e \in Msg : a \o Append(b, e) = Append(a \o b, e)
        BY ConcatAppend
      <4>3. inbuf[v] \o Append(down[v], m) = Append(inbuf[v] \o down[v], m)
        BY <3>1, <4>2
      <4> QED BY <3>2, <4>1, <4>3 DEF InFlight
    <3>3. CASE v # c
      <4>1. down'[v] = down[v]
        BY <2>1, <3>3 DEF CarefulInv, IInv, TypeOK, ChannelTypeOK
      <4> QED BY <3>3, <4>1 DEF InFlight
    <3> QED BY <3>2, <3>3
  <2> QED BY <1>1, <1>4, <2>1, <2>2 DEF Arrives
<1>6. CASE DroppedFull(c)
  BY <1>1, <1>4, <1>6 DEF DroppedFull, Lost, InFlight
<1> QED BY <1>3, <1>5, <1>6

\* What a worker that takes a message has left.
LEMMA Taken ==
    ASSUME IInv, NEW w \in Channels, NEW m, Take(w, m),
           inbuf' = [inbuf EXCEPT ![w] = Tail(@)], down' = down
    PROVE  /\ InFlight(w) # <<>> /\ Head(InFlight(w)) = m /\ m \in GoodMsg(w)
           /\ InFlight(w)' = Tail(InFlight(w))
           /\ \A v \in Channels \ {w} : InFlight(v)' = InFlight(v)
<1>1. inbuf[w] # <<>> /\ m = Head(inbuf[w])
  BY DEF Take
<1>2. inbuf[w] \in Seq(GoodMsg(w)) /\ down[w] \in Seq(GoodMsg(w))
  BY InFlightSeq
<1>3. inbuf'[w] = Tail(inbuf[w]) /\ \A v \in Channels \ {w} : inbuf'[v] = inbuf[v]
  BY DEF IInv, TypeOK, WorkerTypeOK
<1>4. /\ inbuf[w] \o down[w] # <<>> /\ Head(inbuf[w] \o down[w]) = Head(inbuf[w])
      /\ Tail(inbuf[w]) \o down[w] = Tail(inbuf[w] \o down[w])
  BY <1>1, <1>2, ConcatTail
<1>5. m \in GoodMsg(w)
  BY TakeFacts
<1> QED BY <1>1, <1>3, <1>4, <1>5 DEF InFlight

-----------------------------------------------------------------------------
(* Initial states *)

\* Before the distribution nothing is on the way and nothing probes.
LEMMA InitCareful ==
    ASSUME Careful, Init
    PROVE  CarefulInv
<1>1. IInv
  BY InitIInv
<1> USE DEF Init, ChannelInit, MasterInit, WorkerInit
<1>2. AliveInv
  BY DEF AliveInv, Careful
<1>3. IssuedOnceInv /\ UnroutedInv /\ LifeInv
  BY DEF IssuedOnceInv, UnroutedInv, LifeInv
<1>4. \A w \in Channels, i \in Ids : configid_channel_map[i] # w
  BY NotStdin
<1>5. \A w \in Channels, i \in Ids :
          /\ Marks(InFlight(w), "ADDCONF", i) = {} /\ Marks(InFlight(w), "DELCONF", i) = {}
          /\ Probing(w, i) = {} /\ ~Stands(w, i)
  BY <1>1, <1>3, <1>4, Stranger
<1>6. OrderInv /\ FindInv /\ HoldInv
  BY <1>4, <1>5 DEF OrderInv, Orderly, FindInv, HoldInv, Live
<1>7. TestMapComplete
  BY DEF TestMapComplete
<1> QED BY <1>1, <1>2, <1>3, <1>6, <1>7 DEF CarefulInv

-----------------------------------------------------------------------------
(* Steps *)

\* Objects that stay keep probing.
LEMMA ProbingKept ==
    ASSUME TestsKept, TestMapComplete
    PROVE  /\ \A w \in Channels, i \in Ids : Probing(w, i)' = Probing(w, i)
           /\ TestMapComplete'
  BY DEF TestsKept, Probing, TestMapComplete

\* A step that moves messages but takes none and writes none.
LEMMA QuietStep ==
    ASSUME CarefulInv, IInv', TestsKept, \A v \in Channels : InFlight(v)' = InFlight(v),
           UNCHANGED <<mstat, wstat, issued, handed>>,
           UNCHANGED <<configid_channel_map, configid_map, retired>>,
           UnroutedInv'
    PROVE  CarefulInv' /\ Outcome
<1>1. /\ \A w \in Channels, i \in Ids : Probing(w, i)' = Probing(w, i)
      /\ TestMapComplete'
  BY ProbingKept DEF CarefulInv
<1>2. Live' = Live
  BY DEF Live
<1>3. AliveInv' /\ IssuedOnceInv' /\ LifeInv'
  BY <1>2 DEF CarefulInv, AliveInv, IssuedOnceInv, LifeInv
<1>4. \A w \in Channels, i \in Ids : Stands(w, i)' <=> Stands(w, i)
  BY <1>1 DEF Stands
<1>5. OrderInv'
  BY <1>1 DEF CarefulInv, OrderInv
<1>6. FindInv' /\ HoldInv'
  BY <1>2, <1>4 DEF CarefulInv, FindInv, HoldInv, Live
<1>7. \A i \in Ids : Same(i)
  BY <1>1, <1>2, <1>4 DEF Same, Runs, Somewhere
<1> QED BY <1>1, <1>3, <1>5, <1>6, <1>7 DEF CarefulInv, Outcome

\* The master writes message m: what changes for the tests, whether or not
\* the message arrives.
SendEffect(m) ==
    /\ OrderInv' /\ FindInv'
    /\ TestMapComplete'
    /\ \A w \in Channels, i \in Ids :
          /\ Probing(w, i)' = Probing(w, i)
          /\ Stands(w, i) => Stands(w, i)'
          /\ Stands(w, i)' => Stands(w, i) \/ (m.op = "ADDCONF" /\ m.conf.id = i)
          /\ ~(m.op = "DELCONF" /\ m.conf.id = i) =>
                Marks(InFlight(w), "DELCONF", i)' = Marks(InFlight(w), "DELCONF", i)
          /\ <<w, i>> \in handed' => <<w, i>> \in handed \/ Stands(w, i)'

\* A write of send_msg has that effect: an ADDCONF only goes out for a test
\* that has no route yet, a DELCONF only to the route of a test that the master
\* holds.
LEMMA SendStep ==
    ASSUME CarefulInv, TestsKept, NEW c \in Channels, NEW m \in Msg,
           Arrives(c, m) \/ Lost,
           m.op = "ADDCONF" => configid_channel_map[m.conf.id] = Stdin,
           m.op = "DELCONF" => m.conf.id \in Live /\ configid_channel_map[m.conf.id] = c
    PROVE  SendEffect(m)
<1>1. /\ \A w \in Channels, i \in Ids : Probing(w, i)' = Probing(w, i)
      /\ TestMapComplete'
  BY ProbingKept DEF CarefulInv
<1>2. CASE Lost
  <2>1. \A w \in Channels, i \in Ids : Stands(w, i)' <=> Stands(w, i)
    BY <1>1, <1>2 DEF Stands, Lost
  <2>2. OrderInv' /\ FindInv'
    BY <1>1, <1>2, <2>1 DEF CarefulInv, OrderInv, FindInv, Lost
  <2> QED BY <1>1, <1>2, <2>1, <2>2 DEF SendEffect, Lost
<1>3. CASE Arrives(c, m)
  <2>1. \A w \in Channels : InFlight(w) \in Seq(Msg)
    BY DEF CarefulInv, IInv, TypeOK, ChannelTypeOK, WorkerTypeOK, InFlight
  <2>2. \A w \in Channels, i \in Ids, op \in {"ADDCONF", "DELCONF"} :
          Marks(InFlight(w), op, i)' =
             IF w = c /\ m.op = op /\ m.conf.id = i
             THEN Marks(InFlight(w), op, i) \cup {Len(InFlight(w)) + 1}
             ELSE Marks(InFlight(w), op, i)
    <3> TAKE w \in Channels, i \in Ids, op \in {"ADDCONF", "DELCONF"}
    <3>1. Marks(InFlight(w), op, i)' = Marks(InFlight(w)', op, i)
      BY DEF Marks
    <3>2. CASE w = c
      <4>1. Marks(Append(InFlight(w), m), op, i) =
              IF m.op = op /\ m.conf.id = i
              THEN Marks(InFlight(w), op, i) \cup {Len(InFlight(w)) + 1}
              ELSE Marks(InFlight(w), op, i)
        BY <2>1, AppendMarks
      <4> QED BY <1>3, <3>1, <3>2, <4>1 DEF Arrives
    <3>3. CASE w # c
      BY <1>3, <3>1, <3>3 DEF Arrives
    <3> QED BY <3>2, <3>3
  <2>3. ASSUME NEW w \in Channels, NEW i \in Ids
        PROVE  Orderly(InFlight(w), Probing(w, i), i)'
    <3>1. Orderly(InFlight(w), Probing(w, i), i)
      BY DEF CarefulInv, OrderInv
    <3>2. Orderly(InFlight(w), Probing(w, i), i)' <=> Orderly(InFlight(w)', Probing(w, i), i)
      BY <1>1 DEF Orderly, Marks
    <3>3. CASE w = c
      <4>1. m.op = "ADDCONF" /\ m.conf.id = i =>
               /\ Marks(InFlight(w), "ADDCONF", i) = {} /\ Marks(InFlight(w), "DELCONF", i) = {}
               /\ Probing(w, i) = {}
        <5> HAVE m.op = "ADDCONF" /\ m.conf.id = i
        <5>1. configid_channel_map[i] # w
          BY NotStdin
        <5> QED BY <5>1, Stranger DEF CarefulInv
      <4>2. m.op = "DELCONF" /\ m.conf.id = i => Marks(InFlight(w), "DELCONF", i) = {}
        BY DEF CarefulInv, HoldInv
      <4>3. Orderly(Append(InFlight(w), m), Probing(w, i), i)
        BY <2>1, <3>1, <4>1, <4>2, OrderlyAppend
      <4> QED BY <1>3, <3>2, <3>3, <4>3 DEF Arrives
    <3>4. CASE w # c
      BY <1>3, <3>1, <3>2, <3>4 DEF Arrives
    <3> QED BY <3>3, <3>4
  <2>4. \A w \in Channels, i \in Ids :
            /\ Stands(w, i) => Stands(w, i)'
            /\ Stands(w, i)' => Stands(w, i) \/ (m.op = "ADDCONF" /\ m.conf.id = i)
    BY <1>1, <2>2 DEF Stands
  <2>5. \A w \in Channels, i \in Ids :
            <<w, i>> \in handed' => <<w, i>> \in handed \/ Stands(w, i)'
    <3> TAKE w \in Channels, i \in Ids
    <3> HAVE <<w, i>> \in handed'
    <3>1. CASE m.op = "ADDCONF" /\ w = c /\ m.conf.id = i
      BY <2>2, <3>1 DEF Stands
    <3>2. CASE ~(m.op = "ADDCONF" /\ w = c /\ m.conf.id = i)
      BY <1>3, <3>2 DEF Arrives
    <3> QED BY <3>1, <3>2
  <2>6. \A w \in Channels, i \in Ids :
            ~(m.op = "DELCONF" /\ m.conf.id = i) =>
                Marks(InFlight(w), "DELCONF", i)' = Marks(InFlight(w), "DELCONF", i)
    BY <2>2
  <2>7. FindInv'
    <3> SUFFICES ASSUME NEW w \in Channels, NEW i \in Ids, <<w, i>> \in handed,
                        Marks(InFlight(w), "DELCONF", i)' # {}
                 PROVE  Stands(w, i)
      BY <2>4, <2>5 DEF FindInv
    <3>1. CASE Marks(InFlight(w), "DELCONF", i) # {}
      BY <3>1 DEF CarefulInv, FindInv
    <3>2. CASE Marks(InFlight(w), "DELCONF", i) = {}
      <4>1. w = c /\ m.op = "DELCONF" /\ m.conf.id = i
        BY <2>2, <3>2
      <4> QED BY <4>1 DEF CarefulInv, HoldInv
    <3> QED BY <3>1, <3>2
  <2> QED BY <1>1, <2>3, <2>4, <2>5, <2>6, <2>7 DEF SendEffect, OrderInv
<1> QED BY <1>2, <1>3

\* What the master holds and does not touch stays held.
LEMMA HoldKept ==
    ASSUME CarefulInv, NEW m, SendEffect(m), NEW w \in Channels, NEW i \in Live,
           configid_channel_map'[i] = configid_channel_map[i],
           ~(m.op = "DELCONF" /\ m.conf.id = i)
    PROVE  /\ configid_channel_map'[i] = w /\ <<w, i>> \in handed' => Stands(w, i)'
           /\ Marks(InFlight(w), "DELCONF", i)' = {}
<1>1. i \in Ids
  BY DEF Live
<1>2. /\ configid_channel_map[i] = w /\ <<w, i>> \in handed => Stands(w, i)
      /\ Marks(InFlight(w), "DELCONF", i) = {}
  BY DEF CarefulInv, HoldInv
<1> QED BY <1>1, <1>2 DEF SendEffect

\* The ADDCONF write of distribute_conf.
LEMMA DistributeAddCareful ==
    ASSUME CarefulInv, IInv', DistributeAdd, UNCHANGED workerVars
    PROVE  CarefulInv' /\ Outcome
<1>1. PICK id \in Ids :
        /\ IsCurrent(id)
        /\ configid_channel_map' = [configid_channel_map EXCEPT ![id] = RoundRobin]
        /\ send_msg(RoundRobin, [op |-> "ADDCONF", conf |-> configid_map[id]])
  BY DEF DistributeAdd, Route
<1>2. /\ masterpc = "add" /\ masterpc' = "redis"
      /\ configid_map' = configid_map /\ todo' = todo /\ retired' = retired
  BY DEF DistributeAdd
<1>3. RoundRobin \in Channels /\ RoundRobin # Stdin
  BY RoundRobinChannel, NotStdin DEF CarefulInv, IInv, TypeOK, MasterTypeOK
<1>4. configid_map[id] \in Conf /\ configid_map[id].id = id /\ id \in Live
  BY <1>1, <1>2 DEF CarefulInv, IInv, TypeOK, MasterTypeOK, DistInv, Live, IsCurrent, ConfInv
<1>5. configid_channel_map[id] = Stdin
  BY <1>1, <1>2 DEF CarefulInv, UnroutedInv, IsCurrent
<1> DEFINE m == [op |-> "ADDCONF", conf |-> configid_map[id]]
           c == RoundRobin
<1>6. m \in Msg /\ m.op = "ADDCONF" /\ m.conf.id = id /\ c \in Channels /\ send_msg(c, m)
  BY <1>1, <1>3, <1>4 DEF Msg, ConfMsg
<1>7. inbuf' = inbuf /\ TestsKept
  BY DEF workerVars, TestsKept
<1> HIDE DEF m, c
<1>8. /\ AliveInv' /\ issued' = issued \cup {<<c, id>>}
      /\ Arrives(c, m) \/ Lost
  BY <1>6, <1>7, Sent
<1>9. SendEffect(m)
  BY <1>5, <1>6, <1>7, <1>8, SendStep
<1>10. \A i \in Ids : configid_channel_map'[i] = IF i = id THEN c ELSE configid_channel_map[i]
  BY <1>1 DEF CarefulInv, IInv, TypeOK, MasterTypeOK, c
<1>11. Live' = Live /\ Live \subseteq Ids
  BY <1>2 DEF Live
<1>12. IssuedOnceInv'
  <2> SUFFICES ASSUME NEW w \in Channels, NEW i \in Ids, <<w, i>> \in issued'
               PROVE  configid_channel_map'[i] = w
    BY DEF IssuedOnceInv
  <2>1. CASE <<w, i>> \in issued
    BY <2>1, <1>5, <1>10, NotStdin DEF CarefulInv, IssuedOnceInv
  <2>2. CASE <<w, i>> = <<c, id>>
    BY <2>2, <1>10
  <2> QED BY <1>8, <2>1, <2>2
<1>13. UnroutedInv'
  <2>1. \A i \in todo : IsCurrent(i)' <=> IsCurrent(i)
    BY <1>2 DEF IsCurrent
  <2> QED BY <1>1, <1>2, <1>10, <2>1 DEF CarefulInv, UnroutedInv, IInv, TypeOK, MasterTypeOK
<1>14. LifeInv'
  BY <1>2, <1>4, <1>10, <1>11 DEF CarefulInv, LifeInv
<1>15. HoldInv'
  <2> SUFFICES ASSUME NEW w \in Channels, NEW i \in Live
               PROVE  /\ configid_channel_map'[i] = w /\ <<w, i>> \in handed' => Stands(w, i)'
                      /\ Marks(InFlight(w), "DELCONF", i)' = {}
    BY <1>11 DEF HoldInv
  <2>1. CASE i = id
    <3>1. Marks(InFlight(w), "DELCONF", i) = {} /\ <<w, i>> \notin handed
      BY <2>1, <1>5, NotStdin, Stranger DEF CarefulInv
    <3> QED BY <2>1, <3>1, <1>6, <1>9 DEF SendEffect
  <2>2. CASE i # id
    BY <2>2, <1>6, <1>9, <1>10, <1>11, HoldKept
  <2> QED BY <2>1, <2>2
<1>16. \A i \in Ids : Same(i)
  BY <1>2, <1>4, <1>6, <1>9, <1>11 DEF Same, Runs, Somewhere, SendEffect
<1> QED BY <1>8, <1>9, <1>12, <1>13, <1>14, <1>15, <1>16 DEF CarefulInv, Outcome, SendEffect

\* The REDISPORT write of distribute_conf.
LEMMA DistributeRedisCareful ==
    ASSUME CarefulInv, IInv', DistributeRedis, UNCHANGED workerVars
    PROVE  CarefulInv' /\ Outcome
<1>1. PICK id \in Ids : IsCurrent(id) /\ todo' = todo \ {id}
  BY DEF DistributeRedis
<1>2. /\ masterpc = "redis" /\ masterpc' \in {"idle", "add"}
      /\ configid_map' = configid_map /\ configid_channel_map' = configid_channel_map
      /\ retired' = retired
      /\ send_msg(RoundRobin, [op |-> "REDISPORT"])
  BY DEF DistributeRedis
<1>3. RoundRobin \in Channels
  BY RoundRobinChannel DEF CarefulInv, IInv, TypeOK, MasterTypeOK
<1> DEFINE m == [op |-> "REDISPORT"]
           c == RoundRobin
<1>4. m \in Msg /\ m.op = "REDISPORT" /\ c \in Channels /\ send_msg(c, m)
  BY <1>2, <1>3 DEF Msg, RedisMsg
<1>5. inbuf' = inbuf /\ TestsKept
  BY DEF workerVars, TestsKept
<1> HIDE DEF m, c
<1>6. /\ AliveInv' /\ issued' = issued
      /\ Arrives(c, m) \/ Lost
  BY <1>4, <1>5, Sent
<1>7. SendEffect(m)
  BY <1>4, <1>5, <1>6, SendStep
<1>8. Live' = Live /\ Live \subseteq Ids
  BY <1>2 DEF Live
<1>9. IssuedOnceInv' /\ LifeInv'
  BY <1>2, <1>6, <1>8 DEF CarefulInv, IssuedOnceInv, LifeInv
<1>10. UnroutedInv'
  <2>1. todo \subseteq Int /\ id \in Int
    BY ChannelAssumption DEF Ids, CarefulInv, IInv, TypeOK, MasterTypeOK
  <2>2. \A i \in todo' : i \in todo /\ ~IsCurrent(i)
    BY <1>1, <2>1 DEF IsCurrent
  <2> QED BY <1>2, <2>2 DEF CarefulInv, UnroutedInv
<1>11. HoldInv'
  BY <1>2, <1>4, <1>7, <1>8, HoldKept DEF HoldInv
<1>12. \A i \in Ids : Same(i)
  BY <1>2, <1>4, <1>7, <1>8 DEF Same, Runs, Somewhere, SendEffect
<1> QED BY <1>6, <1>7, <1>9, <1>10, <1>11, <1>12 DEF CarefulInv, Outcome, SendEffect

\* deal_metric_request for a new id: no trace of the id is left anywhere.
LEMMA PostNewCareful ==
    ASSUME Careful, CarefulInv, IInv', NEW conf \in Conf, PostNew(conf),
           UNCHANGED workerVars
    PROVE  CarefulInv' /\ Outcome
<1> DEFINE id == conf.id
           c == LeastLoaded
           m == [op |-> "ADDCONF", conf |-> conf]
<1>1. /\ masterpc = "idle" /\ masterpc' = "idle" /\ id \notin retired /\ retired' = retired
      /\ configid_map[id] = None /\ configid_map' = [configid_map EXCEPT ![id] = conf]
      /\ configid_channel_map' = [configid_channel_map EXCEPT ![id] = c]
      /\ send_msg(c, m)
  BY DEF PostNew, MayPost, Careful, Route
<1>2. id \in Ids /\ id \notin Live
  BY <1>1 DEF Ids, Live
<1>3. c \in Channels
  BY LeastLoadedFound DEF CarefulInv, IInv, TypeOK, MasterTypeOK
<1>4. m \in Msg /\ m.op = "ADDCONF" /\ m.conf.id = id
  BY DEF Msg, ConfMsg
<1>5. inbuf' = inbuf /\ TestsKept
  BY DEF workerVars, TestsKept
<1> HIDE DEF id, m, c
<1>6. configid_channel_map[id] = Stdin
  BY <1>1, <1>2 DEF CarefulInv, LifeInv
<1>7. /\ AliveInv' /\ issued' = issued \cup {<<c, id>>}
      /\ Arrives(c, m) \/ Lost
  BY <1>1, <1>3, <1>4, <1>5, Sent
<1>8. SendEffect(m)
  BY <1>3, <1>4, <1>5, <1>6, <1>7, SendStep
<1>9. \A i \in Ids : configid_channel_map'[i] = IF i = id THEN c ELSE configid_channel_map[i]
  BY <1>1 DEF CarefulInv, IInv, TypeOK, MasterTypeOK
<1>10. Live' = Live \cup {id} /\ Live \subseteq Ids
  BY <1>1, <1>2, MasterAssumption DEF Live, CarefulInv, IInv, TypeOK, MasterTypeOK
<1>11. \A w \in Channels : /\ Marks(InFlight(w), "DELCONF", id) = {} /\ Probing(w, id) = {}
                           /\ ~Stands(w, id) /\ <<w, id>> \notin handed
  BY <1>2, <1>6, NotStdin, Stranger DEF CarefulInv
<1>12. IssuedOnceInv'
  <2> SUFFICES ASSUME NEW w \in Channels, NEW i \in Ids, <<w, i>> \in issued'
               PROVE  configid_channel_map'[i] = w
    BY DEF IssuedOnceInv
  <2>1. CASE <<w, i>> \in issued
    BY <2>1, <1>6, <1>9, NotStdin DEF CarefulInv, IssuedOnceInv
  <2>2. CASE <<w, i>> = <<c, id>>
    BY <2>2, <1>9
  <2> QED BY <1>7, <2>1, <2>2
<1>13. UnroutedInv' /\ LifeInv'
  BY <1>1, <1>9, <1>10 DEF CarefulInv, UnroutedInv, LifeInv
<1>14. HoldInv'
  <2> SUFFICES ASSUME NEW w \in Channels, NEW i \in Live'
               PROVE  /\ configid_channel_map'[i] = w /\ <<w, i>> \in handed' => Stands(w, i)'
                      /\ Marks(InFlight(w), "DELCONF", i)' = {}
    BY DEF HoldInv
  <2>1. CASE i = id
    BY <2>1, <1>2, <1>4, <1>8, <1>11 DEF SendEffect
  <2>2. CASE i # id
    BY <2>2, <1>4, <1>8, <1>9, <1>10, HoldKept
  <2> QED BY <2>1, <2>2
<1>15. \A i \in Ids \ {id} : Same(i)
  BY <1>1, <1>4, <1>8, <1>10 DEF Same, Runs, Somewhere, SendEffect
<1>16. Accepted(id)
  BY <1>1, <1>2, <1>8, <1>10, <1>11 DEF Accepted, Runs, Somewhere, SendEffect
<1>17. Moves
  BY <1>2, <1>15, <1>16 DEF Moves
<1> QED BY <1>7, <1>8, <1>12, <1>13, <1>14, <1>17 DEF CarefulInv, Outcome, SendEffect

\* deal_metric_request for a known id, whose EDITCONF no worker looks at.
LEMMA PostEditCareful ==
    ASSUME Careful, CarefulInv, IInv', NEW conf \in Conf, PostEdit(conf),
           UNCHANGED workerVars
    PROVE  CarefulInv' /\ Outcome
<1> DEFINE id == conf.id
           c == configid_channel_map[id]
           m == [op |-> "EDITCONF", conf |-> conf]
<1>1. /\ masterpc = "idle" /\ masterpc' = "idle" /\ retired' = retired
      /\ configid_map[id] # None /\ configid_map' = [configid_map EXCEPT ![id] = conf]
      /\ configid_channel_map' = configid_channel_map
      /\ send_msg(c, m)
  BY DEF PostEdit, EditMsg, MayPost, Careful
<1>2. id \in Ids /\ id \in Live
  BY <1>1 DEF Ids, Live
<1>3. c \in Channels
  BY <1>1, <1>2 DEF CarefulInv, IInv, DistInv, TypeOK, MasterTypeOK
<1>4. m \in Msg /\ m.op = "EDITCONF"
  BY DEF Msg, ConfMsg
<1>5. inbuf' = inbuf /\ TestsKept
  BY DEF workerVars, TestsKept
<1> HIDE DEF id, m, c
<1>6. /\ AliveInv' /\ issued' = issued
      /\ Arrives(c, m) \/ Lost
  BY <1>1, <1>3, <1>4, <1>5, Sent
<1>7. SendEffect(m)
  BY <1>3, <1>4, <1>5, <1>6, SendStep
<1>8. Live' = Live /\ Live \subseteq Ids
  BY <1>1, <1>2, MasterAssumption DEF Live, CarefulInv, IInv, TypeOK, MasterTypeOK
<1>9. IssuedOnceInv' /\ UnroutedInv' /\ LifeInv'
  BY <1>1, <1>6, <1>8 DEF CarefulInv, IssuedOnceInv, UnroutedInv, LifeInv
<1>10. HoldInv'
  BY <1>1, <1>4, <1>7, <1>8, HoldKept DEF HoldInv
<1>11. \A i \in Ids : Same(i)
  BY <1>1, <1>4, <1>7, <1>8 DEF Same, Runs, Somewhere, SendEffect
<1> QED BY <1>6, <1>7, <1>9, <1>10, <1>11 DEF CarefulInv, Outcome, SendEffect

\* delete_metric_request: the DELCONF goes to the worker where the test stands.
LEMMA PostDeleteCareful ==
    ASSUME Careful, CarefulInv, IInv', NEW conf \in Conf, PostDelete(conf),
           UNCHANGED workerVars
    PROVE  CarefulInv' /\ (AllHanded => Outcome)
<1> DEFINE id == conf.id
           c == configid_channel_map[id]
           m == [op |-> "DELCONF", conf |-> conf]
<1>1. /\ masterpc = "idle" /\ masterpc' = "idle" /\ retired' = retired \cup {id}
      /\ configid_map[id] # None /\ configid_map' = [configid_map EXCEPT ![id] = None]
      /\ configid_channel_map' = configid_channel_map
      /\ send_msg(c, m)
  BY DEF PostDelete, MayPost, Careful
<1>2. id \in Ids /\ id \in Live
  BY <1>1 DEF Ids, Live
<1>3. c \in Channels
  BY <1>1, <1>2 DEF CarefulInv, IInv, DistInv, TypeOK, MasterTypeOK
<1>4. m \in Msg /\ m.op = "DELCONF" /\ m.conf.id = id
  BY DEF Msg, ConfMsg
<1>5. inbuf' = inbuf /\ TestsKept
  BY DEF workerVars, TestsKept
<1>6. AllHanded => Stands(c, id)
  BY <1>2, <1>3, NotStdin DEF CarefulInv, HoldInv, AllHanded, IInv, RouteInv
<1>7. c = configid_channel_map[id]
  OBVIOUS
<1> HIDE DEF id, m, c
<1>8. /\ AliveInv' /\ issued' = issued
      /\ Arrives(c, m) \/ Lost
  BY <1>1, <1>3, <1>4, <1>5, Sent
<1>9. SendEffect(m)
  BY <1>2, <1>3, <1>4, <1>5, <1>8, <1>7, SendStep
<1>10. Live' = Live \ {id} /\ Live \subseteq Ids
  BY <1>1, <1>2, MasterAssumption DEF Live, CarefulInv, IInv, TypeOK, MasterTypeOK
<1>11. IssuedOnceInv' /\ UnroutedInv' /\ LifeInv'
  BY <1>1, <1>8, <1>10 DEF CarefulInv, IssuedOnceInv, UnroutedInv, LifeInv
<1>12. HoldInv'
  BY <1>1, <1>4, <1>9, <1>10, HoldKept DEF HoldInv
<1>13. \A i \in Ids \ {id} : Same(i)
  BY <1>1, <1>4, <1>9, <1>10 DEF Same, Runs, Somewhere, SendEffect
<1>14. AllHanded => Deleted(id)
  BY <1>2, <1>3, <1>6, <1>9, <1>10 DEF Deleted, Somewhere, SendEffect
<1>15. AllHanded => Moves
  BY <1>2, <1>13, <1>14 DEF Moves
<1> QED BY <1>8, <1>9, <1>11, <1>12, <1>15 DEF CarefulInv, Outcome, SendEffect

\* The steps of the master that write nothing to a channel.  An
\* acknowledgement comes from the worker that the route already names.
LEMMA MasterQuiet ==
    ASSUME CarefulInv, IInv', UNCHANGED workerVars,
           DistributeStart \/ IgnoredRequest \/ \E w \in Channels : RecvAck(w)
    PROVE  CarefulInv' /\ Outcome /\ configid_channel_map' = configid_channel_map
<1>1. inbuf' = inbuf /\ TestsKept
  BY DEF workerVars, TestsKept
<1>2. UNCHANGED <<mstat, wstat, down, issued, handed, configid_map, retired>>
  BY DEF DistributeStart, IgnoredRequest, RecvAck, chanVars, masterVars
<1>3. \A v \in Channels : InFlight(v)' = InFlight(v)
  BY <1>1, <1>2 DEF InFlight
<1>4. configid_channel_map' = configid_channel_map /\ UnroutedInv'
  <2>1. CASE DistributeStart
    <3>1. /\ masterpc = "wait" /\ masterpc' \in {"idle", "add"} /\ todo' \subseteq Ids
          /\ configid_channel_map' = configid_channel_map
      BY <2>1 DEF DistributeStart, Live
    <3> QED BY <3>1 DEF CarefulInv, UnroutedInv
  <2>2. CASE IgnoredRequest
    BY <2>2 DEF IgnoredRequest, masterVars, CarefulInv, UnroutedInv, IsCurrent
  <2>3. CASE \E w \in Channels : RecvAck(w)
    <3>1. PICK w \in Channels : RecvAck(w)
      BY <2>3
    <3>2. /\ up[w] # <<>> /\ masterpc' = masterpc /\ todo' = todo
          /\ configid_channel_map' = [configid_channel_map EXCEPT ![Head(up[w])] = w]
      BY <3>1 DEF RecvAck
    <3>3. up[w] \in Seq(GoodId(w))
      BY DEF CarefulInv, IInv, UpInv
    <3>4. Head(up[w]) \in GoodId(w)
      BY <3>2, <3>3, TailSeq
    <3>5. configid_channel_map[Head(up[w])] = w
      BY <3>4 DEF GoodId, CarefulInv, IssuedOnceInv, IInv, DownInv
    <3>6. configid_channel_map' = configid_channel_map
      BY <3>2, <3>5 DEF CarefulInv, IInv, TypeOK, MasterTypeOK
    <3> QED BY <3>2, <3>6 DEF CarefulInv, UnroutedInv, IsCurrent
  <2> QED BY <2>1, <2>2, <2>3
<1> QED BY <1>1, <1>2, <1>3, <1>4, QuietStep

\* The steps of a worker that take no message.
LEMMA WorkerQuiet ==
    ASSUME CarefulInv, IInv', NEW w \in Channels, UNCHANGED masterVars,
           ReadChannel(w) \/ EndCallback(w) \/ FlushAcks(w)
    PROVE  CarefulInv' /\ Outcome
<1>1. TestsKept /\ UNCHANGED <<mstat, wstat, issued, handed>>
  BY DEF ReadChannel, EndCallback, FlushAcks, chanVars, TestsKept
<1>2. /\ configid_map' = configid_map /\ configid_channel_map' = configid_channel_map
      /\ masterpc' = masterpc /\ todo' = todo /\ retired' = retired
  BY DEF masterVars
<1>3. UnroutedInv'
  BY <1>2 DEF CarefulInv, UnroutedInv, IsCurrent
<1>4. ASSUME NEW v \in Channels PROVE InFlight(v)' = InFlight(v)
  <2>1. CASE ReadChannel(w)
    <3>1. PICK k \in 1..Len(down[w]) :
            /\ inbuf' = [inbuf EXCEPT ![w] = @ \o SubSeq(down[w], 1, k)]
            /\ down' = [down EXCEPT ![w] = SubSeq(@, k + 1, Len(@))]
      BY <2>1 DEF ReadChannel
    <3>2. CASE v = w
      <4>1. /\ inbuf'[v] = inbuf[v] \o SubSeq(down[v], 1, k)
            /\ down'[v] = SubSeq(down[v], k + 1, Len(down[v]))
        BY <3>1, <3>2 DEF CarefulInv, IInv, TypeOK, ChannelTypeOK, WorkerTypeOK
      <4>2. inbuf[v] \in Seq(Msg) /\ down[v] \in Seq(Msg) /\ k \in 1..Len(down[v])
        BY <3>2 DEF CarefulInv, IInv, TypeOK, ChannelTypeOK, WorkerTypeOK
      <4>3. \A a, b \in Seq(Msg) : \A n \in 1..Len(b) :
              (a \o SubSeq(b, 1, n)) \o SubSeq(b, n + 1, Len(b)) = a \o b
        BY ConcatMove
      <4>4. (inbuf[v] \o SubSeq(down[v], 1, k)) \o SubSeq(down[v], k + 1, Len(down[v])) =
               inbuf[v] \o down[v]
        BY <4>2, <4>3
      <4> QED BY <4>1, <4>4 DEF InFlight
    <3>3. CASE v # w
      BY <3>1, <3>3 DEF InFlight, CarefulInv, IInv, TypeOK, ChannelTypeOK, WorkerTypeOK
    <3> QED BY <3>2, <3>3
  <2>2. CASE EndCallback(w) \/ FlushAcks(w)
    BY <2>2 DEF EndCallback, FlushAcks, chanVars, InFlight
  <2> QED BY <2>1, <2>2
<1> QED BY <1>1, <1>2, <1>3, <1>4, QuietStep

\* Message m gives order op about test i.
Is(m, op, i) == m.op = op /\ m.conf.id = i

\* What taking message m does to the objects of worker w that probe.
Probes(w, m) ==
    /\ \A v \in Channels, i \in Ids :
          v # w \/ ~(Is(m, "ADDCONF", i) \/ Is(m, "DELCONF", i)) => Probing(v, i)' = Probing(v, i)
    /\ \A i \in Ids : Is(m, "ADDCONF", i) => \E n : Probing(w, i)' = {n}
    /\ \A i \in Ids : Is(m, "DELCONF", i) => Probing(w, i)' = {}

\* And to what stands for a test: an ADDCONF makes one thing of another, a
\* DELCONF ends it.
TakeEffect(w, m) ==
    /\ \A v \in Channels, i \in Ids :
          v # w \/ ~Is(m, "DELCONF", i) => (Stands(v, i)' <=> Stands(v, i))
    /\ \A i \in Ids : Is(m, "DELCONF", i) => ~Stands(w, i)' /\ i \notin Live
    /\ \A i \in Ids : Is(m, "ADDCONF", i) => Probing(w, i) = {}

\* A handler whose effect on the objects is that keeps the invariant.
LEMMA TakeStep ==
    ASSUME CarefulInv, IInv', NEW w \in Channels, NEW m, Take(w, m),
           inbuf' = [inbuf EXCEPT ![w] = Tail(@)], Probes(w, m), TestMapComplete',
           UNCHANGED chanVars, UNCHANGED masterVars
    PROVE  CarefulInv' /\ TakeEffect(w, m)
<1>1. /\ mstat' = mstat /\ wstat' = wstat /\ down' = down
      /\ issued' = issued /\ handed' = handed
      /\ configid_map' = configid_map /\ configid_channel_map' = configid_channel_map
      /\ masterpc' = masterpc /\ todo' = todo /\ retired' = retired
  BY DEF chanVars, masterVars
<1>2. Live' = Live /\ Live \subseteq Ids
  BY <1>1 DEF Live
<1>3. AliveInv' /\ IssuedOnceInv' /\ UnroutedInv' /\ LifeInv'
  BY <1>1, <1>2 DEF CarefulInv, AliveInv, IssuedOnceInv, UnroutedInv, LifeInv, IsCurrent
<1>4. /\ InFlight(w) # <<>> /\ Head(InFlight(w)) = m
      /\ InFlight(w)' = Tail(InFlight(w))
      /\ \A v \in Channels \ {w} : InFlight(v)' = InFlight(v)
      /\ InFlight(w) \in Seq(GoodMsg(w))
  BY <1>1, Taken, InFlightSeq DEF CarefulInv
<1>5. ASSUME NEW i \in Ids
      PROVE  /\ Orderly(InFlight(w)', Probing(w, i)', i)
             /\ ~Is(m, "DELCONF", i) =>
                   (Marks(InFlight(w)', "ADDCONF", i) # {} \/ Probing(w, i)' # {} <=> Stands(w, i))
             /\ Is(m, "DELCONF", i) =>
                   /\ Marks(InFlight(w)', "ADDCONF", i) = {} /\ Probing(w, i)' = {}
                   /\ Marks(InFlight(w)', "DELCONF", i) = {}
             /\ Is(m, "ADDCONF", i) => Probing(w, i) = {}
  <2>1. Orderly(InFlight(w), Probing(w, i), i)
    BY DEF CarefulInv, OrderInv
  <2>2. CASE Is(m, "ADDCONF", i)
    <3>1. PICK n : Probing(w, i)' = {n}
      BY <2>2 DEF Probes
    <3>2. /\ Probing(w, i) = {} /\ Marks(InFlight(w), "ADDCONF", i) # {}
          /\ Orderly(Tail(InFlight(w)), {n}, i)
      BY <1>4, <2>1, <2>2, OrderlyAdd DEF Is
    <3>3. ~Is(m, "DELCONF", i)
      BY <2>2 DEF Is
    <3> QED BY <1>4, <2>2, <3>1, <3>2, <3>3 DEF Stands
  <2>3. CASE Is(m, "DELCONF", i)
    <3>1. /\ Marks(Tail(InFlight(w)), "ADDCONF", i) = {} /\ Orderly(Tail(InFlight(w)), {}, i)
          /\ Marks(Tail(InFlight(w)), "DELCONF", i) = {}
      BY <1>4, <2>1, <2>3, OrderlyDelete DEF Is
    <3>2. ~Is(m, "ADDCONF", i) /\ Probing(w, i)' = {}
      BY <2>3 DEF Is, Probes
    <3> QED BY <1>4, <2>3, <3>1, <3>2
  <2>4. CASE ~Is(m, "ADDCONF", i) /\ ~Is(m, "DELCONF", i)
    <3>1. /\ Orderly(Tail(InFlight(w)), Probing(w, i), i)
          /\ Marks(Tail(InFlight(w)), "ADDCONF", i) = {} <=>
                Marks(InFlight(w), "ADDCONF", i) = {}
      BY <1>4, <2>1, <2>4, OrderlySkip DEF Is
    <3>2. Probing(w, i)' = Probing(w, i)
      BY <2>4 DEF Probes
    <3> QED BY <1>4, <2>4, <3>1, <3>2 DEF Stands
  <2> QED BY <2>2, <2>3, <2>4
<1>6. \A v \in Channels \ {w}, i \in Ids :
        /\ Probing(v, i)' = Probing(v, i)
        /\ Marks(InFlight(v), "ADDCONF", i)' = Marks(InFlight(v), "ADDCONF", i)
        /\ Marks(InFlight(v), "DELCONF", i)' = Marks(InFlight(v), "DELCONF", i)
        /\ Stands(v, i)' <=> Stands(v, i)
  BY <1>4 DEF Probes, Stands
<1>7. \A v \in Channels, i \in Ids :
        /\ Marks(InFlight(v), "ADDCONF", i)' = Marks(InFlight(v)', "ADDCONF", i)
        /\ Marks(InFlight(v), "DELCONF", i)' = Marks(InFlight(v)', "DELCONF", i)
        /\ Orderly(InFlight(v), Probing(v, i), i)' <=> Orderly(InFlight(v)', Probing(v, i)', i)
  BY DEF Orderly, Marks
<1>8. OrderInv'
  <2> SUFFICES ASSUME NEW v \in Channels, NEW i \in Ids
               PROVE  Orderly(InFlight(v)', Probing(v, i)', i)
    BY <1>7 DEF OrderInv
  <2>1. CASE v = w
    BY <2>1, <1>5
  <2>2. CASE v # w
    BY <2>2, <1>4, <1>6 DEF CarefulInv, OrderInv
  <2> QED BY <2>1, <2>2
<1>9. \A i \in Live : Marks(InFlight(w)', "DELCONF", i) = {} /\ ~Is(m, "DELCONF", i)
  <2> TAKE i \in Live
  <2>1. Marks(InFlight(w), "DELCONF", i) = {}
    BY DEF CarefulInv, HoldInv
  <2>2. /\ 1 \in Marks(InFlight(w), "DELCONF", i) <=> m.op = "DELCONF" /\ m.conf.id = i
        /\ \A k : k \in Marks(Tail(InFlight(w)), "DELCONF", i) =>
                     k + 1 \in Marks(InFlight(w), "DELCONF", i)
    BY <1>4, TailMarks
  <2> QED BY <1>4, <2>1, <2>2 DEF Is
<1>10. TakeEffect(w, m)
  <2>1. \A i \in Ids : ~Is(m, "DELCONF", i) => (Stands(w, i)' <=> Stands(w, i))
    BY <1>5, <1>7 DEF Stands
  <2>2. \A i \in Ids : Is(m, "DELCONF", i) => ~Stands(w, i)' /\ i \notin Live
    BY <1>5, <1>7, <1>9 DEF Stands
  <2>3. \A i \in Ids : Is(m, "ADDCONF", i) => Probing(w, i) = {}
    BY <1>5
  <2> QED BY <1>6, <2>1, <2>2, <2>3 DEF TakeEffect
<1>11. HoldInv'
  <2> SUFFICES ASSUME NEW v \in Channels, NEW i \in Live
               PROVE  /\ configid_channel_map[i] = v /\ <<v, i>> \in handed => Stands(v, i)'
                      /\ Marks(InFlight(v), "DELCONF", i)' = {}
    BY <1>1, <1>2 DEF HoldInv
  <2>1. /\ configid_channel_map[i] = v /\ <<v, i>> \in handed => Stands(v, i)
        /\ Marks(InFlight(v), "DELCONF", i) = {}
    BY DEF CarefulInv, HoldInv
  <2>2. i \in Ids /\ ~Is(m, "DELCONF", i)
    BY <1>2, <1>9
  <2>3. Stands(v, i)' <=> Stands(v, i)
    BY <1>10, <2>2 DEF TakeEffect
  <2>4. Marks(InFlight(v), "DELCONF", i)' = {}
    BY <1>6, <1>7, <1>9, <2>1, <2>2
  <2> QED BY <2>1, <2>3, <2>4
<1>12. FindInv'
  <2> SUFFICES ASSUME NEW v \in Channels, NEW i \in Ids, <<v, i>> \in handed,
                      Marks(InFlight(v)', "DELCONF", i) # {}
               PROVE  Stands(v, i)'
    BY <1>1, <1>7 DEF FindInv
  <2>1. v # w \/ ~Is(m, "DELCONF", i)
    BY <1>5
  <2>2. Marks(InFlight(v), "DELCONF", i) # {}
    <3>1. CASE v = w
      <4>1. \A k : k \in Marks(Tail(InFlight(w)), "DELCONF", i) =>
                      k + 1 \in Marks(InFlight(w), "DELCONF", i)
        BY <1>4, TailMarks
      <4> QED BY <1>4, <3>1, <4>1
    <3>2. CASE v # w
      BY <1>4, <3>2
    <3> QED BY <3>1, <3>2
  <2>3. Stands(v, i)
    BY <2>2 DEF CarefulInv, FindInv
  <2> QED BY <1>10, <2>1, <2>3 DEF TakeEffect
<1> QED BY <1>3, <1>8, <1>10, <1>11, <1>12 DEF CarefulInv

\* REDISPORT and EDITCONF concern no test.
LEMMA HandleSkipCareful ==
    ASSUME CarefulInv, IInv', NEW w \in Channels, HandleRedis(w) \/ HandleEdit(w),
           UNCHANGED masterVars
    PROVE  CarefulInv' /\ Outcome
<1>1. PICK m : Take(w, m) /\ m.op \in {"REDISPORT", "EDITCONF"}
  BY DEF HandleRedis, HandleEdit, RedisMsg
<1>2. inbuf' = [inbuf EXCEPT ![w] = Tail(@)] /\ TestsKept /\ UNCHANGED chanVars
  BY DEF HandleRedis, HandleEdit, TestsKept
<1>3. /\ \A v \in Channels, i \in Ids : Probing(v, i)' = Probing(v, i)
      /\ TestMapComplete'
  BY <1>2, ProbingKept DEF CarefulInv
<1>4. \A i \in Ids : ~Is(m, "ADDCONF", i) /\ ~Is(m, "DELCONF", i)
  BY <1>1 DEF Is
<1>5. Probes(w, m)
  BY <1>3, <1>4 DEF Probes
<1>6. CarefulInv' /\ TakeEffect(w, m)
  BY <1>1, <1>2, <1>3, <1>5, TakeStep
<1>7. Live' = Live /\ retired' = retired
  BY DEF masterVars, Live
<1>8. \A i \in Ids : Same(i)
  BY <1>3, <1>4, <1>6, <1>7 DEF Same, Runs, Somewhere, TakeEffect
<1> QED BY <1>6, <1>8 DEF Outcome

\* add_test: the test runs on the worker its route names, and nowhere else.
LEMMA HandleAddCareful ==
    ASSUME Careful, CarefulInv, IInv', NEW w \in Channels, HandleAdd(w), UNCHANGED masterVars
    PROVE  CarefulInv' /\ Outcome
<1> DEFINE new == Len(tests[w]) + 1
<1>1. PICK m \in ConfMsg, key \in Keys :
        /\ Take(w, m)
        /\ m.op = "ADDCONF"
        /\ key \in TestIds(m.conf)
        /\ tests' = [tests EXCEPT ![w] = Append(@, m.conf)]
        /\ armed' = [armed EXCEPT ![w] = @ \cup {new}]
        /\ test_map' = [test_map EXCEPT ![w][key] = new]
  BY DEF HandleAdd
<1>2. inbuf' = [inbuf EXCEPT ![w] = Tail(@)] /\ UNCHANGED chanVars
  BY DEF HandleAdd
<1> DEFINE id == m.conf.id
<1>3. m.conf \in Conf /\ id \in Ids /\ key = id
  BY <1>1 DEF ConfMsg, Ids, TestIds, Careful
<1>4. /\ Head(InFlight(w)) = m /\ InFlight(w) # <<>> /\ m \in GoodMsg(w)
      /\ InFlight(w) \in Seq(GoodMsg(w))
  BY <1>1, <1>2, Taken, InFlightSeq DEF CarefulInv, chanVars
<1>5. Probing(w, id) = {}
  <2>1. Orderly(InFlight(w), Probing(w, id), id)
    BY <1>3 DEF CarefulInv, OrderInv
  <2> QED BY <1>1, <1>4, <2>1, OrderlyAdd
<1>6. configid_channel_map[id] = w
  BY <1>1, <1>3, <1>4 DEF GoodMsg, CarefulInv, IssuedOnceInv, IInv, DownInv
<1>7. /\ tests[w] \in Seq(Conf) /\ Len(tests[w]) \in Nat /\ DOMAIN tests[w] = 1..Len(tests[w])
      /\ armed[w] \subseteq 1..Len(tests[w])
      /\ armed'[w] = armed[w] \cup {new}
      /\ tests'[w] = Append(tests[w], m.conf)
      /\ \A v \in Channels \ {w} : /\ armed'[v] = armed[v] /\ tests'[v] = tests[v]
                                   /\ test_map'[v] = test_map[v]
      /\ \A k \in Keys : test_map'[w][k] = IF k = key THEN new ELSE test_map[w][k]
  BY <1>1 DEF CarefulInv, IInv, TypeOK, WorkerTypeOK, MapInv
<1>8. tests'[w][new] = m.conf /\ \A k \in armed[w] : tests'[w][k] = tests[w][k] /\ k # new
  BY <1>3, <1>7, AppendFacts
<1> HIDE DEF new
<1>9. /\ \A i \in Ids \ {id} : Probing(w, i)' = Probing(w, i)
      /\ Probing(w, id)' = {new}
      /\ \A v \in Channels \ {w}, i \in Ids : Probing(v, i)' = Probing(v, i)
  <2>1. ASSUME NEW i \in Ids
        PROVE  /\ i # id => Probing(w, i)' = Probing(w, i)
               /\ i = id => Probing(w, i)' = {new}
    <3>1. /\ Probing(w, i)' = {k \in armed'[w] : tests'[w][k].id = i}
          /\ Probing(w, i) = {k \in armed[w] : tests[w][k].id = i}
      BY DEF Probing
    <3>2. i # id => \A k : k \in Probing(w, i)' <=> k \in Probing(w, i)
      BY <1>7, <1>8, <3>1
    <3>3. i = id => \A k : k \in Probing(w, i)' <=> k = new
      <4> HAVE i = id
      <4>1. Probing(w, i) = {}
        BY <1>5
      <4>2. \A k \in armed[w] : tests'[w][k].id # i
        BY <1>8, <3>1, <4>1
      <4>3. new \in armed'[w] /\ tests'[w][new].id = i
        BY <1>7, <1>8
      <4> QED BY <1>7, <3>1, <4>2, <4>3
    <3> QED BY <3>2, <3>3
  <2>2. \A v \in Channels \ {w}, i \in Ids : Probing(v, i)' = Probing(v, i)
    BY <1>7 DEF Probing
  <2> QED BY <1>3, <2>1, <2>2
<1>10. \A i \in Ids : (Is(m, "ADDCONF", i) <=> i = id) /\ ~Is(m, "DELCONF", i)
  BY <1>1 DEF Is
<1>11. Probes(w, m)
  BY <1>9, <1>10 DEF Probes
<1>12. TestMapComplete'
  <2> SUFFICES ASSUME NEW v \in Channels, NEW k \in armed'[v]
               PROVE  test_map'[v][tests'[v][k].id] = k
    BY DEF TestMapComplete
  <2>1. CASE v # w
    BY <1>7, <2>1 DEF CarefulInv, TestMapComplete
  <2>2. CASE v = w /\ k = new
    BY <1>3, <1>7, <1>8, <2>2 DEF Keys
  <2>3. CASE v = w /\ k # new
    <3>1. k \in armed[w] /\ tests'[w][k] = tests[w][k]
      BY <1>7, <1>8, <2>3
    <3>2. tests[w][k].id \in Keys
      BY <1>7, <3>1 DEF Ids, Keys
    <3>3. tests[w][k].id # id
      BY <1>5, <3>1 DEF Probing
    <3>4. test_map[w][tests[w][k].id] = k
      BY <3>1 DEF CarefulInv, TestMapComplete
    <3> QED BY <1>3, <1>7, <2>3, <3>1, <3>2, <3>3, <3>4
  <2> QED BY <2>1, <2>2, <2>3
<1>13. CarefulInv' /\ TakeEffect(w, m)
  BY <1>1, <1>2, <1>11, <1>12, TakeStep
<1>14. Live' = Live /\ retired' = retired
  BY DEF masterVars, Live
<1>15. \A v \in Channels, i \in Ids : Stands(v, i)' <=> Stands(v, i)
  BY <1>10, <1>13 DEF TakeEffect
<1> HIDE DEF id
<1>16. \A i \in Ids \ {id} : Same(i)
  BY <1>9, <1>14, <1>15 DEF Same, Runs, Somewhere
<1>17. CASE id \in Live
  <2>1. \A v \in Channels \ {w} : Probing(v, id) = {}
    BY <1>3, <1>6, Stranger DEF CarefulInv
  <2>2. Started(id)
    BY <1>5, <1>9, <1>14, <1>17, <2>1 DEF Started, Runs
  <2> QED BY <1>3, <1>13, <1>16, <2>2 DEF Outcome, Moves
<1>18. CASE id \notin Live
  <2>1. Same(id)
    BY <1>3, <1>14, <1>15, <1>18 DEF Same, Somewhere
  <2> QED BY <1>13, <1>16, <2>1 DEF Outcome
<1> QED BY <1>17, <1>18

\* delete_test: finds the object of the test under its id and removes no other.
LEMMA HandleDeleteCareful ==
    ASSUME CarefulInv, IInv', NEW w \in Channels, HandleDelete(w), UNCHANGED masterVars
    PROVE  CarefulInv' /\ Outcome
<1>1. PICK m \in ConfMsg :
        /\ Take(w, m)
        /\ m.op = "DELCONF"
        /\ armed' = [armed EXCEPT ![w] = @ \ {test_map[w][m.conf.id]}]
        /\ test_map' = [test_map EXCEPT ![w][m.conf.id] = Null]
  BY DEF HandleDelete, Erase
<1>2. inbuf' = [inbuf EXCEPT ![w] = Tail(@)] /\ tests' = tests /\ UNCHANGED chanVars
  BY DEF HandleDelete
<1> DEFINE id == m.conf.id
           d == test_map[w][id]
<1>3. id \in Ids /\ id \in Keys
  BY <1>1 DEF ConfMsg, Ids, Keys
<1>4. m \in GoodMsg(w)
  BY <1>1, <1>2, Taken DEF CarefulInv, chanVars
<1>5. configid_channel_map[id] = w
  BY <1>1, <1>3, <1>4 DEF GoodMsg, CarefulInv, IssuedOnceInv
<1>6. /\ armed'[w] = armed[w] \ {d} /\ armed[w] \subseteq 1..Len(tests[w])
      /\ tests[w] \in Seq(Conf)
      /\ \A v \in Channels \ {w} : armed'[v] = armed[v] /\ test_map'[v] = test_map[v]
      /\ \A k \in Keys : test_map'[w][k] = IF k = id THEN Null ELSE test_map[w][k]
  BY <1>1, <1>3 DEF CarefulInv, IInv, TypeOK, WorkerTypeOK, MapInv
<1>7. \A k \in armed[w] : /\ tests[w][k].id \in Keys /\ k # Null
                          /\ test_map[w][tests[w][k].id] = k
  BY <1>6 DEF Ids, Keys, Null, CarefulInv, TestMapComplete
<1>8. \A k \in armed[w] : tests[w][k].id = id <=> k = d
  BY <1>3, <1>7 DEF CarefulInv, IInv, MapInv
<1> HIDE DEF d
<1>9. /\ \A i \in Ids \ {id} : Probing(w, i)' = Probing(w, i)
      /\ Probing(w, id)' = {}
      /\ \A v \in Channels \ {w}, i \in Ids : Probing(v, i)' = Probing(v, i)
  <2>1. \A i \in Ids \ {id} : Probing(w, i)' = Probing(w, i)
    BY <1>2, <1>6, <1>8 DEF Probing
  <2>2. Probing(w, id)' = {}
    BY <1>2, <1>6, <1>8 DEF Probing
  <2>3. \A v \in Channels \ {w}, i \in Ids : Probing(v, i)' = Probing(v, i)
    BY <1>2, <1>6 DEF Probing
  <2> QED BY <2>1, <2>2, <2>3
<1>10. \A i \in Ids : (Is(m, "DELCONF", i) <=> i = id) /\ ~Is(m, "ADDCONF", i)
  BY <1>1 DEF Is
<1>11. Probes(w, m)
  BY <1>9, <1>10 DEF Probes
<1>12. TestMapComplete'
  <2> SUFFICES ASSUME NEW v \in Channels, NEW k \in armed'[v]
               PROVE  test_map'[v][tests'[v][k].id] = k
    BY DEF TestMapComplete
  <2>1. CASE v # w
    BY <1>2, <1>6, <2>1 DEF CarefulInv, TestMapComplete
  <2>2. CASE v = w
    BY <1>2, <1>6, <1>7, <1>8, <2>2
  <2> QED BY <2>1, <2>2
<1>13. CarefulInv' /\ TakeEffect(w, m)
  BY <1>1, <1>2, <1>11, <1>12, TakeStep
<1>14. Live' = Live /\ retired' = retired
  BY DEF masterVars, Live
<1>15. /\ \A v \in Channels, i \in Ids \ {id} : Stands(v, i)' <=> Stands(v, i)
       /\ \A v \in Channels \ {w} : Stands(v, id)' <=> Stands(v, id)
       /\ ~Stands(w, id)' /\ id \notin Live
  BY <1>3, <1>10, <1>13 DEF TakeEffect
<1>16. \A v \in Channels \ {w} : ~Stands(v, id)
  BY <1>3, <1>5, Stranger DEF CarefulInv
<1>17. id \in retired
  BY <1>3, <1>5, <1>15, NotStdin DEF CarefulInv, LifeInv
<1> HIDE DEF id
<1>18. \A i \in Ids \ {id} : Same(i)
  BY <1>9, <1>14, <1>15 DEF Same, Runs, Somewhere
<1>19. ~Somewhere(id)'
  BY <1>15, <1>16 DEF Somewhere
<1>20. CASE Stands(w, id)
  <2>1. Stopped(id)
    BY <1>14, <1>15, <1>17, <1>19, <1>20 DEF Stopped, Somewhere
  <2> QED BY <1>3, <1>13, <1>18, <2>1 DEF Outcome, Moves
<1>21. CASE ~Stands(w, id)
  <2>1. ~Somewhere(id)
    BY <1>16, <1>21 DEF Somewhere
  <2>2. Same(id)
    BY <1>14, <1>15, <1>19, <2>1 DEF Same
  <2> QED BY <1>13, <1>18, <2>2 DEF Outcome
<1> QED BY <1>20, <1>21

\* Every step keeps the invariant and, if nothing was lost, moves at most one
\* test on.
LEMMA StepCareful ==
    ASSUME Careful, CarefulInv, [Next]_vars
    PROVE  CarefulInv' /\ (AllHanded => Outcome)
<1>1. IInv'
  BY NextIInv DEF CarefulInv
<1>2. CASE MasterStep /\ UNCHANGED workerVars
  BY <1>1, <1>2, DistributeAddCareful, DistributeRedisCareful, PostNewCareful, PostEditCareful,
     PostDeleteCareful, MasterQuiet DEF MasterStep
<1>3. CASE \E w \in Channels : WorkerStep(w) /\ UNCHANGED masterVars
  <2>1. PICK w \in Channels : WorkerStep(w) /\ UNCHANGED masterVars
    BY <1>3
  <2>2. \A m \in ConfMsg : m.conf.type = "UDP" /\ ~m.conf.long
    BY DEF ConfMsg, Careful
  <2>3. ~HandleUnparsable(w) /\ ~HandleAddOther(w)
    BY <2>2 DEF HandleUnparsable, HandleAddOther
  <2>4. ~FlushToDeadMaster(w)
    BY DEF FlushToDeadMaster, CarefulInv, AliveInv
  <2> QED BY <1>1, <2>1, <2>3, <2>4, WorkerQuiet, HandleSkipCareful, HandleAddCareful,
             HandleDeleteCareful DEF WorkerStep
<1>4. CASE UNCHANGED vars
  <2>1. /\ TestsKept /\ inbuf' = inbuf /\ masterpc' = masterpc /\ todo' = todo
        /\ UNCHANGED <<mstat, wstat, down, issued, handed>>
        /\ UNCHANGED <<configid_channel_map, configid_map, retired>>
    BY <1>4 DEF vars, chanVars, masterVars, workerVars, TestsKept
  <2>2. \A v \in Channels : InFlight(v)' = InFlight(v)
    BY <2>1 DEF InFlight
  <2>3. UnroutedInv'
    BY <2>1 DEF CarefulInv, UnroutedInv, IsCurrent
  <2> QED BY <1>1, <2>1, <2>2, <2>3, QuietStep
<1> QED BY <1>2, <1>3, <1>4 DEF Next, Careful

-----------------------------------------------------------------------------
(* The theorems *)

\* What Held counts: nothing, or one thing.
LEMMA HeldCount ==
    ASSUME NEW q, NEW P, NEW i, Orderly(q, P, i)
    PROVE  Cardinality(Marks(q, "ADDCONF", i)) + Cardinality(P) =
              IF Marks(q, "ADDCONF", i) # {} \/ P # {} THEN 1 ELSE 0
<1>1. Cardinality({}) = 0 /\ \A x : Cardinality({x}) = 1
  BY FS_EmptySet, FS_Singleton
<1>2. \A T : (\A j, k \in T : j = k) => T = {} \/ \E x : T = {x}
  <2> TAKE T
  <2> HAVE \A j, k \in T : j = k
  <2>1. CASE T # {}
    <3>1. PICK x \in T : TRUE
      BY <2>1
    <3>2. T = {x}
      BY <3>1
    <3> QED BY <3>2
  <2> QED BY <2>1
<1>3. /\ Marks(q, "ADDCONF", i) = {} \/ \E x : Marks(q, "ADDCONF", i) = {x}
      /\ P = {} \/ \E x : P = {x}
      /\ Marks(q, "ADDCONF", i) = {} \/ P = {}
  BY <1>2 DEF Orderly
<1>4. CASE Marks(q, "ADDCONF", i) # {}
  <2>1. P = {} /\ \E x : Marks(q, "ADDCONF", i) = {x}
    BY <1>3, <1>4
  <2>2. Cardinality(Marks(q, "ADDCONF", i)) = 1 /\ Cardinality(P) = 0
    BY <1>1, <2>1
  <2> QED BY <1>4, <2>2
<1>5. CASE P # {}
  <2>1. Marks(q, "ADDCONF", i) = {} /\ \E x : P = {x}
    BY <1>3, <1>5
  <2>2. Cardinality(Marks(q, "ADDCONF", i)) = 0 /\ Cardinality(P) = 1
    BY <1>1, <2>1
  <2> QED BY <1>5, <2>2
<1>6. CASE Marks(q, "ADDCONF", i) = {} /\ P = {}
  BY <1>1, <1>6
<1> QED BY <1>4, <1>5, <1>6

\* The number of things held, by the invariant.
HeldIs == \A w \in Channels, i \in Ids : Held(w, i) = IF Stands(w, i) THEN 1 ELSE 0

\* By the invariant a test is held once where something stands for it.
LEMMA HeldFacts == CarefulInv => HeldIs
<1> SUFFICES ASSUME CarefulInv, NEW w \in Channels, NEW i \in Ids
             PROVE  Held(w, i) = IF Stands(w, i) THEN 1 ELSE 0
  BY DEF HeldIs
<1>1. Orderly(InFlight(w), Probing(w, i), i)
  BY DEF CarefulInv, OrderInv
<1>2. PendingAdds(w, i) = Marks(InFlight(w), "ADDCONF", i)
  BY DEF PendingAdds, Marks
<1>3. Cardinality(Marks(InFlight(w), "ADDCONF", i)) + Cardinality(Probing(w, i)) =
         IF Marks(InFlight(w), "ADDCONF", i) # {} \/ Probing(w, i) # {} THEN 1 ELSE 0
  BY <1>1, HeldCount
<1> QED BY <1>2, <1>3 DEF Held, Stands

\* With careful clients the invariant holds in every reachable state, however
\* often a channel is full.
THEOREM CarefulInvariance ==
    ASSUME Careful
    PROVE  Spec => []CarefulInv
<1>1. Init => CarefulInv
  BY InitCareful
<1>2. CarefulInv /\ [Next]_vars => CarefulInv'
  BY StepCareful
<1> QED BY <1>1, <1>2, PTL DEF Spec

\* Where a test that the master holds stands.
LEMMA HoldPlace ==
    ASSUME CarefulInv, NEW i \in Live, NEW w \in Channels
    PROVE  /\ i \in Ids
           /\ Held(w, i) = IF w = configid_channel_map[i] /\ <<w, i>> \in handed THEN 1 ELSE 0
<1>1. i \in Ids
  BY DEF Live
<1>2. Held(w, i) = IF Stands(w, i) THEN 1 ELSE 0
  BY <1>1, HeldFacts DEF HeldIs
<1>3. w = configid_channel_map[i] /\ <<w, i>> \in handed => Stands(w, i)
  BY DEF CarefulInv, HoldInv
<1>4. w # configid_channel_map[i] => ~Stands(w, i)
  BY <1>1, Stranger DEF CarefulInv
<1>5. <<w, i>> \notin handed => ~Stands(w, i)
  BY <1>1, Unhanded DEF CarefulInv
<1> QED BY <1>1, <1>2, <1>3, <1>4, <1>5

\* A test that the master holds is held once, by the worker its route names,
\* unless the write of its ADDCONF found the channel full and send_msg's caller
\* went on as if nothing had happened; then nobody holds it.
THEOREM HeldUnlessLostHolds ==
    ASSUME Careful
    PROVE  Spec => []HeldUnlessLost
<1>1. CarefulInv => HeldUnlessLost
  BY HoldPlace DEF HeldUnlessLost
<1> QED BY <1>1, CarefulInvariance, PTL

\* A DELCONF on its way finds the test probing or its ADDCONF ahead of it in
\* the queue, unless that ADDCONF was lost: delete_test does not look in vain.
THEOREM DeleteFindsHolds ==
    ASSUME Careful
    PROVE  Spec => []DeleteFindsTest
<1>1. CarefulInv => DeleteFindsTest
  <2> SUFFICES ASSUME CarefulInv, NEW w \in Channels, NEW k \in DOMAIN InFlight(w),
                      InFlight(w)[k].op = "DELCONF", <<w, InFlight(w)[k].conf.id>> \in handed
               PROVE  \/ Probing(w, InFlight(w)[k].conf.id) # {}
                      \/ \E j \in PendingAdds(w, InFlight(w)[k].conf.id) : j < k
    BY DEF DeleteFindsTest
  <2> DEFINE i == InFlight(w)[k].conf.id
  <2>1. i \in Ids
    BY DEF CarefulInv, IInv, TypeOK, ChannelTypeOK
  <2>2. k \in Marks(InFlight(w), "DELCONF", i)
    BY DEF Marks
  <2> HIDE DEF i
  <2>3. <<w, i>> \in handed
    BY DEF i
  <2>4. Stands(w, i)
    BY <2>1, <2>2, <2>3 DEF CarefulInv, FindInv
  <2>5. \A j \in Marks(InFlight(w), "ADDCONF", i) : j < k
    BY <2>1, <2>2 DEF CarefulInv, OrderInv, Orderly
  <2>6. PendingAdds(w, i) = Marks(InFlight(w), "ADDCONF", i)
    BY DEF PendingAdds, Marks
  <2>7. Probing(w, i) # {} \/ \E j \in PendingAdds(w, i) : j < k
    BY <2>4, <2>5, <2>6 DEF Stands
  <2> QED BY <2>7 DEF i
<1> QED BY <1>1, CarefulInvariance, PTL

\* Every object that probes is found by delete_test under its test's id.
THEOREM TestMapHolds ==
    ASSUME Careful
    PROVE  Spec => []TestMapComplete
<1>1. CarefulInv => TestMapComplete
  BY DEF CarefulInv
<1> QED BY <1>1, CarefulInvariance, PTL

\* Once distribute_conf or deal_metric_request has chosen a route, no
\* acknowledgement read by deal_channel_data changes it.
THEOREM RouteStableHolds ==
    ASSUME Careful
    PROVE  Spec => RouteStable
<1> DEFINE Kept == \A i \in Ids : configid_channel_map[i] # Stdin =>
                       configid_channel_map'[i] = configid_channel_map[i]
<1>1. ASSUME CarefulInv, [Next]_vars PROVE Kept
  <2>1. CASE DistributeAdd
    <3>1. PICK id \in Ids :
            /\ IsCurrent(id)
            /\ configid_channel_map' = [configid_channel_map EXCEPT ![id] = RoundRobin]
      BY <2>1 DEF DistributeAdd, Route
    <3>2. configid_channel_map[id] = Stdin
      BY <1>1, <2>1, <3>1 DEF DistributeAdd, CarefulInv, UnroutedInv, IsCurrent
    <3> QED BY <1>1, <3>1, <3>2 DEF CarefulInv, IInv, TypeOK, MasterTypeOK
  <2>2. CASE \E conf \in Conf : PostNew(conf)
    <3>1. PICK conf \in Conf :
            /\ conf.id \notin retired /\ configid_map[conf.id] = None
            /\ configid_channel_map' = [configid_channel_map EXCEPT ![conf.id] = LeastLoaded]
      BY <2>2 DEF PostNew, MayPost, Careful, Route
    <3>2. configid_channel_map[conf.id] = Stdin
      BY <1>1, <3>1 DEF CarefulInv, LifeInv, Live, Ids
    <3> QED BY <1>1, <3>1, <3>2 DEF CarefulInv, IInv, TypeOK, MasterTypeOK
  <2>3. CASE \E w \in Channels : RecvAck(w) /\ UNCHANGED workerVars
    <3>1. IInv'
      BY <1>1, NextIInv DEF CarefulInv
    <3>2. configid_channel_map' = configid_channel_map
      BY <1>1, <2>3, <3>1, MasterQuiet
    <3> QED BY <3>2
  <2>4. CASE UNCHANGED configid_channel_map
    BY <2>4
  <2> QED BY <1>1, <2>1, <2>2, <2>3, <2>4
          DEF Next, MasterStep, DistributeStart, DistributeRedis, PostEdit, PostDelete,
              IgnoredRequest, MasterExit, PostNonInteger, masterVars, vars
<1>2. CarefulInv /\ [Next]_vars => [Kept]_vars
  BY <1>1
<1> QED BY <1>2, CarefulInvariance, PTL DEF Spec, RouteStable

-----------------------------------------------------------------------------
(* As long as no channel fills up nothing is lost *)

\* A write to a channel with room comes through.
LEMMA SentHanded ==
    ASSUME CarefulInv, RoomLeft, AllHanded, NEW c, NEW m, send_msg(c, m),
           m.op = "ADDCONF" => c # Stdin
    PROVE  AllHanded'
<1>1. issued' = Recorded(issued, c, m)
  BY DEF send_msg
<1>2. ~BrokenPipe(c)
  BY DEF BrokenPipe, CarefulInv, AliveInv
<1>3. ~DroppedFull(c)
  <2> SUFFICES ASSUME DroppedFull(c) PROVE FALSE
    OBVIOUS
  <2>1. c \in Channels /\ Len(down[c]) >= ChanCap /\ Len(down[c]) < ChanCap
    BY DEF DroppedFull, RoomLeft
  <2>2. Len(down[c]) \in Nat /\ ChanCap \in Nat
    BY <2>1, ChannelAssumption DEF CarefulInv, IInv, TypeOK, ChannelTypeOK
  <2> QED BY <2>1, <2>2
<1>4. CASE Delivered(c, m)
  BY <1>1, <1>4 DEF Delivered, Recorded, AllHanded
<1>5. CASE ToStdin(c)
  <2>1. issued' = issued /\ handed' = handed
    BY <1>1, <1>5 DEF ToStdin, Recorded
  <2> QED BY <2>1 DEF AllHanded
<1> QED BY <1>2, <1>3, <1>4, <1>5 DEF send_msg

\* Every step.
LEMMA HandedStep ==
    ASSUME CarefulInv, RoomLeft, AllHanded, [Next]_vars
    PROVE  AllHanded'
<1>1. RoundRobin # Stdin /\ LeastLoaded # Stdin
  BY RoundRobinChannel, LeastLoadedFound, NotStdin DEF CarefulInv, IInv, TypeOK, MasterTypeOK
<1>2. CASE DistributeAdd
  <2>1. PICK id \in Ids : send_msg(RoundRobin, [op |-> "ADDCONF", conf |-> configid_map[id]])
    BY <1>2 DEF DistributeAdd
  <2> QED BY <1>1, <2>1, SentHanded
<1>3. CASE DistributeRedis
  BY <1>1, <1>3, SentHanded DEF DistributeRedis
<1>4. CASE \E conf \in Conf : PostNew(conf)
  BY <1>1, <1>4, SentHanded DEF PostNew
<1>5. CASE \E conf \in Conf : PostEdit(conf) \/ PostDelete(conf)
  <2>1. \E c : \E m : send_msg(c, m) /\ m.op # "ADDCONF"
    BY <1>5 DEF PostEdit, PostDelete, EditMsg
  <2> QED BY <2>1, SentHanded
<1>6. CASE UNCHANGED <<issued, handed>>
  BY <1>6 DEF AllHanded
<1>7. \/ DistributeAdd \/ DistributeRedis
      \/ \E conf \in Conf : PostNew(conf) \/ PostEdit(conf) \/ PostDelete(conf)
      \/ UNCHANGED <<issued, handed>>
  <2>1. CASE MasterStep
    BY <2>1 DEF MasterStep, DistributeStart, IgnoredRequest, RecvAck, chanVars
  <2>2. CASE \E w \in Channels : WorkerStep(w) \/ WorkerDies(w)
    BY <2>2 DEF WorkerStep, WorkerDies, ReadChannel, HandleUnparsable, HandleAdd, HandleAddOther,
                HandleDelete, HandleRedis, HandleEdit, EndCallback, FlushAcks, FlushToDeadMaster,
                Exit, chanVars
  <2>3. CASE MasterExit \/ PostNonInteger \/ UNCHANGED vars
    BY <2>3 DEF MasterExit, PostNonInteger, vars, chanVars
  <2> QED BY <2>1, <2>2, <2>3 DEF Next
<1> QED BY <1>2, <1>3, <1>4, <1>5, <1>6, <1>7

\* With careful clients and room in the channels no ADDCONF is lost.
THEOREM NothingLost ==
    ASSUME Careful
    PROVE  Spec /\ []RoomLeft => []AllHanded
<1>1. Init => AllHanded
  BY DEF Init, ChannelInit, AllHanded
<1>2. CarefulInv /\ RoomLeft /\ AllHanded /\ [Next]_vars => AllHanded'
  BY HandedStep
<1> QED BY <1>1, <1>2, CarefulInvariance, PTL DEF Spec

\* Then a test that the master holds is held once, by the worker its route
\* names: by an ADDCONF on its way or by one probing object (distribute_conf,
\* deal_metric_request, add_test, delete_test).
THEOREM ExactlyOneHolds ==
    ASSUME Careful
    PROVE  Spec /\ []RoomLeft => []ExactlyOneHolder
<1>1. CarefulInv /\ AllHanded => ExactlyOneHolder
  <2> SUFFICES ASSUME CarefulInv, AllHanded, NEW i \in Live, NEW w \in Channels
               PROVE  Held(w, i) = IF w = configid_channel_map[i] THEN 1 ELSE 0
    BY DEF ExactlyOneHolder
  <2>1. /\ i \in Ids
        /\ Held(w, i) = IF w = configid_channel_map[i] /\ <<w, i>> \in handed THEN 1 ELSE 0
    BY HoldPlace
  <2>2. w = configid_channel_map[i] => <<w, i>> \in handed
    BY <2>1, NotStdin DEF CarefulInv, IInv, RouteInv, AllHanded
  <2> QED BY <2>1, <2>2
<1> QED BY <1>1, CarefulInvariance, NothingLost, PTL

-----------------------------------------------------------------------------
(* Prober implements Lifecycle *)

\* The phase of a test, by what it depends on.
PhaseIs ==
    \A i \in Ids :
        PhaseOf(i) = IF i \in Live THEN IF Runs(i) THEN "running" ELSE "pending"
                     ELSE IF Somewhere(i) THEN "stopping"
                     ELSE IF i \in retired THEN "gone" ELSE "absent"

\* PhaseOf counts with Held; by the invariant what counts is where a test
\* stands.
LEMMA PhaseFacts == CarefulInv => PhaseIs
<1> SUFFICES ASSUME CarefulInv, NEW i \in Ids
             PROVE  PhaseOf(i) = IF i \in Live THEN IF Runs(i) THEN "running" ELSE "pending"
                                 ELSE IF Somewhere(i) THEN "stopping"
                                 ELSE IF i \in retired THEN "gone" ELSE "absent"
  BY DEF PhaseIs
<1>1. \A w \in Channels : Held(w, i) # 0 <=> Stands(w, i)
  BY HeldFacts DEF HeldIs
<1>2. /\ Runs(i) <=> \E w \in Channels : Probing(w, i) # {}
      /\ Somewhere(i) <=> \E w \in Channels : Held(w, i) # 0
  BY <1>1 DEF Runs, Somewhere
<1>3. i \in Live => i \notin retired
  BY DEF CarefulInv, LifeInv
<1>4. CASE i \in Live /\ Runs(i)
  BY <1>2, <1>3, <1>4 DEF PhaseOf
<1>5. CASE i \in Live /\ ~Runs(i)
  BY <1>2, <1>3, <1>5 DEF PhaseOf
<1>6. CASE i \notin Live /\ Somewhere(i)
  BY <1>2, <1>6 DEF PhaseOf
<1>7. CASE i \notin Live /\ ~Somewhere(i)
  BY <1>2, <1>7 DEF PhaseOf
<1> QED BY <1>4, <1>5, <1>6, <1>7

\* The same in the next state.
LEMMA PhaseFactsNext == CarefulInv' => PhaseIs'
  BY PhaseFacts, PTL

\* Every step is a step of Lifecycle or leaves all phases as they are.
LEMMA RefinementStep ==
    ASSUME Careful, CarefulInv, AllHanded, [Next]_vars
    PROVE  Client!Next \/ \A i \in Ids : PhaseOf(i)' = PhaseOf(i)
<1>1. CarefulInv' /\ Outcome
  BY StepCareful
<1>2. PhaseIs /\ PhaseIs'
  BY <1>1, PhaseFacts, PhaseFactsNext
<1>3. ASSUME NEW i \in Ids, Same(i) PROVE PhaseOf(i)' = PhaseOf(i)
  BY <1>2, <1>3 DEF PhaseIs, Same
<1>4. CASE \A i \in Ids : Same(i)
  BY <1>3, <1>4
<1>5. CASE Moves
  <2>1. PICK i \in Ids : /\ \A j \in Ids \ {i} : Same(j)
                         /\ Accepted(i) \/ Started(i) \/ Deleted(i) \/ Stopped(i)
    BY <1>5 DEF Moves
  <2>2. \A j \in Ids \ {i} : PhaseOf(j)' = PhaseOf(j)
    BY <1>3, <2>1
  <2> DEFINE Moved(from, to) == PhaseOf(i) = from /\ PhaseOf(i)' = to
  <2>3. \A from, to : Moved(from, to) => Client!Move(i, from, to)
    BY <2>2 DEF Client!Move
  <2>4. CASE Accepted(i)
    <3>1. Moved("absent", "pending")
      BY <1>2, <2>4 DEF PhaseIs, Accepted
    <3> QED BY <2>3, <3>1 DEF Client!Next, Client!Submit
  <2>5. CASE Started(i)
    <3>1. Moved("pending", "running")
      BY <1>2, <2>5 DEF PhaseIs, Started
    <3> QED BY <2>3, <3>1 DEF Client!Next, Client!Start
  <2>6. CASE Deleted(i)
    <3>1. Moved("pending", "stopping") \/ Moved("running", "stopping")
      BY <1>2, <2>6 DEF PhaseIs, Deleted
    <3> QED BY <2>3, <3>1 DEF Client!Next, Client!Delete
  <2>7. CASE Stopped(i)
    <3>1. Moved("stopping", "gone")
      BY <1>2, <2>7 DEF PhaseIs, Stopped
    <3> QED BY <2>3, <3>1 DEF Client!Next, Client!Stop
  <2> QED BY <2>1, <2>4, <2>5, <2>6, <2>7
<1> QED BY <1>1, <1>4, <1>5 DEF Outcome

\* Initially a test is absent or, from test.conf, pending.
LEMMA RefinementInit ==
    ASSUME Careful, Init
    PROVE  Client!Init
<1>1. CarefulInv
  BY InitCareful
<1>2. PhaseIs
  BY <1>1, PhaseFacts
<1>3. retired = {} /\ \A w \in Channels, i \in Ids : Probing(w, i) = {} /\ ~Stands(w, i)
  <2>1. \A w \in Channels, i \in Ids : configid_channel_map[i] # w
    BY NotStdin DEF Init, MasterInit
  <2> QED BY <1>1, <2>1, Stranger DEF CarefulInv, Init, MasterInit
<1>4. \A i \in Ids : PhaseOf(i) \in {"absent", "pending"}
  BY <1>2, <1>3 DEF PhaseIs, Runs, Somewhere
<1> QED BY <1>4 DEF Client!Init

\* Master, channels and workers together implement the life of a test that
\* Lifecycle promises a client: it is accepted, probed by exactly one object
\* of one worker, deleted, stopped, and never runs again.
THEOREM Refinement ==
    ASSUME Careful
    PROVE  Spec /\ []RoomLeft => ImplementsLifecycle
<1>1. Init => Client!Init
  BY RefinementInit
<1>2. CarefulInv /\ AllHanded /\ [Next]_vars => [Client!Next]_[i \in Ids |-> PhaseOf(i)]
  BY RefinementStep
<1> QED BY <1>1, <1>2, CarefulInvariance, NothingLost, PTL
           DEF Spec, ImplementsLifecycle, Client!Spec

-----------------------------------------------------------------------------
(* How large a channel has to be *)

\* A channel takes every message the master can write: one for each request,
\* two for each test that distribute_conf hands out.
Ample == IsFiniteSet(Ids) /\ MaxReq + 2 * Cardinality(Ids) < ChanCap

\* The messages that distribute_conf has yet to write.
Owed == IF masterpc = "wait" THEN 2 * Cardinality(Ids)
        ELSE IF masterpc = "add" THEN 2 * Cardinality(todo)
        ELSE IF masterpc = "redis" THEN 2 * Cardinality(todo) - 1
        ELSE 0

\* What a channel holds, and will get from distribute_conf, is covered by the
\* requests and the tests there can be.
RoomInv ==
    /\ masterpc = "redis" => todo # {}
    /\ nreq <= MaxReq
    /\ \A w \in Channels : Len(down[w]) + Owed - nreq <= 2 * Cardinality(Ids)

\* A write makes a channel at most one message longer.
LEMMA SendLength ==
    ASSUME ChannelTypeOK, NEW c, NEW m, send_msg(c, m), NEW w \in Channels
    PROVE  Len(down[w]) \in Nat /\ Len(down'[w]) \in Nat /\ Len(down'[w]) <= Len(down[w]) + 1
<1>1. down[w] \in Seq(Msg) /\ Len(down[w]) \in Nat
  BY DEF ChannelTypeOK
<1>2. CASE Delivered(c, m)
  <2>1. down'[w] = IF w = c THEN Append(down[w], m) ELSE down[w]
    BY <1>2 DEF Delivered, ChannelTypeOK
  <2>2. down[w] \in Seq(Msg \cup {m})
    BY <1>1, SeqMonotone
  <2>3. Len(Append(down[w], m)) = Len(down[w]) + 1
    BY <2>2, AppendFacts
  <2> QED BY <1>1, <2>1, <2>3
<1>3. CASE DroppedFull(c) \/ BrokenPipe(c) \/ ToStdin(c)
  BY <1>1, <1>3 DEF DroppedFull, BrokenPipe, ToStdin
<1> QED BY <1>2, <1>3 DEF send_msg

\* Sets of ids are finite, and smaller without one of their elements.
LEMMA IdSets ==
    ASSUME IsFiniteSet(Ids), NEW S \in SUBSET Ids
    PROVE  /\ Cardinality(S) \in Nat /\ Cardinality(Ids) \in Nat
           /\ Cardinality(S) <= Cardinality(Ids)
           /\ S # {} => Cardinality(S) > 0
           /\ \A i \in S : Cardinality(S \ {i}) = Cardinality(S) - 1
<1>1. IsFiniteSet(S) /\ Cardinality(S) <= Cardinality(Ids)
  BY FS_Subset
<1>2. Cardinality(S) \in Nat /\ Cardinality(Ids) \in Nat
  BY <1>1, FS_CardinalityType
<1>3. S # {} => Cardinality(S) # 0
  BY <1>1, FS_EmptySet
<1>4. \A i \in S : Cardinality(S \ {i}) = Cardinality(S) - 1
  BY <1>1, FS_RemoveElement
<1> QED BY <1>1, <1>2, <1>3, <1>4

\* A step that adds to no channel more than it pays or is asked for.
LEMMA RoomKept ==
    ASSUME RoomInv, Cardinality(Ids) \in Nat,
           nreq \in Nat, nreq' \in Nat, nreq' <= MaxReq, Owed \in Int, Owed' \in Int,
           masterpc' = "redis" => todo' # {},
           \A w \in Channels :
              /\ Len(down[w]) \in Nat /\ Len(down'[w]) \in Nat
              /\ Len(down'[w]) + Owed' - nreq' <= Len(down[w]) + Owed - nreq
    PROVE  RoomInv'
<1>1. ASSUME NEW w \in Channels
      PROVE  Len(down'[w]) + Owed' - nreq' <= 2 * Cardinality(Ids)
  <2> DEFINE x == Len(down[w]) + Owed - nreq
             y == Len(down'[w]) + Owed' - nreq'
             c == 2 * Cardinality(Ids)
  <2>1. x <= c /\ y <= x
    BY DEF RoomInv
  <2>2. x \in Int /\ y \in Int /\ c \in Int
    OBVIOUS
  <2> HIDE DEF x, y, c
  <2>3. y <= c
    BY <2>1, <2>2
  <2> QED BY <2>3 DEF y, c
<1> QED BY <1>1 DEF RoomInv

LEMMA RoomInit == ASSUME IsFiniteSet(Ids) PROVE Init => RoomInv
<1>1. Cardinality(Ids) \in Nat
  BY FS_CardinalityType
<1> QED BY <1>1, MasterAssumption DEF Init, ChannelInit, MasterInit, RoomInv, Owed

\* distribute_conf pays with what it owes.
LEMMA RoomDistribute ==
    ASSUME IsFiniteSet(Ids), TypeOK, RoomInv,
           DistributeStart \/ DistributeAdd \/ DistributeRedis
    PROVE  RoomInv'
<1>1. /\ nreq \in Nat /\ todo \in SUBSET Ids /\ Live \in SUBSET Ids /\ ChannelTypeOK
      /\ \A w \in Channels : Len(down[w]) \in Nat
  BY DEF TypeOK, MasterTypeOK, ChannelTypeOK, Live
<1>2. /\ Cardinality(todo) \in Nat /\ Cardinality(Ids) \in Nat
      /\ Cardinality(Live) \in Nat /\ Cardinality(Live) <= Cardinality(Ids)
  BY <1>1, IdSets
<1>3. CASE DistributeStart
  <2>1. /\ masterpc = "wait" /\ todo' = Live /\ nreq' = nreq /\ down' = down
        /\ masterpc' = IF Live = {} THEN "idle" ELSE "add"
    BY <1>3 DEF DistributeStart, chanVars
  <2>2. Owed = 2 * Cardinality(Ids) /\ Owed' <= 2 * Cardinality(Live)
    BY <1>2, <2>1 DEF Owed
  <2>3. Owed' <= Owed /\ Owed \in Int /\ Owed' \in Int
    BY <1>2, <2>1, <2>2 DEF Owed
  <2>4. nreq <= MaxReq
    BY DEF RoomInv
  <2> QED BY <1>1, <1>2, <2>1, <2>3, <2>4, RoomKept
<1>4. CASE DistributeAdd
  <2>1. PICK id \in Ids : /\ IsCurrent(id)
                          /\ send_msg(RoundRobin, [op |-> "ADDCONF", conf |-> configid_map[id]])
    BY <1>4 DEF DistributeAdd
  <2>2. masterpc = "add" /\ masterpc' = "redis" /\ todo' = todo /\ nreq' = nreq
    BY <1>4 DEF DistributeAdd
  <2>3. todo # {}
    BY <2>1 DEF IsCurrent
  <2>4. Owed = 2 * Cardinality(todo) /\ Owed' = 2 * Cardinality(todo) - 1
    BY <2>2 DEF Owed
  <2>5. \A w \in Channels : Len(down'[w]) \in Nat /\ Len(down'[w]) <= Len(down[w]) + 1
    BY <2>1, <1>1, SendLength
  <2>6. nreq <= MaxReq
    BY DEF RoomInv
  <2>7. Owed \in Int /\ Owed' \in Int /\ Owed' = Owed - 1
    BY <1>2, <2>4
  <2> QED BY <1>1, <1>2, <2>2, <2>3, <2>5, <2>6, <2>7, RoomKept
<1>5. CASE DistributeRedis
  <2>1. PICK id \in Ids : IsCurrent(id) /\ todo' = todo \ {id}
    BY <1>5 DEF DistributeRedis
  <2>2. /\ send_msg(RoundRobin, [op |-> "REDISPORT"])
        /\ masterpc = "redis" /\ nreq' = nreq
        /\ masterpc' = IF todo' = {} THEN "idle" ELSE "add"
    BY <1>5 DEF DistributeRedis
  <2>3. Cardinality(todo') = Cardinality(todo) - 1 /\ Cardinality(todo) > 0
    BY <1>1, <2>1, IdSets DEF IsCurrent
  <2>4. Owed = 2 * Cardinality(todo) - 1
    BY <2>2 DEF Owed
  <2>5. Owed' <= Owed - 1 /\ Owed' \in Int
    BY <1>2, <2>2, <2>3, <2>4 DEF Owed
  <2>6. \A w \in Channels : Len(down'[w]) \in Nat /\ Len(down'[w]) <= Len(down[w]) + 1
    BY <2>2, <1>1, SendLength
  <2>7. nreq <= MaxReq /\ Owed \in Int
    BY <1>2, <2>4 DEF RoomInv
  <2>8. \A w \in Channels : Len(down'[w]) + Owed' - nreq' <= Len(down[w]) + Owed - nreq
    BY <1>1, <2>2, <2>5, <2>6, <2>7
  <2>9. masterpc' # "redis"
    BY <2>2
  <2> QED BY <1>1, <1>2, <2>2, <2>5, <2>6, <2>7, <2>8, <2>9, RoomKept
<1> QED BY <1>3, <1>4, <1>5

\* A request writes one message.
LEMMA RoomRequest ==
    ASSUME IsFiniteSet(Ids), TypeOK, RoomInv, NEW conf \in Conf,
           PostNew(conf) \/ PostEdit(conf) \/ PostDelete(conf)
    PROVE  RoomInv'
<1>1. /\ nreq \in Nat /\ nreq < MaxReq /\ nreq' = nreq + 1 /\ MaxReq \in Nat
      /\ todo' = todo /\ masterpc' = masterpc
      /\ todo \in SUBSET Ids /\ ChannelTypeOK
      /\ \A w \in Channels : Len(down[w]) \in Nat
  BY MasterAssumption
     DEF TypeOK, MasterTypeOK, ChannelTypeOK, PostNew, PostEdit, PostDelete, MayPost
<1>2. Cardinality(todo) \in Nat /\ Cardinality(Ids) \in Nat
  BY <1>1, IdSets
<1>3. Owed' = Owed /\ Owed \in Int
  BY <1>1, <1>2 DEF Owed
<1>4. \E c : \E m : send_msg(c, m)
  BY DEF PostNew, PostEdit, PostDelete
<1>5. \A w \in Channels : Len(down'[w]) \in Nat /\ Len(down'[w]) <= Len(down[w]) + 1
  BY <1>1, <1>4, SendLength
<1>6. masterpc' = "redis" => todo' # {}
  BY <1>1 DEF RoomInv
<1> QED BY <1>1, <1>2, <1>3, <1>5, <1>6, RoomKept

\* Every other step leaves the channels to the master as they are, or
\* shortens one.
LEMMA RoomOther ==
    ASSUME IsFiniteSet(Ids), TypeOK, RoomInv, TypeOK',
           UNCHANGED <<masterpc, todo, nreq>>,
           \A w \in Channels : Len(down'[w]) <= Len(down[w])
    PROVE  RoomInv'
<1>1. /\ nreq \in Nat /\ todo \in SUBSET Ids
      /\ \A w \in Channels : Len(down[w]) \in Nat /\ Len(down'[w]) \in Nat
  BY DEF TypeOK, MasterTypeOK, ChannelTypeOK
<1>2. Cardinality(todo) \in Nat /\ Cardinality(Ids) \in Nat
  BY <1>1, IdSets
<1>3. Owed' = Owed /\ Owed \in Int
  BY <1>2 DEF Owed
<1>4. nreq <= MaxReq /\ (masterpc' = "redis" => todo' # {})
  BY DEF RoomInv
<1> QED BY <1>1, <1>2, <1>3, <1>4, RoomKept

LEMMA WorkerShortens ==
    ASSUME TypeOK, NEW v \in Channels, WorkerStep(v) \/ WorkerDies(v), NEW w \in Channels
    PROVE  Len(down'[w]) <= Len(down[w])
<1>1. down \in [Channels -> Seq(Msg)] /\ Len(down[w]) \in Nat
  BY DEF TypeOK, ChannelTypeOK
<1>2. CASE ReadChannel(v)
  <2>1. PICK k \in 1..Len(down[v]) :
            down' = [down EXCEPT ![v] = SubSeq(@, k + 1, Len(@))]
    BY <1>2 DEF ReadChannel
  <2>2. CASE w = v
    <3>1. down'[w] = SubSeq(down[w], k + 1, Len(down[w]))
      BY <1>1, <2>1, <2>2
    <3>2. Len(SubSeq(down[w], k + 1, Len(down[w]))) <= Len(down[w])
      BY <1>1, <2>2
    <3> QED BY <3>1, <3>2
  <2>3. CASE w # v
    BY <1>1, <2>1, <2>3
  <2> QED BY <2>2, <2>3
<1>3. CASE Exit(v)
  <2>1. down'[w] = down[w] \/ down'[w] = <<>>
    BY <1>1, <1>3 DEF Exit
  <2> QED BY <1>1, <2>1
<1>4. CASE down' = down
  BY <1>1, <1>4
<1>5. ReadChannel(v) \/ Exit(v) \/ down' = down
  BY DEF WorkerStep, WorkerDies, HandleUnparsable, HandleAdd, HandleAddOther, HandleDelete,
         HandleRedis, HandleEdit, EndCallback, FlushAcks, FlushToDeadMaster, chanVars
<1> QED BY <1>2, <1>3, <1>4, <1>5

LEMMA RoomStep ==
    ASSUME IsFiniteSet(Ids), IInv, IInv', RoomInv, [Next]_vars
    PROVE  RoomInv'
<1>1. TypeOK /\ TypeOK' /\ \A w \in Channels : Len(down[w]) \in Nat
  BY DEF IInv, TypeOK, ChannelTypeOK
<1>2. CASE MasterStep
  <2>1. CASE DistributeStart \/ DistributeAdd \/ DistributeRedis
    BY <1>1, <2>1, RoomDistribute
  <2>2. CASE \E c \in Conf : PostNew(c) \/ PostEdit(c) \/ PostDelete(c)
    BY <1>1, <2>2, RoomRequest
  <2>3. CASE IgnoredRequest \/ \E w \in Channels : RecvAck(w)
    <3>1. UNCHANGED <<masterpc, todo, nreq, down>>
      BY <2>3 DEF IgnoredRequest, RecvAck, masterVars, chanVars
    <3> QED BY <1>1, <3>1, RoomOther
  <2> QED BY <1>2, <2>1, <2>2, <2>3 DEF MasterStep
<1>3. CASE \E w \in Channels : (WorkerStep(w) \/ WorkerDies(w)) /\ UNCHANGED masterVars
  <2>1. UNCHANGED <<masterpc, todo, nreq>>
    BY <1>3 DEF masterVars
  <2>2. \A w \in Channels : Len(down'[w]) <= Len(down[w])
    BY <1>1, <1>3, WorkerShortens
  <2> QED BY <1>1, <2>1, <2>2, RoomOther
<1>4. CASE MasterExit \/ PostNonInteger \/ UNCHANGED vars
  <2>1. UNCHANGED <<masterpc, todo, nreq, down>>
    BY <1>4 DEF MasterExit, PostNonInteger, vars, masterVars, chanVars
  <2> QED BY <1>1, <2>1, RoomOther
<1> QED BY <1>2, <1>3, <1>4 DEF Next

\* A socket buffer for one message per request and two per test of test.conf is
\* large enough: no write of the master, whose result nobody looks at, finds
\* it full.  This holds for any client and any fault.
THEOREM RoomHolds ==
    ASSUME Ample
    PROVE  Spec => []RoomLeft
<1>1. IsFiniteSet(Ids) /\ MaxReq + 2 * Cardinality(Ids) < ChanCap
  BY DEF Ample
<1>2. Init => RoomInv
  BY <1>1, RoomInit
<1>3. IInv /\ IInv' /\ RoomInv /\ [Next]_vars => RoomInv'
  BY <1>1, RoomStep
<1>4. IInv /\ RoomInv => RoomLeft
  <2> SUFFICES ASSUME IInv, RoomInv, NEW w \in Channels PROVE Len(down[w]) < ChanCap
    BY DEF RoomLeft
  <2>1. /\ nreq \in Nat /\ todo \in SUBSET Ids /\ Len(down[w]) \in Nat
        /\ MaxReq \in Nat /\ ChanCap \in Nat
    BY MasterAssumption, ChannelAssumption
       DEF IInv, TypeOK, MasterTypeOK, ChannelTypeOK
  <2>2. /\ Cardinality(todo) \in Nat /\ Cardinality(Ids) \in Nat
        /\ todo # {} => Cardinality(todo) > 0
    BY <1>1, <2>1, IdSets
  <2>3. Owed \in Nat
    BY <2>2 DEF Owed, RoomInv
  <2> QED BY <1>1, <2>1, <2>2, <2>3 DEF RoomInv
<1> QED BY <1>2, <1>3, <1>4, Invariance, PTL DEF Spec

\* With careful clients and such a buffer the control plane keeps its promise:
\* one holder for each test, at its route, found by delete_test, and the life
\* of a test as Lifecycle has it.
THEOREM CarefulAndAmple ==
    ASSUME Careful, Ample
    PROVE  Spec => /\ []ExactlyOneHolder /\ []TestMapComplete
                   /\ RouteStable /\ ImplementsLifecycle
<1>1. Spec => []RoomLeft
  BY RoomHolds
<1>2. /\ Spec /\ []RoomLeft => []ExactlyOneHolder
      /\ Spec => []TestMapComplete
  BY ExactlyOneHolds, TestMapHolds
<1>3. /\ Spec => RouteStable
      /\ Spec /\ []RoomLeft => ImplementsLifecycle
  BY RouteStableHolds, Refinement
<1> QED BY <1>1, <1>2, <1>3, PTL
=============================================================================
