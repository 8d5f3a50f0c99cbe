-------------------------- MODULE ConfStoreProofs --------------------------
(***************************************************************************)
(* Proofs about ConfStore, for every set of ids and texts, every test.conf *)
(* at the start, any number of flushes, crashes and restarts, and with or  *)
(* without a full disk.                                                    *)
(***************************************************************************)
EXTENDS ConfStore, DataFacts

-----------------------------------------------------------------------------
(* The inductive invariant *)

IsObject(p) == p \in DOMAIN file /\ file[p].kind = "object"

\* What the entry of an object token is, once read.
TextAt(p) == [id |-> file[p].id, ver |-> file[p].ver, split |-> FALSE]

\* While flush_test_conf runs nothing else does: the map is still the one that
\* was there when the file was opened.
FlushInv ==
    /\ stage = "idle" => todo = {}
    /\ stage = "separator" => todo # {}
    /\ stage # "idle" => proc = "up" /\ file # None /\ flushed = configid_map

\* get_test_conf reads the object at p as the last one for id i.
LastReadAt(f, i, p) == p \in ReadAt(f, i) /\ \A q \in ReadAt(f, i) : q <= p

\* The last object that is read for an id is the text that the id had when the
\* file was last opened for writing.
FileInv ==
    file # None =>
        \A i \in Ids, p \in DOMAIN file : LastReadAt(file, i, p) => flushed[i] = TextAt(p)

\* The iterator has passed exactly what was written.
IteratorInv ==
    /\ \A i \in Ids : flushed[i] # None => flushed[i].id = i
    /\ \A i \in written : flushed[i] # None
    /\ \A i \in written, j \in Ids : flushed[j] # None /\ j < i => j \in written
    /\ stage = "text" => todo = {i \in Ids : flushed[i] # None} \ written
    /\ stage = "separator" =>
          /\ Least(todo) \in written
          /\ todo \ {Least(todo)} = {i \in Ids : flushed[i] # None} \ written

\* The next text will stand at the start of a line.
LineInv == stage = "text" => file = <<>> \/ file[Len(file)].kind = "eol"

\* What complete writes leave in the file: the texts written, each at the
\* start of a line or, when it spans several lines, a line that is given up
\* at; and behind such a line only larger ids.
ContentInv ==
    /\ \A p \in DOMAIN file : IsObject(p) => file[p].id \in written
    /\ \A i \in written : ~flushed[i].split =>
          \E p \in DOMAIN file : IsObject(p) /\ file[p].id = i /\ LineStart(file, p)
    /\ \A i \in written : flushed[i].split => \E q \in DOMAIN file : GivesUpAt(file, q)
    /\ \A q \in DOMAIN file : GivesUpAt(file, q) => \E i \in written : flushed[i].split
    /\ \A i \in written, p \in DOMAIN file :
          flushed[i].split /\ IsObject(p) /\ i < file[p].id =>
              \E q \in 1..(p - 1) : GivesUpAt(file, q)
    /\ \A p \in DOMAIN file, q \in DOMAIN file :
          IsObject(p) /\ GivesUpAt(file, q) /\ q < p =>
              \E i \in written : flushed[i].split /\ i < file[p].id

CleanInv == clean /\ file # None => LineInv /\ ContentInv

IInv ==
    /\ TypeOK
    /\ FlushInv /\ FileInv /\ IteratorInv /\ CleanInv

-----------------------------------------------------------------------------
(* Facts about data *)

\* The iterator of configid_map stands on the smallest id that is left.
LEMMA LeastFound ==
    ASSUME NEW S \in SUBSET Ids, S # {}
    PROVE  Least(S) \in S /\ \A j \in S : Least(S) <= j
<1>1. S \in SUBSET Nat
  BY ConfStoreAssumption
<1>2. \E i \in S : \A j \in S : i <= j
  BY <1>1, NatMin
<1> QED BY <1>2 DEF Least

\* The last of some positions or lines.
LEMMA LatestFound ==
    ASSUME NEW n \in Nat, NEW S \in SUBSET (1..n), S # {}
    PROVE  Latest(S) \in S /\ \A q \in S : q <= Latest(S)
<1> DEFINE D == {n - p : p \in S}
<1>1. D \in SUBSET Nat /\ D # {}
  <2>1. \A p \in S : n - p \in Nat
    OBVIOUS
  <2>2. \E p \in S : n - p \in D
    OBVIOUS
  <2> QED BY <2>1, <2>2
<1>2. PICK d \in D : \A e \in D : d <= e
  BY <1>1, NatMin
<1>3. PICK p \in S : d = n - p
  OBVIOUS
<1>4. ASSUME NEW q \in S PROVE q <= p
  <2>1. n - p <= n - q
    BY <1>2, <1>3
  <2>2. p \in 1..n /\ q \in 1..n
    OBVIOUS
  <2> QED BY <2>1, <2>2
<1> QED BY <1>4 DEF Latest

\* The lines of the file of an administrator.
LEMMA OddEven ==
    ASSUME NEW j \in Nat
    PROVE  (2 * j + 1) % 2 = 1 /\ (2 * j) % 2 = 0 /\ (2 * j + 1) \div 2 = j
  OBVIOUS

\* File c is file a with the tokens b written at its end: what stays as it
\* was, and what is new.
Extended(a, b, c) ==
    /\ c \in Seq(Tokens) /\ Len(c) = Len(a) + Len(b)
    /\ DOMAIN c = 1..(Len(a) + Len(b)) /\ DOMAIN a = 1..Len(a) /\ DOMAIN b = 1..Len(b)
    /\ Len(a) \in Nat /\ Len(b) \in Nat
    /\ \A p \in DOMAIN a : /\ p \in DOMAIN c /\ c[p] = a[p]
                           /\ LineStart(c, p) <=> LineStart(a, p)
                           /\ GivesUpAt(c, p) <=> GivesUpAt(a, p)
    /\ \A p \in DOMAIN c : p \in DOMAIN a \/ \E k \in DOMAIN b : p = Len(a) + k
    /\ \A k \in DOMAIN b : Len(a) + k \in DOMAIN c /\ c[Len(a) + k] = b[k]

\* A write extends the file.
LEMMA Written ==
    ASSUME NEW a \in Seq(Tokens), NEW b \in Seq(Tokens)
    PROVE  Extended(a, b, a \o b)
<1> DEFINE c == a \o b
<1>1. /\ c \in Seq(Tokens) /\ Len(c) = Len(a) + Len(b) /\ Len(a) \in Nat /\ Len(b) \in Nat
      /\ DOMAIN c = 1..(Len(a) + Len(b)) /\ DOMAIN a = 1..Len(a) /\ DOMAIN b = 1..Len(b)
  OBVIOUS
<1>2. \A p \in 1..Len(a) : c[p] = a[p]
  OBVIOUS
<1>3. \A k \in 1..Len(b) : c[Len(a) + k] = b[k]
  OBVIOUS
<1>4. ASSUME NEW p \in DOMAIN a
      PROVE  /\ p \in DOMAIN c /\ c[p] = a[p]
             /\ LineStart(c, p) <=> LineStart(a, p)
             /\ GivesUpAt(c, p) <=> GivesUpAt(a, p)
  <2>1. p \in DOMAIN c /\ c[p] = a[p]
    BY <1>1, <1>2
  <2>2. LineStart(c, p) <=> LineStart(a, p)
    <3>1. CASE p = 1
      BY <3>1 DEF LineStart
    <3>2. CASE p # 1
      <4>1. p - 1 \in 1..Len(a)
        BY <1>1, <3>2
      <4> QED BY <4>1, <1>2, <3>2 DEF LineStart
    <3> QED BY <3>1, <3>2
  <2> QED BY <2>1, <2>2 DEF GivesUpAt
<1>5. \A p \in 1..(Len(a) + Len(b)) : p \in 1..Len(a) \/ \E k \in 1..Len(b) : p = Len(a) + k
  <2> SUFFICES ASSUME NEW p \in 1..(Len(a) + Len(b)), p \notin 1..Len(a)
               PROVE  \E k \in 1..Len(b) : p = Len(a) + k
    OBVIOUS
  <2>1. p - Len(a) \in 1..Len(b) /\ p = Len(a) + (p - Len(a))
    BY <1>1
  <2> QED BY <2>1
<1>6. \A k \in 1..Len(b) : Len(a) + k \in 1..(Len(a) + Len(b))
  BY <1>1
<1> HIDE DEF c
<1>7. Extended(a, b, c)
  BY <1>1, <1>3, <1>4, <1>5, <1>6 DEF Extended
<1> QED BY <1>7 DEF c

-----------------------------------------------------------------------------
(* Initial states *)

\* A file that an administrator has written satisfies the invariant.
LEMMA InitIInv == Init => IInv
<1> SUFFICES ASSUME Init PROVE IInv
  OBVIOUS
<1>1. PICK s \in StartConfs :
          /\ flushed = StartMap(s)
          /\ file \in {StartFile(s)} \cup (IF s = <<>> THEN {None} ELSE {})
  BY DEF Init
<1>2. /\ proc = "down" /\ configid_map = [i \in Ids |-> None]
      /\ written = {i \in Ids : flushed[i] # None}
      /\ stage = "idle" /\ todo = {} /\ clean = TRUE
  BY DEF Init
<1>3. /\ s \in Seq(Texts) /\ Len(s) \in Nat /\ DOMAIN s = 1..Len(s)
      /\ \A j \in DOMAIN s : s[j] \in Texts /\ s[j] \in TextRecords /\ ~s[j].split
  BY ConfStoreAssumption
<1>4. \A j \in DOMAIN s : /\ s[j].id \in Ids /\ s[j].ver \in Nat /\ s[j] # None
                          /\ s[j] = [id |-> s[j].id, ver |-> s[j].ver, split |-> FALSE]
  BY <1>3, ConfStoreAssumption DEF TextRecords
<1>5. /\ \A i \in Ids : \/ flushed[i] = None /\ \A j \in DOMAIN s : s[j].id # i
                        \/ \E j \in DOMAIN s : /\ s[j].id = i /\ flushed[i] = s[j]
                                                /\ \A k \in DOMAIN s : s[k].id = i => k <= j
      /\ flushed \in Maps
  <2>1. ASSUME NEW i \in Ids
        PROVE  \/ flushed[i] = None /\ \A j \in DOMAIN s : s[j].id # i
               \/ \E j \in DOMAIN s : /\ s[j].id = i /\ flushed[i] = s[j]
                                       /\ \A k \in DOMAIN s : s[k].id = i => k <= j
    <3> DEFINE S == {k \in DOMAIN s : s[k].id = i}
    <3>1. flushed[i] = IF \E k \in DOMAIN s : s[k].id = i THEN s[Latest(S)] ELSE None
      BY <1>1 DEF StartMap
    <3>2. CASE S = {}
      BY <3>1, <3>2
    <3>3. CASE S # {}
      <4>1. Latest(S) \in S /\ \A q \in S : q <= Latest(S)
        BY <1>3, <3>3, LatestFound
      <4>2. flushed[i] = s[Latest(S)]
        BY <3>1, <3>3
      <4> QED BY <4>1, <4>2
    <3> QED BY <3>2, <3>3
  <2>2. \A i \in Ids : flushed[i] \in TextRecords \cup {None}
    BY <2>1, <1>3
  <2>3. flushed = [i \in Ids |-> flushed[i]]
    BY <1>1 DEF StartMap
  <2> QED BY <2>1, <2>2, <2>3 DEF Maps
<1>6. \A j \in DOMAIN s : s[j].id \in written
  BY <1>2, <1>4, <1>5
<1>7. \A i \in Ids : flushed[i] # None => flushed[i].id = i /\ ~flushed[i].split
  BY <1>3, <1>5
<1>8. CASE file = None
  <2>1. TypeOK
    BY <1>2, <1>5, <1>8, ConfStoreAssumption DEF TypeOK, Live, Maps
  <2> QED BY <1>2, <1>7, <1>8, <2>1, ConfStoreAssumption
          DEF IInv, FlushInv, FileInv, IteratorInv, CleanInv
<1>9. CASE file = StartFile(s)
  <2>1. ASSUME NEW p \in 1..(2 * Len(s) + 1)
        PROVE  \/ p = 1 /\ file[p] = Comment
               \/ p % 2 = 0 /\ file[p] = EndOfLine
               \/ \E j \in DOMAIN s : p = 2 * j + 1 /\ file[p] = Object(s[j])
    <3>1. CASE p = 1
      BY <1>9, <3>1 DEF StartFile
    <3>2. CASE p > 1 /\ p % 2 = 0
      BY <1>9, <3>2 DEF StartFile
    <3>3. CASE p > 1 /\ p % 2 = 1
      <4>1. file[p] = Object(s[p \div 2])
        BY <1>9, <3>3 DEF StartFile
      <4>2. p \div 2 \in DOMAIN s /\ p = 2 * (p \div 2) + 1
        BY <1>3, <3>3
      <4> QED BY <4>1, <4>2
    <3> QED BY <3>1, <3>2, <3>3
  <2>2. DOMAIN file = 1..(2 * Len(s) + 1)
    BY <1>9 DEF StartFile
  <2>3. \A j \in DOMAIN s : Object(s[j]) \in Tokens
    BY <1>4 DEF Object, Tokens
  <2>4. \A p \in 1..(2 * Len(s) + 1) : file[p] \in Tokens
    <3> SUFFICES ASSUME NEW p \in 1..(2 * Len(s) + 1) PROVE file[p] \in Tokens
      OBVIOUS
    <3>1. Comment \in Tokens /\ EndOfLine \in Tokens
      BY DEF Comment, EndOfLine, Tokens
    <3> QED BY <2>1, <2>3, <3>1
  <2>5. file \in Seq(Tokens)
    <3>1. file = [p \in 1..(2 * Len(s) + 1) |-> file[p]]
      BY <1>9 DEF StartFile
    <3>2. 2 * Len(s) + 1 \in Nat
      BY <1>3
    <3> QED BY <2>4, <3>1, <3>2
  <2>6. \A p \in DOMAIN file : file[p].kind # "junk"
    BY <2>1, <2>2 DEF Comment, EndOfLine, Object
  <2>7. \A p \in DOMAIN file : IsObject(p) => \E j \in DOMAIN s : p = 2 * j + 1 /\ file[p] = Object(s[j])
    BY <2>1, <2>2 DEF IsObject, Comment, EndOfLine
  <2>8. TypeOK
    BY <1>2, <1>5, <2>5 DEF TypeOK, Live, Maps
  <2>9. ASSUME NEW j \in DOMAIN s
        PROVE  LET p == 2 * j + 1
               IN  p \in DOMAIN file /\ IsObject(p) /\ file[p].id = s[j].id /\ LineStart(file, p)
    <3> DEFINE p == 2 * j + 1
    <3>1. j \in Nat /\ 1 <= j /\ j <= Len(s)
      BY <1>3
    <3>2. /\ p \in 1..(2 * Len(s) + 1) /\ p - 1 \in 1..(2 * Len(s) + 1) /\ p > 1 /\ p - 1 > 1
          /\ p - 1 = 2 * j
      BY <1>3, <3>1
    <3>3. p % 2 = 1 /\ (p - 1) % 2 = 0 /\ p \div 2 = j
      BY <3>1, <3>2, OddEven
    <3>4. file[p] = Object(s[j]) /\ file[p - 1] = EndOfLine
      <4> HIDE DEF p
      <4> QED BY <3>2, <3>3, <1>9 DEF StartFile
    <3>5. p \in DOMAIN file /\ IsObject(p) /\ file[p].id = s[j].id /\ LineStart(file, p)
      <4> HIDE DEF p
      <4> QED BY <3>2, <3>4, <2>2 DEF IsObject, LineStart, Object, EndOfLine
    <3> QED BY <3>5
  <2>10. FileInv
    <3> SUFFICES ASSUME NEW i \in Ids, NEW p \in DOMAIN file, LastReadAt(file, i, p)
                 PROVE  flushed[i] = TextAt(p)
      BY DEF FileInv
    <3>1. IsObject(p) /\ file[p].id = i
      BY DEF LastReadAt, ReadAt, IsObject
    <3>2. PICK j \in DOMAIN s : p = 2 * j + 1 /\ file[p] = Object(s[j])
      BY <2>7, <3>1
    <3>3. s[j].id = i /\ file[p].ver = s[j].ver
      BY <3>1, <3>2 DEF Object
    <3>4. TextAt(p) = s[j]
      BY <3>1, <3>3, <1>4 DEF TextAt
    <3>5. PICK k \in DOMAIN s : /\ s[k].id = i /\ flushed[i] = s[k]
                               /\ \A h \in DOMAIN s : s[h].id = i => h <= k
      BY <1>5, <3>3
    <3> DEFINE r == 2 * k + 1
    <3>6. r \in DOMAIN file /\ IsObject(r) /\ file[r].id = i /\ LineStart(file, r)
      BY <2>9, <3>5
    <3>7. \A q \in 1..(r - 1) : ~GivesUpAt(file, q)
      <4>1. \A q \in 1..(r - 1) : q \in DOMAIN file
        BY <1>3, <2>2
      <4> HIDE DEF r
      <4> QED BY <2>6, <4>1 DEF GivesUpAt
    <3>8. r \in ReadAt(file, i)
      <4> HIDE DEF r
      <4> QED BY <3>6, <3>7 DEF ReadAt, IsObject
    <3>9. r <= p
      <4> HIDE DEF r
      <4> QED BY <3>8 DEF LastReadAt
    <3>10. j \in Nat /\ k \in Nat /\ j <= k /\ k <= j
      BY <1>3, <3>2, <3>3, <3>5, <3>9
    <3>11. j = k
      BY <3>10
    <3> QED BY <3>4, <3>5, <3>11
  <2>11. IteratorInv /\ FlushInv
    BY <1>2, <1>7 DEF IteratorInv, FlushInv
  <2>12. ContentInv
    <3>1. \A p \in DOMAIN file : IsObject(p) => file[p].id \in written
      BY <2>7, <1>6 DEF Object
    <3>2. ASSUME NEW i \in written
          PROVE  \E p \in DOMAIN file : IsObject(p) /\ file[p].id = i /\ LineStart(file, p)
      <4>1. PICK j \in DOMAIN s : s[j].id = i
        BY <1>2, <1>5
      <4> QED BY <2>9, <4>1
    <3>3. \A q \in DOMAIN file : ~GivesUpAt(file, q)
      BY <2>6 DEF GivesUpAt
    <3>4. \A i \in written : ~flushed[i].split
      BY <1>2, <1>7
    <3> QED BY <3>1, <3>2, <3>3, <3>4 DEF ContentInv
  <2> QED BY <1>2, <2>8, <2>10, <2>11, <2>12 DEF IInv, CleanInv, LineInv
<1> QED BY <1>1, <1>8, <1>9

-----------------------------------------------------------------------------
(* Steps that leave the file alone *)

\* What get_test_conf finds under an id: nothing, or an object of the file.
LEMMA Found ==
    ASSUME NEW f \in Seq(Tokens)
    PROVE  /\ get_test_conf(f) \in Maps
           /\ \A i \in Ids : \/ ReadAt(f, i) = {} /\ get_test_conf(f)[i] = None
                             \/ \E p \in ReadAt(f, i) :
                                   /\ LastReadAt(f, i, p)
                                   /\ get_test_conf(f)[i] = [id |-> i, ver |-> f[p].ver, split |-> FALSE]
           /\ \A i \in Ids : get_test_conf(f)[i] # None => get_test_conf(f)[i].id = i
<1>1. ASSUME NEW i \in Ids
      PROVE  /\ \/ ReadAt(f, i) = {} /\ get_test_conf(f)[i] = None
                \/ \E p \in ReadAt(f, i) :
                      /\ LastReadAt(f, i, p)
                      /\ get_test_conf(f)[i] = [id |-> i, ver |-> f[p].ver, split |-> FALSE]
             /\ get_test_conf(f)[i] \in TextRecords \cup {None}
             /\ get_test_conf(f)[i] # None => get_test_conf(f)[i].id = i
  <2>1. CASE ReadAt(f, i) = {}
    BY <2>1 DEF get_test_conf
  <2>2. CASE ReadAt(f, i) # {}
    <3>1. ReadAt(f, i) \in SUBSET (1..Len(f)) /\ Len(f) \in Nat
      BY DEF ReadAt
    <3>2. PICK p : p = Latest(ReadAt(f, i))
      OBVIOUS
    <3>3. p \in ReadAt(f, i) /\ LastReadAt(f, i, p)
      BY <2>2, <3>1, <3>2, LatestFound DEF LastReadAt
    <3>4. f[p] \in Tokens /\ f[p].kind = "object"
      BY <3>3 DEF ReadAt
    <3>5. f[p].ver \in Nat
      BY <3>4 DEF Tokens
    <3>6. get_test_conf(f)[i] = [id |-> i, ver |-> f[p].ver, split |-> FALSE]
      BY <2>2, <3>2 DEF get_test_conf
    <3>7. get_test_conf(f)[i] \in TextRecords /\ get_test_conf(f)[i].id = i
      BY <3>5, <3>6 DEF TextRecords
    <3> QED BY <3>3, <3>6, <3>7
  <2> QED BY <2>1, <2>2
<1>2. get_test_conf(f) = [i \in Ids |-> get_test_conf(f)[i]]
  BY DEF get_test_conf
<1>3. get_test_conf(f) \in Maps
  BY <1>1, <1>2 DEF Maps
<1> QED BY <1>1, <1>3

\* A step outside flush_test_conf that leaves the file as it is.
LEMMA FileKept ==
    ASSUME IInv, UNCHANGED <<file, flushed, written, clean>>,
           stage' = "idle", todo' = {}, proc' \in {"down", "up", "hung"},
           configid_map' \in Maps,
           \A i \in Ids : configid_map'[i] # None => configid_map'[i].id = i
    PROVE  IInv'
<1>1. TypeOK'
  BY DEF IInv, TypeOK, Live
<1>2. FileInv' /\ IteratorInv' /\ FlushInv'
  BY DEF IInv, FileInv, IteratorInv, FlushInv, IsObject, TextAt
<1>3. ContentInv' <=> ContentInv
  BY DEF ContentInv, IsObject
<1>4. CleanInv'
  BY <1>3 DEF IInv, CleanInv, LineInv
<1> QED BY <1>1, <1>2, <1>4 DEF IInv

\* The start of the master keeps the invariant.
LEMMA StartStep == ASSUME IInv, Start PROVE IInv'
<1>1. /\ proc = "down" /\ file # None /\ proc' = "up" /\ configid_map' = get_test_conf(file)
      /\ UNCHANGED <<file, stage, todo, flushed, written, clean>>
  BY DEF Start, flushVars
<1>2. stage = "idle" /\ todo = {} /\ file \in Seq(Tokens)
  BY <1>1 DEF IInv, FlushInv, TypeOK
<1>3. /\ configid_map' \in Maps
      /\ \A i \in Ids : configid_map'[i] # None => configid_map'[i].id = i
  BY <1>1, <1>2, Found
<1> QED BY <1>1, <1>2, <1>3, FileKept

\* So does a start without a file.
LEMMA StartNoFileStep == ASSUME IInv, StartNoFile PROVE IInv'
<1>1. /\ proc = "down" /\ proc' = "hung"
      /\ UNCHANGED <<configid_map, file, stage, todo, flushed, written, clean>>
  BY DEF StartNoFile, flushVars
<1>2. stage = "idle" /\ todo = {}
  BY <1>1 DEF IInv, FlushInv
<1> QED BY <1>1, <1>2, FileKept DEF IInv, TypeOK, Live

\* So do requests.
LEMMA PostStep == ASSUME IInv, NEW t \in Texts, Post(t) PROVE IInv'
<1>1. /\ stage = "idle" /\ proc = "up" /\ configid_map' = [configid_map EXCEPT ![t.id] = t]
      /\ UNCHANGED <<proc, file, stage, todo, flushed, written, clean>>
  BY DEF Post, Serving, flushVars
<1>2. t \in TextRecords /\ t.id \in Ids
  BY ConfStoreAssumption DEF TextRecords
<1>3. /\ configid_map' \in Maps
      /\ \A i \in Ids : configid_map'[i] # None => configid_map'[i].id = i
  BY <1>1, <1>2 DEF IInv, TypeOK, Live, Maps
<1> QED BY <1>1, <1>3, FileKept DEF IInv, FlushInv

LEMMA PostDeleteStep == ASSUME IInv, NEW i \in Ids, PostDelete(i) PROVE IInv'
<1>1. /\ stage = "idle" /\ proc = "up" /\ configid_map' = [configid_map EXCEPT ![i] = None]
      /\ UNCHANGED <<proc, file, stage, todo, flushed, written, clean>>
  BY DEF PostDelete, Serving, flushVars
<1>2. /\ configid_map' \in Maps
      /\ \A j \in Ids : configid_map'[j] # None => configid_map'[j].id = j
  BY <1>1 DEF IInv, TypeOK, Live, Maps
<1> QED BY <1>1, <1>2, FileKept DEF IInv, FlushInv

\* The end of the master, wherever it is, keeps the invariant.
LEMMA DieStep == ASSUME IInv, Die PROVE IInv'
<1>1. /\ proc' = "down" /\ stage' = "idle" /\ todo' = {}
      /\ configid_map' = [i \in Ids |-> None]
      /\ UNCHANGED <<file, flushed, written, clean>>
  BY DEF Die
<1>2. /\ configid_map' \in Maps
      /\ \A j \in Ids : configid_map'[j] # None => configid_map'[j].id = j
  BY <1>1 DEF Maps
<1> QED BY <1>1, <1>2, FileKept

-----------------------------------------------------------------------------
(* The steps of flush_test_conf *)

\* Truncation: nothing is written, and everything is to be written.
LEMMA FlushOpenStep == ASSUME IInv, FlushOpen PROVE IInv'
<1>1. /\ proc = "up" /\ file' = <<>> /\ stage' = "text" /\ todo' = Live /\ flushed' = configid_map
      /\ written' = {} /\ clean' = TRUE /\ UNCHANGED <<proc, configid_map>>
  BY DEF FlushOpen, Serving, Opened
<1>2. <<>> \in Seq(Tokens) /\ DOMAIN <<>> = {} /\ None # <<>>
  <2>1. <<>> \in Seq(Tokens)
    OBVIOUS
  <2>2. DOMAIN <<>> = {}
    OBVIOUS
  <2>3. None # <<>>
    BY <2>1, ConfStoreAssumption
  <2> QED BY <2>1, <2>2, <2>3
<1>3. TypeOK'
  BY <1>1, <1>2 DEF IInv, TypeOK, Live
<1>4. FlushInv' /\ FileInv'
  BY <1>1, <1>2 DEF FlushInv, FileInv
<1>5. IteratorInv'
  BY <1>1 DEF IInv, TypeOK, Live, IteratorInv
<1>6. CleanInv'
  BY <1>1, <1>2 DEF CleanInv, LineInv, ContentInv
<1> QED BY <1>3, <1>4, <1>5, <1>6 DEF IInv

\* What is written at the end changes nothing of what is read before it.
LEMMA ReadMore ==
    ASSUME NEW a, NEW b, NEW c, Extended(a, b, c), NEW i, NEW p \in DOMAIN a
    PROVE  p \in ReadAt(c, i) <=> p \in ReadAt(a, i)
<1>1. /\ p \in DOMAIN c /\ c[p] = a[p] /\ (LineStart(c, p) <=> LineStart(a, p))
      /\ DOMAIN a = 1..Len(a) /\ Len(a) \in Nat
  BY DEF Extended
<1>2. \A q \in 1..(p - 1) : q \in DOMAIN a
  BY <1>1
<1>3. \A q \in 1..(p - 1) : GivesUpAt(c, q) <=> GivesUpAt(a, q)
  BY <1>2 DEF Extended
<1> QED BY <1>1, <1>3 DEF ReadAt

\* A write keeps what the file held, and adds texts as they were when the file
\* was opened.
LEMMA WriteFile ==
    ASSUME IInv, file # None, NEW b \in Seq(Tokens), file' = file \o b, flushed' = flushed,
           \A k \in DOMAIN b : b[k].kind = "object" =>
              flushed[b[k].id] = [id |-> b[k].id, ver |-> b[k].ver, split |-> FALSE]
    PROVE  /\ Extended(file, b, file') /\ FileInv'
           /\ file' \in Seq(Tokens) /\ file' # None
<1>1. file \in Seq(Tokens)
  BY DEF IInv, TypeOK
<1>2. Extended(file, b, file')
  BY <1>1, Written
<1>3. ASSUME NEW i \in Ids, NEW p \in DOMAIN file', LastReadAt(file', i, p)
      PROVE  flushed[i] = [id |-> file'[p].id, ver |-> file'[p].ver, split |-> FALSE]
  <2>1. p \in ReadAt(file', i) /\ file'[p].kind = "object" /\ file'[p].id = i
    BY <1>3 DEF LastReadAt, ReadAt
  <2>2. CASE p \in DOMAIN file
    <3>1. file'[p] = file[p]
      BY <1>2, <2>2 DEF Extended
    <3>2. \A q \in DOMAIN file : q \in ReadAt(file', i) <=> q \in ReadAt(file, i)
      BY <1>2, ReadMore
    <3>3. \A q \in ReadAt(file, i) : q \in DOMAIN file
      BY DEF ReadAt
    <3>4. LastReadAt(file, i, p)
      BY <1>3, <2>2, <3>2, <3>3 DEF LastReadAt
    <3> QED BY <2>2, <3>1, <3>4 DEF IInv, FileInv, TextAt
  <2>3. CASE \E k \in DOMAIN b : p = Len(file) + k
    <3>1. PICK k \in DOMAIN b : p = Len(file) + k
      BY <2>3
    <3>2. file'[p] = b[k]
      BY <1>2, <3>1 DEF Extended
    <3> QED BY <2>1, <3>2
  <2> QED BY <1>2, <2>2, <2>3 DEF Extended
<1>4. FileInv'
  BY <1>3 DEF FileInv, TextAt
<1>5. file' \in Seq(Tokens)
  BY <1>2 DEF Extended
<1> QED BY <1>2, <1>4, <1>5, ConfStoreAssumption

\* What flush_test_conf writes are tokens.
LEMMA TokensWritten ==
    /\ <<Junk>> \in Seq(Tokens) /\ <<EndOfLine>> \in Seq(Tokens)
    /\ <<EndOfLine, EndOfLine>> \in Seq(Tokens) /\ <<Junk, EndOfLine, Junk>> \in Seq(Tokens)
    /\ \A t \in TextRecords : <<Object(t)>> \in Seq(Tokens)
<1>1. Junk \in Tokens /\ EndOfLine \in Tokens
  BY DEF Junk, EndOfLine, Tokens
<1>2. \A t \in TextRecords : Object(t) \in Tokens
  BY DEF Object, Tokens, TextRecords
<1> QED BY <1>1, <1>2

\* The entry that the iterator stands on: it was there when the file was
\* opened, and everything written before has a smaller id.
LEMMA Current ==
    ASSUME IInv, stage = "text", todo # {}
    PROVE  /\ Least(todo) \in todo /\ Least(todo) \in Ids /\ Least(todo) \notin written
           /\ flushed[Least(todo)] # None /\ flushed[Least(todo)] \in TextRecords
           /\ flushed[Least(todo)].id = Least(todo)
           /\ configid_map[Least(todo)] = flushed[Least(todo)]
           /\ \A j \in written : j < Least(todo)
           /\ \A j \in Ids : flushed[j] # None /\ j < Least(todo) => j \in written
<1> DEFINE m == Least(todo)
<1>1. todo \in SUBSET Ids /\ todo = {i \in Ids : flushed[i] # None} \ written
  BY DEF IInv, IteratorInv
<1>2. m \in todo /\ \A j \in todo : m <= j
  BY <1>1, LeastFound
<1> HIDE DEF m
<1>3. m \in Ids /\ m \notin written /\ flushed[m] # None
  BY <1>1, <1>2
<1>4. flushed[m] \in TextRecords /\ flushed[m].id = m /\ configid_map[m] = flushed[m]
  BY <1>3 DEF IInv, TypeOK, Maps, IteratorInv, FlushInv
<1>5. ASSUME NEW j \in written PROVE j < m
  <2>1. j \in Ids /\ j # m
    BY <1>3 DEF IInv, TypeOK
  <2>2. ~ (m < j)
    BY <1>3 DEF IInv, IteratorInv
  <2>3. j \in Nat /\ m \in Nat
    BY <1>3, <2>1, ConfStoreAssumption
  <2> QED BY <2>1, <2>2, <2>3
<1>6. ASSUME NEW j \in Ids, flushed[j] # None, j < m PROVE j \in written
  <2>1. j \in Nat /\ m \in Nat
    BY <1>3, ConfStoreAssumption
  <2>2. j \notin todo
    BY <1>2, <1>6, <2>1
  <2> QED BY <1>1, <1>6, <2>2
<1> QED BY <1>2, <1>3, <1>4, <1>5, <1>6 DEF m

\* A text of one line written in full keeps what complete writes leave.
LEMMA TextContent ==
    ASSUME IInv, clean, stage = "text", todo # {}, file # None,
           ~flushed[Least(todo)].split,
           Extended(file, <<Object(flushed[Least(todo)])>>, file'),
           flushed' = flushed, written' = written \cup {Least(todo)}
    PROVE  ContentInv'
<1> DEFINE m == Least(todo)
           b == <<Object(flushed[m])>>
           p0 == Len(file) + 1
<1>1. /\ m \notin written /\ flushed[m].id = m /\ \A j \in written : j < m
  BY Current
<1>2. /\ LineInv /\ ContentInv /\ file \in Seq(Tokens)
  BY DEF IInv, CleanInv, TypeOK
<1>3. /\ DOMAIN b = {1} /\ b[1].kind = "object" /\ b[1].id = m
  BY <1>1 DEF Object
<1> HIDE DEF m, b
<1>4. /\ Len(file) \in Nat /\ p0 \in DOMAIN file' /\ file'[p0].kind = "object" /\ file'[p0].id = m
      /\ DOMAIN file = 1..Len(file)
      /\ \A p \in DOMAIN file' : p \in DOMAIN file \/ p = p0
  BY <1>3 DEF Extended, m, b
<1>5. \A p \in DOMAIN file : /\ p \in DOMAIN file' /\ file'[p] = file[p]
                             /\ LineStart(file', p) <=> LineStart(file, p)
                             /\ GivesUpAt(file', p) <=> GivesUpAt(file, p)
  BY DEF Extended
<1>6. LineStart(file', p0)
  <2>1. CASE file = <<>>
    BY <2>1 DEF LineStart
  <2>2. CASE file # <<>>
    <3>1. file[Len(file)].kind = "eol" /\ Len(file) \in DOMAIN file
      BY <1>2, <2>2 DEF LineInv
    <3>2. file'[Len(file)].kind = "eol" /\ p0 - 1 = Len(file)
      BY <1>4, <1>5, <3>1
    <3> QED BY <3>2 DEF LineStart
  <2> QED BY <2>1, <2>2
<1>7. ~GivesUpAt(file', p0)
  BY <1>4 DEF GivesUpAt
<1>8. /\ written' = written \cup {m} /\ ~flushed[m].split
  BY DEF m
<1>9. \A q \in DOMAIN file' : GivesUpAt(file', q) => q \in DOMAIN file /\ GivesUpAt(file, q)
  BY <1>4, <1>5, <1>7
<1>10. \A p \in DOMAIN file : IsObject(p)' <=> IsObject(p)
  BY <1>5 DEF IsObject
<1>11. \A p \in DOMAIN file' : IsObject(p)' => file'[p].id \in written'
  BY <1>2, <1>4, <1>5, <1>8, <1>10 DEF ContentInv
<1>12. ASSUME NEW i \in written', ~flushed[i].split
       PROVE  \E p \in DOMAIN file' : IsObject(p)' /\ file'[p].id = i /\ LineStart(file', p)
  <2>1. CASE i = m
    BY <1>4, <1>6, <2>1 DEF IsObject
  <2>2. CASE i \in written
    <3>1. PICK p \in DOMAIN file : IsObject(p) /\ file[p].id = i /\ LineStart(file, p)
      BY <1>2, <1>12, <2>2 DEF ContentInv
    <3> QED BY <1>5, <1>10, <3>1
  <2> QED BY <1>8, <2>1, <2>2
<1>13. ASSUME NEW i \in written', flushed[i].split
       PROVE  \E q \in DOMAIN file : GivesUpAt(file', q) /\ q \in DOMAIN file'
  <2>1. PICK q \in DOMAIN file : GivesUpAt(file, q)
    BY <1>2, <1>8, <1>13 DEF ContentInv
  <2> QED BY <1>5, <2>1
<1>14. \A q \in DOMAIN file' : GivesUpAt(file', q) => \E i \in written : flushed[i].split
  BY <1>2, <1>9 DEF ContentInv
<1>15. ASSUME NEW i \in written', NEW p \in DOMAIN file', flushed[i].split, IsObject(p)',
              i < file'[p].id
       PROVE  \E q \in 1..(p - 1) : GivesUpAt(file', q)
  <2>1. CASE p \in DOMAIN file
    <3>1. i \in written /\ IsObject(p) /\ i < file[p].id
      BY <1>5, <1>8, <1>10, <1>15, <2>1
    <3>2. PICK q \in 1..(p - 1) : GivesUpAt(file, q)
      BY <1>2, <1>15, <2>1, <3>1 DEF ContentInv
    <3>3. q \in DOMAIN file
      BY <1>4, <2>1
    <3> QED BY <1>5, <3>2, <3>3
  <2>2. CASE p = p0
    <3>1. PICK q \in DOMAIN file : GivesUpAt(file', q)
      BY <1>13, <1>15
    <3>2. q \in 1..(p - 1)
      BY <1>4, <2>2
    <3> QED BY <3>1, <3>2
  <2> QED BY <1>4, <2>1, <2>2
<1>16. ASSUME NEW p \in DOMAIN file', NEW q \in DOMAIN file', IsObject(p)', GivesUpAt(file', q), q < p
       PROVE  \E i \in written : flushed[i].split /\ i < file'[p].id
  <2>1. q \in DOMAIN file /\ GivesUpAt(file, q)
    BY <1>9, <1>16
  <2>2. CASE p \in DOMAIN file
    <3>1. IsObject(p) /\ file'[p] = file[p]
      BY <1>5, <1>10, <1>16, <2>2
    <3> QED BY <1>2, <1>16, <2>1, <2>2, <3>1 DEF ContentInv
  <2>3. CASE p = p0
    <3>1. PICK i \in written : flushed[i].split
      BY <1>2, <2>1 DEF ContentInv
    <3> QED BY <1>1, <1>4, <2>3, <3>1 DEF m
  <2> QED BY <1>4, <2>2, <2>3
<1> QED BY <1>8, <1>11, <1>12, <1>13, <1>14, <1>15, <1>16 DEF ContentInv

\* A text of several lines is given up at, and everything before it has a
\* smaller id.
LEMMA SplitContent ==
    ASSUME IInv, clean, stage = "text", todo # {}, file # None,
           flushed[Least(todo)].split,
           Extended(file, <<Junk, EndOfLine, Junk>>, file'),
           flushed' = flushed, written' = written \cup {Least(todo)}
    PROVE  ContentInv'
<1> DEFINE m == Least(todo)
           b == <<Junk, EndOfLine, Junk>>
           p0 == Len(file) + 1
<1>1. m \notin written /\ m \in Nat /\ \A j \in written : j < m /\ j \in Nat
  BY Current, ConfStoreAssumption DEF IInv, TypeOK
<1>2. LineInv /\ ContentInv /\ file \in Seq(Tokens)
  BY DEF IInv, CleanInv, TypeOK
<1>3. /\ 1 \in DOMAIN b /\ b[1].kind = "junk"
      /\ \A k \in DOMAIN b : b[k].kind # "object" /\ k \in 1..3
  <2>1. DOMAIN b = 1..3 /\ b[1] = Junk /\ b[2] = EndOfLine /\ b[3] = Junk
    OBVIOUS
  <2>2. \A k \in 1..3 : k = 1 \/ k = 2 \/ k = 3
    OBVIOUS
  <2>3. Junk.kind = "junk" /\ EndOfLine.kind = "eol"
    BY DEF Junk, EndOfLine
  <2> HIDE DEF b
  <2> QED BY <2>1, <2>2, <2>3
<1> HIDE DEF m, b
<1>4. /\ Len(file) \in Nat /\ p0 \in DOMAIN file' /\ file'[p0].kind = "junk"
      /\ DOMAIN file = 1..Len(file)
      /\ \A p \in DOMAIN file' : p \in DOMAIN file \/ (p > Len(file) /\ file'[p].kind # "object")
  <2>1. Extended(file, b, file')
    BY DEF b
  <2>2. Len(file) \in Nat /\ DOMAIN file = 1..Len(file)
    BY <2>1 DEF Extended
  <2>3. p0 \in DOMAIN file' /\ file'[p0] = b[1]
    BY <1>3, <2>1 DEF Extended
  <2>4. ASSUME NEW p \in DOMAIN file', p \notin DOMAIN file
        PROVE  p > Len(file) /\ file'[p].kind # "object"
    <3>1. PICK k \in DOMAIN b : p = Len(file) + k
      BY <2>1, <2>4 DEF Extended
    <3>2. file'[p] = b[k]
      BY <2>1, <3>1 DEF Extended
    <3>3. p > Len(file)
      BY <1>3, <2>2, <3>1
    <3> QED BY <1>3, <3>2, <3>3
  <2> QED BY <1>3, <2>2, <2>3, <2>4
<1>5. \A p \in DOMAIN file : /\ p \in DOMAIN file' /\ file'[p] = file[p]
                             /\ LineStart(file', p) <=> LineStart(file, p)
                             /\ GivesUpAt(file', p) <=> GivesUpAt(file, p)
  BY DEF Extended
<1>6. GivesUpAt(file', p0)
  <2>1. CASE file = <<>>
    BY <1>4, <2>1 DEF LineStart, GivesUpAt
  <2>2. CASE file # <<>>
    <3>1. file[Len(file)].kind = "eol" /\ Len(file) \in DOMAIN file
      BY <1>2, <2>2 DEF LineInv
    <3>2. file'[Len(file)].kind = "eol" /\ p0 - 1 = Len(file)
      BY <1>4, <1>5, <3>1
    <3> QED BY <1>4, <3>2 DEF LineStart, GivesUpAt
  <2> QED BY <2>1, <2>2
<1>7. written' = written \cup {m} /\ flushed[m].split
  BY DEF m
<1>8. \A p \in DOMAIN file' : IsObject(p)' => p \in DOMAIN file /\ IsObject(p) /\ file'[p] = file[p]
  BY <1>4, <1>5 DEF IsObject
<1>9. \A p \in DOMAIN file : IsObject(p) => IsObject(p)'
  BY <1>5 DEF IsObject
<1>10. \A p \in DOMAIN file' : IsObject(p)' => file'[p].id \in written
  BY <1>2, <1>8 DEF ContentInv
<1>11. ASSUME NEW i \in written', ~flushed[i].split
       PROVE  \E p \in DOMAIN file' : IsObject(p)' /\ file'[p].id = i /\ LineStart(file', p)
  <2>1. PICK p \in DOMAIN file : IsObject(p) /\ file[p].id = i /\ LineStart(file, p)
    BY <1>2, <1>7, <1>11 DEF ContentInv
  <2> QED BY <1>5, <1>9, <2>1
<1>12. \A i \in written' : flushed[i].split => \E q \in DOMAIN file' : GivesUpAt(file', q)
  BY <1>4, <1>6
<1>13. \E i \in written' : flushed[i].split
  BY <1>7
<1>14. ASSUME NEW i \in written', NEW p \in DOMAIN file', flushed[i].split, IsObject(p)',
              i < file'[p].id
       PROVE  \E q \in 1..(p - 1) : GivesUpAt(file', q)
  <2>1. p \in DOMAIN file /\ IsObject(p) /\ file'[p] = file[p] /\ file[p].id \in written
    BY <1>8, <1>10, <1>14
  <2>2. i # m
    BY <1>1, <1>14, <2>1
  <2>3. i \in written
    BY <1>7, <2>2
  <2>4. PICK q \in 1..(p - 1) : GivesUpAt(file, q)
    BY <1>2, <1>14, <2>1, <2>3 DEF ContentInv
  <2>5. q \in DOMAIN file
    BY <1>4, <2>1
  <2> QED BY <1>5, <2>4, <2>5
<1>15. ASSUME NEW p \in DOMAIN file', NEW q \in DOMAIN file', IsObject(p)', GivesUpAt(file', q), q < p
       PROVE  \E i \in written : flushed[i].split /\ i < file'[p].id
  <2>1. p \in DOMAIN file /\ IsObject(p) /\ file'[p] = file[p]
    BY <1>8, <1>15
  <2>2. q \in DOMAIN file
    <3>1. p \in 1..Len(file)
      BY <1>4, <2>1
    <3>2. ~ (q > Len(file))
      <4>1. q \in Nat
        BY DEF Extended
      <4> QED BY <1>4, <1>15, <3>1, <4>1
    <3> QED BY <1>4, <3>2
  <2>3. GivesUpAt(file, q)
    BY <1>5, <1>15, <2>2
  <2> QED BY <1>2, <1>15, <2>1, <2>2, <2>3 DEF ContentInv
<1> QED BY <1>7, <1>10, <1>11, <1>12, <1>13, <1>14, <1>15 DEF ContentInv

\* The blank line behind a text adds nothing that is read, and ends the line.
LEMMA SeparatorContent ==
    ASSUME IInv, clean, file # None,
           Extended(file, <<EndOfLine, EndOfLine>>, file'), UNCHANGED <<flushed, written>>
    PROVE  ContentInv' /\ LineInv'
<1> DEFINE b == <<EndOfLine, EndOfLine>>
<1>1. ContentInv /\ file \in Seq(Tokens)
  BY DEF IInv, CleanInv, TypeOK
<1>2. DOMAIN b = 1..2 /\ Len(b) = 2 /\ \A k \in DOMAIN b : b[k].kind = "eol"
  <2>1. DOMAIN b = 1..2 /\ Len(b) = 2 /\ b[1] = EndOfLine /\ b[2] = EndOfLine
    OBVIOUS
  <2>2. \A k \in 1..2 : k = 1 \/ k = 2
    OBVIOUS
  <2>3. EndOfLine.kind = "eol"
    BY DEF EndOfLine
  <2> HIDE DEF b
  <2> QED BY <2>1, <2>2, <2>3
<1> HIDE DEF b
<1>3. /\ Len(file) \in Nat /\ DOMAIN file = 1..Len(file) /\ Len(file') = Len(file) + 2
      /\ file'[Len(file) + 2].kind = "eol"
      /\ \A p \in DOMAIN file' : p \in DOMAIN file \/ file'[p].kind = "eol"
  <2>1. 2 \in DOMAIN b
    BY <1>2
  <2> QED BY <1>2, <2>1 DEF Extended, b
<1>4. \A p \in DOMAIN file : /\ p \in DOMAIN file' /\ file'[p] = file[p]
                             /\ LineStart(file', p) <=> LineStart(file, p)
                             /\ GivesUpAt(file', p) <=> GivesUpAt(file, p)
  BY DEF Extended
<1>5. \A p \in DOMAIN file' : IsObject(p)' => p \in DOMAIN file /\ IsObject(p) /\ file'[p] = file[p]
  BY <1>3, <1>4 DEF IsObject
<1>6. \A p \in DOMAIN file : IsObject(p) => IsObject(p)'
  BY <1>4 DEF IsObject
<1>7. \A q \in DOMAIN file' : GivesUpAt(file', q) => q \in DOMAIN file /\ GivesUpAt(file, q)
  BY <1>3, <1>4 DEF GivesUpAt
<1>8. ASSUME NEW i \in written, ~flushed[i].split
      PROVE  \E p \in DOMAIN file' : IsObject(p)' /\ file'[p].id = i /\ LineStart(file', p)
  <2>1. PICK p \in DOMAIN file : IsObject(p) /\ file[p].id = i /\ LineStart(file, p)
    BY <1>1, <1>8 DEF ContentInv
  <2> QED BY <1>4, <1>6, <2>1
<1>9. ASSUME NEW i \in written, flushed[i].split PROVE \E q \in DOMAIN file' : GivesUpAt(file', q)
  <2>1. PICK q \in DOMAIN file : GivesUpAt(file, q)
    BY <1>1, <1>9 DEF ContentInv
  <2> QED BY <1>4, <2>1
<1>10. ASSUME NEW i \in written, NEW p \in DOMAIN file', flushed[i].split, IsObject(p)',
              i < file'[p].id
       PROVE  \E q \in 1..(p - 1) : GivesUpAt(file', q)
  <2>1. p \in DOMAIN file /\ IsObject(p) /\ file'[p] = file[p]
    BY <1>5, <1>10
  <2>2. PICK q \in 1..(p - 1) : GivesUpAt(file, q)
    BY <1>1, <1>10, <2>1 DEF ContentInv
  <2>3. q \in DOMAIN file
    BY <1>3, <2>1
  <2> QED BY <1>4, <2>2, <2>3
<1>11. ASSUME NEW p \in DOMAIN file', NEW q \in DOMAIN file', IsObject(p)', GivesUpAt(file', q), q < p
       PROVE  \E i \in written : flushed[i].split /\ i < file'[p].id
  <2>1. p \in DOMAIN file /\ IsObject(p) /\ file'[p] = file[p]
    BY <1>5, <1>11
  <2>2. q \in DOMAIN file /\ GivesUpAt(file, q)
    BY <1>7, <1>11
  <2> QED BY <1>1, <1>11, <2>1, <2>2 DEF ContentInv
<1>12. ContentInv'
  BY <1>1, <1>5, <1>7, <1>8, <1>9, <1>10, <1>11 DEF ContentInv
<1> QED BY <1>3, <1>12 DEF LineInv

\* Writing a text keeps the invariant, whether the write is complete or not.
LEMMA FlushTextStep == ASSUME IInv, FlushText PROVE IInv'
<1> DEFINE m == Least(todo)
<1>1. /\ proc = "up" /\ stage = "text" /\ todo # {} /\ stage' = "separator"
      /\ written' = written \cup {m} /\ UNCHANGED <<proc, configid_map, todo, flushed>>
      /\ Write(TokensOf(configid_map[m]), <<Junk>>)
  BY DEF FlushText
<1>2. /\ m \in todo /\ m \in Ids /\ m \notin written /\ flushed[m] # None
      /\ flushed[m] \in TextRecords /\ flushed[m].id = m /\ configid_map[m] = flushed[m]
      /\ \A j \in written : j < m
      /\ \A j \in Ids : flushed[j] # None /\ j < m => j \in written
  BY <1>1, Current
<1>3. file # None /\ file \in Seq(Tokens)
  BY <1>1 DEF IInv, FlushInv, TypeOK
<1>4. IteratorInv'
  <2>1. /\ m \in written' /\ todo' \ {Least(todo')} = {i \in Ids : flushed[i] # None} \ written'
    BY <1>1 DEF IInv, IteratorInv
  <2>2. \A i \in written', j \in Ids : flushed[j] # None /\ j < i => j \in written'
    BY <1>1, <1>2 DEF IInv, IteratorInv
  <2> QED BY <1>1, <1>2, <2>1, <2>2 DEF IInv, IteratorInv
<1>5. /\ FileInv' /\ file' \in Seq(Tokens) /\ file' # None /\ clean' \in BOOLEAN
      /\ clean' => ContentInv'
  <2>1. CASE DiskFull /\ file' \in {file, file \o <<Junk>>} /\ clean' = FALSE
    <3>1. CASE file' = file
      BY <1>1, <1>3, <2>1, <3>1 DEF IInv, FileInv, IsObject, TextAt
    <3>2. CASE file' = file \o <<Junk>>
      <4>1. <<Junk>> \in Seq(Tokens) /\ \A k \in DOMAIN <<Junk>> : <<Junk>>[k].kind # "object"
        BY TokensWritten DEF Junk
      <4> QED BY <1>1, <1>3, <2>1, <3>2, <4>1, WriteFile
    <3> QED BY <2>1, <3>1, <3>2
  <2>2. CASE file' = file \o TokensOf(configid_map[m]) /\ UNCHANGED clean /\ ~flushed[m].split
    <3> DEFINE b == <<Object(flushed[m])>>
    <3>1. file' = file \o b
      BY <1>2, <2>2 DEF TokensOf
    <3>2. /\ b \in Seq(Tokens) /\ DOMAIN b = {1} /\ b[1] = Object(flushed[m])
      BY <1>2, TokensWritten
    <3>3. flushed[m] = [id |-> b[1].id, ver |-> b[1].ver, split |-> FALSE] /\ b[1].id = m
      BY <1>2, <2>2, <3>2 DEF Object, TextRecords
    <3> HIDE DEF b, m
    <3>4. \A k \in DOMAIN b : flushed[b[k].id] = [id |-> b[k].id, ver |-> b[k].ver, split |-> FALSE]
      BY <3>2, <3>3
    <3>5. Extended(file, b, file') /\ FileInv' /\ file' \in Seq(Tokens) /\ file' # None
      BY <1>1, <1>3, <3>1, <3>2, <3>4, WriteFile
    <3>6. clean => ContentInv'
      BY <1>1, <1>3, <2>2, <3>5, TextContent DEF b, m
    <3> QED BY <2>2, <3>5, <3>6 DEF IInv, TypeOK
  <2>3. CASE file' = file \o TokensOf(configid_map[m]) /\ UNCHANGED clean /\ flushed[m].split
    <3> DEFINE b == <<Junk, EndOfLine, Junk>>
    <3>1. file' = file \o b
      BY <1>2, <2>3 DEF TokensOf
    <3>2. b \in Seq(Tokens) /\ DOMAIN b = 1..3 /\ b[1] = Junk /\ b[2] = EndOfLine /\ b[3] = Junk
      BY TokensWritten
    <3> HIDE DEF b, m
    <3>3. \A k \in DOMAIN b : b[k].kind # "object"
      <4>1. \A k \in 1..3 : k = 1 \/ k = 2 \/ k = 3
        OBVIOUS
      <4>2. Junk.kind = "junk" /\ EndOfLine.kind = "eol"
        BY DEF Junk, EndOfLine
      <4> QED BY <3>2, <4>1, <4>2
    <3>4. Extended(file, b, file') /\ FileInv' /\ file' \in Seq(Tokens) /\ file' # None
      BY <1>1, <1>3, <3>1, <3>2, <3>3, WriteFile
    <3>5. clean => ContentInv'
      BY <1>1, <1>3, <2>3, <3>4, SplitContent DEF b, m
    <3> QED BY <2>3, <3>4, <3>5 DEF IInv, TypeOK
  <2> QED BY <1>1, <2>1, <2>2, <2>3 DEF Write
<1>6. TypeOK'
  BY <1>1, <1>2, <1>5 DEF IInv, TypeOK, Live
<1>7. FlushInv' /\ CleanInv'
  BY <1>1, <1>5 DEF IInv, FlushInv, CleanInv, LineInv
<1> QED BY <1>4, <1>5, <1>6, <1>7 DEF IInv

\* So does writing the blank line behind it, and the iterator moves on.
LEMMA FlushSeparatorStep == ASSUME IInv, FlushSeparator PROVE IInv'
<1>1. /\ proc = "up" /\ stage = "separator" /\ stage' = "text" /\ todo' = todo \ {Least(todo)}
      /\ UNCHANGED <<proc, configid_map, flushed, written>>
      /\ Write(<<EndOfLine, EndOfLine>>, <<EndOfLine>>)
  BY DEF FlushSeparator, IteratorNext, Separator
<1>2. file # None /\ file \in Seq(Tokens)
  BY <1>1 DEF IInv, FlushInv, TypeOK
<1>3. IteratorInv'
  BY <1>1 DEF IInv, IteratorInv
<1>4. /\ FileInv' /\ file' \in Seq(Tokens) /\ file' # None /\ clean' \in BOOLEAN
      /\ clean' => LineInv' /\ ContentInv'
  <2>0. EndOfLine.kind = "eol"
    BY DEF EndOfLine
  <2>1. CASE DiskFull /\ file' \in {file, file \o <<EndOfLine>>} /\ clean' = FALSE
    <3>1. CASE file' = file
      BY <1>1, <1>2, <2>1, <3>1 DEF IInv, FileInv, IsObject, TextAt
    <3>2. CASE file' = file \o <<EndOfLine>>
      <4>1. /\ <<EndOfLine>> \in Seq(Tokens)
            /\ \A k \in DOMAIN <<EndOfLine>> : <<EndOfLine>>[k].kind # "object"
        BY <2>0, TokensWritten
      <4> QED BY <1>1, <1>2, <2>1, <3>2, <4>1, WriteFile
    <3> QED BY <2>1, <3>1, <3>2
  <2>2. CASE file' = file \o <<EndOfLine, EndOfLine>> /\ UNCHANGED clean
    <3> DEFINE b == <<EndOfLine, EndOfLine>>
    <3>1. b \in Seq(Tokens) /\ DOMAIN b = 1..2 /\ b[1] = EndOfLine /\ b[2] = EndOfLine
      BY TokensWritten
    <3>2. file' = file \o b
      BY <2>2
    <3> HIDE DEF b
    <3>3. \A k \in DOMAIN b : b[k].kind # "object"
      <4>1. \A k \in 1..2 : k = 1 \/ k = 2
        OBVIOUS
      <4> QED BY <2>0, <3>1, <4>1
    <3>4. Extended(file, b, file') /\ FileInv' /\ file' \in Seq(Tokens) /\ file' # None
      BY <1>1, <1>2, <3>1, <3>2, <3>3, WriteFile
    <3>5. clean => ContentInv' /\ LineInv'
      BY <1>1, <1>2, <3>4, SeparatorContent DEF b
    <3> QED BY <2>2, <3>4, <3>5 DEF IInv, TypeOK
  <2> QED BY <1>1, <2>1, <2>2 DEF Write
<1>5. TypeOK'
  BY <1>1, <1>4 DEF IInv, TypeOK, Live
<1>6. FlushInv' /\ CleanInv'
  BY <1>1, <1>4 DEF IInv, FlushInv, CleanInv
<1> QED BY <1>3, <1>4, <1>5, <1>6 DEF IInv

\* The end of a flush keeps the invariant.
LEMMA FlushCloseStep == ASSUME IInv, FlushClose PROVE IInv'
<1>1. /\ stage' = "idle" /\ todo' = {}
      /\ UNCHANGED <<proc, configid_map, file, flushed, written, clean>>
  BY DEF FlushClose
<1> QED BY <1>1, FileKept DEF IInv, TypeOK, Live

-----------------------------------------------------------------------------
(* The theorems *)

\* Every step keeps the invariant.
LEMMA NextIInv == IInv /\ [Next]_vars => IInv'
<1> SUFFICES ASSUME IInv, [Next]_vars PROVE IInv'
  OBVIOUS
<1>1. CASE Next
  BY <1>1, StartStep, StartNoFileStep, PostStep, PostDeleteStep, DieStep, FlushOpenStep,
     FlushTextStep, FlushSeparatorStep, FlushCloseStep DEF Next, Flush
<1>2. CASE UNCHANGED vars
  <2>1. UNCHANGED <<proc, configid_map, file, stage, todo, flushed, written, clean>>
    BY <1>2 DEF vars, flushVars
  <2>2. TypeOK' /\ FlushInv' /\ FileInv' /\ IteratorInv'
    BY <2>1 DEF IInv, TypeOK, Live, FlushInv, FileInv, IteratorInv, IsObject, TextAt, Least
  <2>3. CleanInv'
    BY <2>1 DEF IInv, CleanInv, LineInv, ContentInv, IsObject
  <2> QED BY <2>2, <2>3 DEF IInv
<1> QED BY <1>1, <1>2

\* The inductive invariant of test.conf and of the master that writes it.
THEOREM Invariance == Spec => []IInv
<1>1. Init => IInv
  BY InitIInv
<1>2. IInv /\ [Next]_vars => IInv'
  BY NextIInv
<1> QED BY <1>1, <1>2, PTL DEF Spec

\* Type correctness: in particular the map always files a text under its own
\* id, and flush_test_conf iterates over entries that are still there.
THEOREM TypeCorrect == Spec => []TypeOK
<1>1. IInv => TypeOK
  BY DEF IInv
<1> QED BY <1>1, Invariance, PTL

\* Whatever get_test_conf finds after an end of the master at any point of a
\* flush, with writes that fail or are cut off, is the text that its id had
\* when the file was last opened for writing.
THEOREM NothingComesBackHolds == Spec => []NothingComesBack
<1>1. IInv => NothingComesBack
  <2> SUFFICES ASSUME IInv, file # None, NEW i \in Ids
               PROVE  get_test_conf(file)[i] \in {None, flushed[i]}
    BY DEF NothingComesBack
  <2>1. file \in Seq(Tokens)
    BY DEF IInv, TypeOK
  <2>2. CASE get_test_conf(file)[i] # None
    <3>1. PICK p \in ReadAt(file, i) :
            /\ LastReadAt(file, i, p)
            /\ get_test_conf(file)[i] = [id |-> i, ver |-> file[p].ver, split |-> FALSE]
      BY <2>1, <2>2, Found
    <3>2. p \in DOMAIN file /\ file[p].id = i
      BY <3>1 DEF ReadAt
    <3> QED BY <3>1, <3>2 DEF IInv, FileInv, TextAt
  <2> QED BY <2>2
<1> QED BY <1>1, Invariance, PTL

\* A start after writes that were complete finds every text that was written
\* up to the first that spans several lines, and nothing else.
LEMMA RestartFinds ==
    ASSUME IInv, clean, file # None
    PROVE  get_test_conf(file) = [i \in Ids |-> IF i \in written /\ BeforeSplit(i, flushed)
                                                THEN flushed[i] ELSE None]
<1>1. file \in Seq(Tokens) /\ DOMAIN file = 1..Len(file) /\ Len(file) \in Nat
  BY DEF IInv, TypeOK
<1>2. ContentInv /\ written \subseteq Ids
  BY DEF IInv, CleanInv, TypeOK
<1>3. ASSUME NEW i \in Ids, NEW p \in ReadAt(file, i), LastReadAt(file, i, p)
      PROVE  i \in written /\ flushed[i] = TextAt(p) /\ BeforeSplit(i, flushed)
  <2>1. /\ IsObject(p) /\ file[p].id = i /\ p \in DOMAIN file
        /\ \A q \in 1..(p - 1) : ~GivesUpAt(file, q)
    BY DEF ReadAt, IsObject
  <2>2. i \in written /\ flushed[i] = TextAt(p)
    BY <1>2, <1>3, <2>1 DEF ContentInv, IInv, FileInv
  <2>3. ASSUME NEW j \in Ids, flushed[j] # None, flushed[j].split PROVE i < j
    <3>1. i \in Nat /\ j \in Nat
      BY ConfStoreAssumption
    <3>2. i # j
      BY <2>2, <2>3 DEF TextAt
    <3>3. ~ (j < i)
      <4> SUFFICES ASSUME j < i PROVE FALSE
        OBVIOUS
      <4>1. j \in written
        BY <2>2, <2>3 DEF IInv, IteratorInv
      <4>2. \E q \in 1..(p - 1) : GivesUpAt(file, q)
        BY <1>2, <2>1, <2>3, <4>1 DEF ContentInv
      <4> QED BY <2>1, <4>2
    <3> QED BY <3>1, <3>2, <3>3
  <2> QED BY <2>2, <2>3 DEF BeforeSplit
<1>4. ASSUME NEW i \in written, BeforeSplit(i, flushed) PROVE ReadAt(file, i) # {}
  <2>1. i \in Ids /\ i \in Nat /\ flushed[i] # None
    <3>1. i \in Ids
      BY <1>2
    <3>2. flushed[i] # None
      BY DEF IInv, IteratorInv
    <3> QED BY <3>1, <3>2, ConfStoreAssumption
  <2>2. ~flushed[i].split
    <3>1. ~ (i < i)
      BY <2>1
    <3> QED BY <1>4, <2>1, <3>1 DEF BeforeSplit
  <2>3. PICK p \in DOMAIN file : IsObject(p) /\ file[p].id = i /\ LineStart(file, p)
    BY <1>2, <2>2 DEF ContentInv
  <2>4. ASSUME NEW q \in 1..(p - 1), GivesUpAt(file, q) PROVE FALSE
    <3>1. q \in DOMAIN file /\ q < p
      BY <1>1, <2>3
    <3>2. PICK j \in written : flushed[j].split /\ j < i
      BY <1>2, <2>3, <2>4, <3>1 DEF ContentInv
    <3>3. j \in Ids /\ j \in Nat /\ flushed[j] # None
      BY <1>2, ConfStoreAssumption DEF IInv, IteratorInv
    <3>4. i < j
      BY <1>4, <3>2, <3>3 DEF BeforeSplit
    <3> QED BY <2>1, <3>2, <3>3, <3>4
  <2>5. p \in ReadAt(file, i)
    BY <2>3, <2>4 DEF ReadAt, IsObject
  <2> QED BY <2>5
<1>5. ASSUME NEW i \in Ids
      PROVE  get_test_conf(file)[i] = IF i \in written /\ BeforeSplit(i, flushed)
                                      THEN flushed[i] ELSE None
  <2>1. CASE ReadAt(file, i) = {}
    <3>1. get_test_conf(file)[i] = None
      BY <2>1 DEF get_test_conf
    <3> QED BY <1>4, <2>1, <3>1
  <2>2. CASE ReadAt(file, i) # {}
    <3>1. PICK p \in ReadAt(file, i) :
            /\ LastReadAt(file, i, p)
            /\ get_test_conf(file)[i] = [id |-> i, ver |-> file[p].ver, split |-> FALSE]
      BY <1>1, <2>2, Found
    <3>2. file[p].id = i
      BY <3>1 DEF ReadAt
    <3> QED BY <1>3, <3>1, <3>2 DEF TextAt
  <2> QED BY <2>1, <2>2
<1> QED BY <1>5 DEF get_test_conf

\* An end of the master in the middle of a flush loses the entries that the
\* flush had not come to, and no others.
THEOREM RestartHolds == Spec => RestartLosesOnlyTail
<1>1. IInv /\ [Next]_vars =>
        (proc = "down" /\ proc' = "up" /\ clean =>
           configid_map' = [i \in Ids |-> IF i \in written /\ BeforeSplit(i, flushed)
                                          THEN flushed[i] ELSE None])
  <2> SUFFICES ASSUME IInv, [Next]_vars, proc = "down", proc' = "up", clean
               PROVE  configid_map' = [i \in Ids |-> IF i \in written /\ BeforeSplit(i, flushed)
                                                     THEN flushed[i] ELSE None]
    OBVIOUS
  <2>1. Start
    BY DEF Next, StartNoFile, Post, PostDelete, Serving, Flush, FlushOpen, FlushText,
           FlushSeparator, FlushClose, Die, vars
  <2>2. file # None /\ configid_map' = get_test_conf(file)
    BY <2>1 DEF Start
  <2> QED BY <2>2, RestartFinds
<1> QED BY <1>1, Invariance, PTL DEF Spec, RestartLosesOnlyTail
=============================================================================
