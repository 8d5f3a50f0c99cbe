----------------------------- MODULE ConfStore -----------------------------
(***************************************************************************)
(* The configurations of the master on disk (src/master.cpp): read from    *)
(* test.conf by get_test_conf when the master starts, changed by requests, *)
(* written back by flush_test_conf every flushconf seconds.  The file is   *)
(* truncated and rewritten in place, one write() for a text and one for    *)
(* the blank line behind it, and the process may end between any two of    *)
(* them: termhandler calls exit(0) without a flush.                        *)
(*                                                                         *)
(* A text is told apart by its id, its version and whether the JSON object *)
(* is spread over several lines, which the HTTP handler accepts and the    *)
(* line by line reader of test.conf does not.  The file is a sequence of   *)
(* tokens: a complete object, a piece of one ("junk": it does not parse),  *)
(* a comment or the end of a line.                                         *)
(***************************************************************************)
EXTENDS Integers, Sequences, FiniteSets

CONSTANTS
    Ids,        \* ids of configurations
    Texts,      \* texts that clients send
    StartConfs, \* what the administrator may have put into test.conf: sequences of texts
    None,       \* no entry, no file
    DiskFull    \* TRUE: a write() to test.conf may fail or be short

TextRecords == [id: Ids, ver: Nat, split: BOOLEAN]
Maps == [Ids -> TextRecords \cup {None}]

Junk == [kind |-> "junk"]
EndOfLine == [kind |-> "eol"]
Comment == [kind |-> "comment"]
Object(t) == [kind |-> "object", id |-> t.id, ver |-> t.ver]
Tokens == [kind: {"junk", "eol", "comment"}] \cup [kind: {"object"}, id: Ids, ver: Nat]

ASSUME ConfStoreAssumption ==
    /\ Ids \subseteq Nat /\ IsFiniteSet(Ids)
    /\ Texts \subseteq TextRecords
    /\ StartConfs \subseteq Seq(Texts)
    /\ \A s \in StartConfs : \A j \in DOMAIN s : ~s[j].split
    /\ None \notin TextRecords /\ None \notin Seq(Tokens)
    /\ DiskFull \in BOOLEAN

VARIABLES
    proc,         \* "down" | "up" | "hung": the master process
    configid_map, \* id -> text or None
    file,         \* test.conf, or None
    stage,        \* where flush_test_conf is: "idle" | "text" | "separator"
    todo,         \* ids its iterator has not passed
    flushed,      \* history: configid_map when the file was last opened for writing
    written,      \* history: ids whose text was written since
    clean         \* history: every write since was complete

flushVars == <<stage, todo, flushed, written, clean>>
vars == <<proc, configid_map, file, flushVars>>

Live == {i \in Ids : configid_map[i] # None}
Least(S) == CHOOSE i \in S : \A j \in S : i <= j

TypeOK ==
    /\ proc \in {"down", "up", "hung"}
    /\ configid_map \in Maps
    /\ \A i \in Live : configid_map[i].id = i
    /\ file \in Seq(Tokens) \cup {None}
    /\ stage \in {"idle", "text", "separator"}
    /\ todo \subseteq Live
    /\ flushed \in Maps
    /\ written \subseteq Ids
    /\ clean \in BOOLEAN

-----------------------------------------------------------------------------
(* get_test_conf *)

\* Only the start of a line counts: a comment hides the rest of it and the
\* JSON reader stops at the end of the first object.
LineStart(f, p) == p = 1 \/ f[p - 1].kind = "eol"

\* A line that starts with a piece of an object makes get_test_conf return,
\* with what it has read so far in the map.
GivesUpAt(f, p) == f[p].kind = "junk" /\ LineStart(f, p)

\* Where get_test_conf reads an object with id i.
ReadAt(f, i) ==
    {p \in DOMAIN f : /\ f[p].kind = "object" /\ f[p].id = i
                      /\ LineStart(f, p)
                      /\ \A q \in 1..(p - 1) : ~GivesUpAt(f, q)}

\* A later line overwrites the entry of an earlier one.
Latest(S) == CHOOSE p \in S : \A q \in S : q <= p

get_test_conf(f) ==
    [i \in Ids |-> IF ReadAt(f, i) = {} THEN None
                   ELSE [id |-> i, ver |-> f[Latest(ReadAt(f, i))].ver, split |-> FALSE]]

\* The master starts.  main does not look at what get_test_conf returns.
Start ==
    /\ proc = "down"
    /\ file # None
    /\ proc' = "up"
    /\ configid_map' = get_test_conf(file)
    /\ UNCHANGED <<file, flushVars>>

\* Without a file the stream never reaches its end: the loop does not stop.
StartNoFile ==
    /\ proc = "down"
    /\ file = None
    /\ proc' = "hung"
    /\ UNCHANGED <<configid_map, file, flushVars>>

-----------------------------------------------------------------------------
(* Requests: what deal_metric_request and delete_metric_request do to the  *)
(* map (the messages to the workers are in module Master)                  *)

\* Mutation: requests are served while a flush is under way.
ServingDuringFlush == proc = "up"

\* One event loop runs all callbacks of the master.
Serving == proc = "up" /\ stage = "idle"

\* Add and modify.
Post(t) ==
    /\ Serving
    /\ configid_map' = [configid_map EXCEPT ![t.id] = t]
    /\ UNCHANGED <<proc, file, flushVars>>

PostDelete(i) ==
    /\ Serving
    /\ configid_map[i] # None
    /\ configid_map' = [configid_map EXCEPT ![i] = None]
    /\ UNCHANGED <<proc, file, flushVars>>

-----------------------------------------------------------------------------
(* flush_test_conf.  When open() fails the writes fail too and nothing has *)
(* changed.                                                                *)

\* Mutation: opened with O_APPEND instead of O_TRUNC.
OpenedAppend == IF file = None THEN <<>> ELSE file

\* open() with O_TRUNC and O_CREAT.
Opened == <<>>

FlushOpen ==
    /\ Serving
    /\ file' = Opened
    /\ stage' = "text"
    /\ todo' = Live
    /\ flushed' = configid_map
    /\ written' = {}
    /\ clean' = TRUE
    /\ UNCHANGED <<proc, configid_map>>

\* The file holds the text that was posted, line ends included.
TokensOf(t) == IF t.split THEN <<Junk, EndOfLine, Junk>> ELSE <<Object(t)>>

\* write(): complete, or on a full disk short or failed; nobody looks.
Write(tokens, short) ==
    \/ file' = file \o tokens /\ UNCHANGED clean
    \/ DiskFull /\ file' \in {file, file \o short} /\ clean' = FALSE

FlushText ==
    /\ proc = "up" /\ stage = "text" /\ todo # {}
    /\ Write(TokensOf(configid_map[Least(todo)]), <<Junk>>)
    /\ stage' = "separator"
    /\ written' = written \cup {Least(todo)}
    /\ UNCHANGED <<proc, configid_map, todo, flushed>>

\* Mutation: no line end behind a text.
SeparatorMissing == <<>>

Separator == <<EndOfLine, EndOfLine>>

\* Mutation: the loop stops before the last entry.
IteratorNextShort == IF Cardinality(todo) = 2 THEN {} ELSE todo \ {Least(todo)}

IteratorNext == todo \ {Least(todo)}

FlushSeparator ==
    /\ proc = "up" /\ stage = "separator"
    /\ Write(Separator, <<EndOfLine>>)
    /\ stage' = "text"
    /\ todo' = IteratorNext
    /\ UNCHANGED <<proc, configid_map, flushed, written>>

FlushClose ==
    /\ proc = "up" /\ stage = "text" /\ todo = {}
    /\ stage' = "idle"
    /\ UNCHANGED <<proc, configid_map, file, todo, flushed, written, clean>>

-----------------------------------------------------------------------------
\* A signal (termhandler, or one without handler) ends the master wherever it
\* is; what was written stays in the file.
Die ==
    /\ proc \in {"up", "hung"}
    /\ proc' = "down"
    /\ stage' = "idle"
    /\ todo' = {}
    /\ configid_map' = [i \in Ids |-> None]
    /\ UNCHANGED <<file, flushed, written, clean>>

\* A file as an administrator writes it: a comment, then a test per line, the
\* last one without the line end.
StartFile(s) ==
    [p \in 1..(2 * Len(s) + 1) |->
        CASE p = 1                -> Comment
          [] p > 1 /\ p % 2 = 0   -> EndOfLine
          [] p > 1 /\ p % 2 = 1   -> Object(s[p \div 2])]

\* The tests of the file; of several lines for one id the last one counts.
StartMap(s) ==
    [i \in Ids |-> IF \E k \in DOMAIN s : s[k].id = i
                   THEN s[Latest({k \in DOMAIN s : s[k].id = i})] ELSE None]

Init ==
    /\ proc = "down"
    /\ configid_map = [i \in Ids |-> None]
    /\ \E s \in StartConfs :
          /\ flushed = StartMap(s)
          /\ file \in {StartFile(s)} \cup (IF s = <<>> THEN {None} ELSE {})
    /\ written = {i \in Ids : flushed[i] # None}
    /\ stage = "idle"
    /\ todo = {}
    /\ clean = TRUE

Flush == FlushOpen \/ FlushText \/ FlushSeparator \/ FlushClose

Next ==
    \/ Start \/ StartNoFile
    \/ \E t \in Texts : Post(t)
    \/ \E i \in Ids : PostDelete(i)
    \/ Flush
    \/ Die

Spec == Init /\ [][Next]_vars

\* The flush timer is persistent and a flush that was begun goes on while the
\* process lives.
FairSpec == Spec /\ WF_vars(Flush)

-----------------------------------------------------------------------------
(* Properties *)

\* Whatever a start would find in the file is the text an entry had when the
\* file was last written: no deleted test and no older version of a changed
\* one comes back, with a crash in the middle of a flush and with writes that
\* fail or are cut off.
NothingComesBack ==
    file # None => \A i \in Ids : get_test_conf(file)[i] \in {None, flushed[i]}

\* No text up to that of id i in map m spans several lines.
BeforeSplit(i, m) == \A j \in Ids : m[j] # None /\ m[j].split => i < j

\* A start after a flush whose writes were complete, finished or interrupted,
\* finds every text that was written, up to the first that spans several
\* lines: an interrupted flush loses the entries it had not come to, and no
\* others.
RestartLosesOnlyTail ==
    [][proc = "down" /\ proc' = "up" /\ clean =>
         configid_map' = [i \in Ids |-> IF i \in written /\ BeforeSplit(i, flushed)
                                        THEN flushed[i] ELSE None]]_vars

\* A text that a request has put into the map gets into the file, unless it
\* is changed or deleted again, the process ends, the disk is full or a text
\* of several lines stands before it.
EventuallySaved ==
    \A t \in Texts :
        configid_map[t.id] = t ~>
            \/ file # None /\ get_test_conf(file)[t.id] = t
            \/ configid_map[t.id] # t
            \/ proc # "up"
            \/ ~clean
            \/ ~BeforeSplit(t.id, configid_map)
=============================================================================
