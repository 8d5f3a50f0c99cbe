----------------------------- MODULE LogRotate -----------------------------
(***************************************************************************)
(* Log rotation.  Every splitlog seconds the master closes its log file,   *)
(* renames it, opens a new one and passes the descriptor to every worker   *)
(* over the second socketpair (Logger::split_log, Master::split_log,       *)
(* send_openfd).  A worker receives it with recv_openfd, which calls       *)
(* recvmsg() twice, closes its log descriptor and takes the new one.       *)
(*                                                                         *)
(* A log file is named by the number of the rotation that opened it, 0 at  *)
(* start-up; a descriptor is named by its file, since no process ever gets *)
(* the same file twice.  The length n of recv_openfd is unsigned, so only  *)
(* the end of the stream at the second call makes it return early.         *)
(***************************************************************************)
EXTENDS Integers, Sequences

CONSTANTS
    workernum, \* workers
    MaxRot,    \* bound on the rotations
    Cap,       \* descriptors a channel holds
    None,      \* no descriptor
    Env        \* what the environment may do beyond the ordinary, see Allowed

\* openfail:   open() of the new log file fails
\* nofile:     the worker has no free descriptor when one arrives
\* workerdies: a worker ends
\* masterdies: the master ends
Allowed == {"openfail", "nofile", "workerdies", "masterdies"}

Workers == 1..workernum
Files == 0..MaxRot
Log == Files \cup {None}

ASSUME LogRotateAssumption ==
    /\ workernum \in Nat \ {0}
    /\ MaxRot \in Nat
    /\ Cap \in Nat \ {0}
    /\ None \notin Files
    /\ Env \subseteq Allowed

VARIABLES
    mstat,     \* "up" | "down": the master
    wstat,     \* wstat[w]: the worker process
    rot,       \* rotations so far
    mlog,      \* logfilefd of the master
    log,       \* log[w]: logfilefd of worker w
    open,      \* open[w]: log descriptors that worker w has open
    next,      \* the worker that Master::split_log serves next, 0 outside its loop
    chan,      \* chan[w]: descriptors in the second channel
    recvpc,    \* recvpc[w]: "idle", or "second" between the two recvmsg()
    recvfd,    \* recvfd[w]: what the control data holds in between
    disturbed  \* history: workers that a rotation did not meet at rest: the
               \* one before was not taken yet, the channel or the descriptor
               \* table was full, or the master was gone

workerVars == <<wstat, log, open, recvpc, recvfd>>
vars == <<mstat, rot, mlog, next, chan, disturbed, workerVars>>

TypeOK ==
    /\ mstat \in {"up", "down"}
    /\ wstat \in [Workers -> {"up", "down"}]
    /\ rot \in Files
    /\ mlog \in Log
    /\ log \in [Workers -> Log]
    /\ open \in [Workers -> SUBSET Files]
    /\ next \in 0..workernum
    /\ chan \in [Workers -> Seq(Files)]
    /\ \A w \in Workers : Len(chan[w]) <= Cap
    /\ recvpc \in [Workers -> {"idle", "second"}]
    /\ recvfd \in [Workers -> Log]
    /\ disturbed \subseteq Workers

\* generate_worker: every worker inherits the log file of the master.
Init ==
    /\ mstat = "up"
    /\ wstat = [w \in Workers |-> "up"]
    /\ rot = 0
    /\ mlog = 0
    /\ log = [w \in Workers |-> 0]
    /\ open = [w \in Workers |-> {0}]
    /\ next = 0
    /\ chan = [w \in Workers |-> <<>>]
    /\ recvpc = [w \in Workers |-> "idle"]
    /\ recvfd = [w \in Workers |-> None]
    /\ disturbed = {}

AtRest(w) == chan[w] = <<>> /\ recvpc[w] = "idle"

-----------------------------------------------------------------------------
(* Master::split_log *)

\* Mutation: Logger::split_log returns the descriptor it had before.
NewLogOld == {mlog}

\* Logger::split_log: close, rename, open.
NewLog == {rot + 1} \cup (IF "openfail" \in Env THEN {None} ELSE {})

SplitLog ==
    /\ mstat = "up" /\ next = 0 /\ rot < MaxRot
    /\ rot' = rot + 1
    /\ mlog' \in NewLog
    /\ next' = 1
    /\ UNCHANGED <<mstat, chan, disturbed, workerVars>>

\* Mutation: the last worker is left out.
AfterShort(w) == IF w >= workernum - 1 THEN 0 ELSE w + 1

\* Mutation: one worker too many.
AfterLong(w) == IF w > workernum THEN 0 ELSE w + 1

\* The loop over channel_1_fd_vec goes on.
After(w) == IF w = workernum THEN 0 ELSE w + 1

Sending(w) == mstat = "up" /\ next = w /\ wstat[w] = "up"

\* sendmsg() for worker w: it refuses the descriptor -1, and a full channel
\* takes nothing; nobody looks at the result.
Send(w) ==
    /\ Sending(w)
    /\ mlog # None /\ Len(chan[w]) < Cap
    /\ chan' = [chan EXCEPT ![w] = Append(@, mlog)]
    /\ disturbed' = IF AtRest(w) THEN disturbed ELSE disturbed \cup {w}
    /\ next' = After(w)
    /\ UNCHANGED <<mstat, rot, mlog, workerVars>>

SendRefused(w) ==
    /\ Sending(w)
    /\ mlog = None \/ Len(chan[w]) = Cap
    /\ disturbed' = IF mlog = None THEN disturbed ELSE disturbed \cup {w}
    /\ next' = After(w)
    /\ UNCHANGED <<mstat, rot, mlog, chan, workerVars>>

\* The other end is closed: SIGPIPE ends the master, unless the descriptor
\* was refused first.
SendToDead(w) ==
    /\ mstat = "up" /\ next = w /\ wstat[w] = "down"
    /\ \/ mlog # None /\ mstat' = "down" /\ next' = 0 /\ disturbed' = Workers
       \/ mlog = None /\ next' = After(w) /\ UNCHANGED <<mstat, disturbed>>
    /\ UNCHANGED <<rot, mlog, chan, workerVars>>

-----------------------------------------------------------------------------
(* worker_channel_1_cb: recv_openfd, then Worker::split_log *)

\* The descriptor f in a message becomes one of the worker's, if there is room
\* for it in its table and, in the message header, for the control data.
Installed(w, f, room) ==
    /\ chan' = [chan EXCEPT ![w] = Tail(@)]
    /\ \/ room /\ recvfd' = [recvfd EXCEPT ![w] = f]
       \/ (~room \/ "nofile" \in Env) /\ recvfd' = [recvfd EXCEPT ![w] = None]
    /\ disturbed' = IF recvfd'[w] = None THEN disturbed \cup {w} ELSE disturbed

\* The first recvmsg(): a descriptor, or the end of the stream.
RecvFirst(w) ==
    /\ wstat[w] = "up" /\ recvpc[w] = "idle"
    /\ \/ /\ chan[w] # <<>>
          /\ Installed(w, Head(chan[w]), TRUE)
          /\ open' = [open EXCEPT ![w] = @ \cup ({recvfd'[w]} \ {None})]
       \/ /\ chan[w] = <<>> /\ mstat = "down"
          /\ recvfd' = [recvfd EXCEPT ![w] = None]
          /\ UNCHANGED <<chan, open, disturbed>>
    /\ recvpc' = [recvpc EXCEPT ![w] = "second"]
    /\ UNCHANGED <<mstat, rot, mlog, next, wstat, log>>

\* Mutation: the old descriptor is not closed.
ClosedNot(w, fds) == fds

\* Logger::close_fd of the worker.
Closed(w, fds) == fds \ {log[w]}

\* The second recvmsg() finds another descriptor, which takes the place of
\* the first.
RecvSecond(w) ==
    /\ wstat[w] = "up" /\ recvpc[w] = "second"
    /\ chan[w] # <<>>
    /\ Installed(w, Head(chan[w]), recvfd[w] # None)
    /\ log' = [log EXCEPT ![w] = recvfd'[w]]
    /\ open' = [open EXCEPT ![w] = Closed(w, @ \cup ({recvfd'[w]} \ {None}))]
    /\ recvpc' = [recvpc EXCEPT ![w] = "idle"]
    /\ UNCHANGED <<mstat, rot, mlog, next, wstat>>

\* Mutation: the error of the second call is looked at.
ReturnedFail(w) == None

\* recv_openfd after a second call that got nothing: EAGAIN leaves the control
\* data of the first; at the end of the stream it returns -1.
Returned(w) == IF mstat = "up" THEN recvfd[w] ELSE None

RecvNothing(w) ==
    /\ wstat[w] = "up" /\ recvpc[w] = "second"
    /\ chan[w] = <<>>
    /\ log' = [log EXCEPT ![w] = Returned(w)]
    /\ open' = [open EXCEPT ![w] = Closed(w, @)]
    /\ recvpc' = [recvpc EXCEPT ![w] = "idle"]
    /\ UNCHANGED <<mstat, rot, mlog, next, chan, disturbed, wstat, recvfd>>

-----------------------------------------------------------------------------
WorkerDies(w) ==
    /\ "workerdies" \in Env
    /\ wstat[w] = "up"
    /\ wstat' = [wstat EXCEPT ![w] = "down"]
    /\ UNCHANGED <<mstat, rot, mlog, next, chan, disturbed, log, open, recvpc, recvfd>>

MasterDies ==
    /\ "masterdies" \in Env
    /\ mstat = "up"
    /\ mstat' = "down"
    /\ next' = 0
    /\ disturbed' = Workers
    /\ UNCHANGED <<rot, mlog, chan, workerVars>>

Receive(w) == RecvFirst(w) \/ RecvSecond(w) \/ RecvNothing(w)

Next ==
    \/ SplitLog \/ MasterDies
    \/ \E w \in Workers : \/ Send(w) \/ SendRefused(w) \/ SendToDead(w)
                          \/ Receive(w) \/ WorkerDies(w)

Spec == Init /\ [][Next]_vars

\* A process that lives runs the callbacks that are due, and the loop of
\* Master::split_log to its end.
FairSpec ==
    /\ Spec
    /\ WF_vars(\E w \in Workers : Send(w) \/ SendRefused(w) \/ SendToDead(w))
    /\ \A w \in Workers : WF_vars(Receive(w))

-----------------------------------------------------------------------------
(* Properties *)

\* The descriptors worker w should have open: that of its log, and one it has
\* received and not yet put into place.
Owned(w) == ({log[w]} \cup (IF recvpc[w] = "second" THEN {recvfd[w]} ELSE {})) \ {None}

\* A worker that met every rotation at rest has a log to write to, although
\* it closes the old descriptor before it knows what it received, and has no
\* descriptor open besides.
OwnsItsLog ==
    \A w \in Workers \ disturbed : log[w] # None /\ open[w] = Owned(w)

\* However far a worker lags behind, and whatever is lost on the way, what is
\* still to come is newer than what it has: it never goes back to a log file
\* that it has left.
NeverOlder ==
    \A w \in Workers : \A f \in open[w] : \A k \in DOMAIN chan[w] :
        f < chan[w][k] /\ \A j \in 1..(k-1) : chan[w][j] < chan[w][k]

\* When a rotation is over and every worker is at rest, a worker that no
\* rotation disturbed writes to the file of the master.
SameLog ==
    /\ mstat = "up" /\ next = 0 /\ mlog # None
    /\ \A w \in Workers : AtRest(w)
    => \A w \in Workers \ disturbed : log[w] = mlog

\* A worker that no rotation disturbs gives up the renamed file for the new
\* one, or a newer one, while it and the master live.
FollowsRotation ==
    \A w \in Workers, f \in 1..MaxRot :
        mlog = f ~> \/ log[w] \in f..MaxRot
                    \/ w \in disturbed \/ wstat[w] = "down" \/ mstat = "down"
=============================================================================
