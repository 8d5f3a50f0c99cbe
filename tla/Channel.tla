------------------------------ MODULE Channel ------------------------------
(***************************************************************************)
(* The socketpairs between the newprober master and its workers, and the   *)
(* messages that cross them (src/tool.h: channel_data; src/master.h:       *)
(* the MASTER_MSG_TYPE constants).                                         *)
(*                                                                         *)
(* A channel is named by the index of its worker.  The descriptors that    *)
(* generate_worker pushes on channel_fd_vec grow with that index, so the   *)
(* order of config_map (by descriptor) is the order of the indices.        *)
(* Index 0 is descriptor 0: what configid_channel_map[id] returns for an   *)
(* id it does not hold.                                                    *)
(***************************************************************************)
EXTENDS Integers, Sequences, FiniteSets

CONSTANTS
    workernum,  \* number of workers, server.conf "workernum"
    Conf,       \* the configurations a request or test.conf may carry
    ChanCap     \* messages the socket buffer holds before write() gives EAGAIN

Channels == 1..workernum
Stdin == 0

(***************************************************************************)
(* A configuration is the JSON text of one test, abstracted to: its id,    *)
(* its type ("UDP", "PING", or "OTHER" for a type generate_test cannot     *)
(* build), a version that tells two texts with one id apart, and whether   *)
(* the text is longer than MAX_MSG_LEN, so that send_msg cuts it and the   *)
(* worker's JSON parser refuses what arrives.                              *)
(***************************************************************************)
Ids == {c.id : c \in Conf}
Types == {"UDP", "PING", "OTHER"}

ASSUME ChannelAssumption ==
    /\ workernum \in Nat \ {0}
    /\ ChanCap \in Nat \ {0}
    /\ Conf \subseteq [id: Int, type: Types, ver: Nat, long: BOOLEAN]

ConfMsg == [op: {"ADDCONF", "EDITCONF", "DELCONF"}, conf: Conf]
RedisMsg == [op: {"REDISPORT"}]
Msg == ConfMsg \cup RedisMsg

VARIABLES
    mstat,  \* "up" | "down": the master process
    wstat,  \* wstat[w]: "up" | "down": the process of worker w
    down,   \* down[w]: messages written by the master, not yet read by w
    up,     \* up[w]: ids acknowledged by w, not yet read by the master
    issued, \* history: <<w, id>> such that the master wrote ADDCONF of id to
            \*          w, whether or not the write came through
    handed  \* history: <<w, id>> such that one of these writes came through

chanVars == <<mstat, wstat, down, up, issued, handed>>

ChannelTypeOK ==
    /\ mstat \in {"up", "down"}
    /\ wstat \in [Channels -> {"up", "down"}]
    /\ down \in [Channels -> Seq(Msg)]
    /\ up \in [Channels -> Seq(Ids)]
    /\ issued \subseteq Channels \X Ids
    /\ handed \subseteq Channels \X Ids

\* The history H with the write of m to channel c, if m hands over a test.
Recorded(H, c, m) == H \cup (IF m.op = "ADDCONF" THEN {<<c, m.conf.id>>} ELSE {})

(***************************************************************************)
(* Master::send_msg: one write() of a whole channel_data on a nonblocking  *)
(* stream socket, whose result no caller looks at.  The write is atomic    *)
(* (a channel_data is one socket buffer).  SIGPIPE is not handled anywhere *)
(* in the program, so writing to a worker that is gone ends the master.    *)
(***************************************************************************)
Delivered(c, m) ==
    /\ c \in Channels
    /\ wstat[c] = "up"
    /\ Len(down[c]) < ChanCap
    /\ down' = [down EXCEPT ![c] = Append(@, m)]
    /\ handed' = Recorded(handed, c, m)
    /\ UNCHANGED mstat

DroppedFull(c) ==
    /\ c \in Channels
    /\ wstat[c] = "up"
    /\ Len(down[c]) >= ChanCap
    /\ UNCHANGED <<mstat, down, handed>>

BrokenPipe(c) ==
    /\ c \in Channels
    /\ wstat[c] = "down"
    /\ mstat' = "down"
    /\ UNCHANGED <<down, handed>>

ToStdin(c) ==
    /\ c = Stdin
    /\ UNCHANGED <<mstat, down, handed>>

send_msg(c, m) ==
    /\ \/ Delivered(c, m)
       \/ DroppedFull(c)
       \/ BrokenPipe(c)
       \/ ToStdin(c)
    /\ issued' = Recorded(issued, c, m)
    /\ UNCHANGED <<wstat, up>>
=============================================================================
