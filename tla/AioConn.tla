------------------------------ MODULE AioConn ------------------------------
(***************************************************************************)
(* One descriptor of the portable reactor, dyna-aio.c: the read slot, the  *)
(* write that is under way, the sends queued behind it, the file body that *)
(* may stand between them, and aio_dispatch, which serves a readiness      *)
(* event in stages with user callbacks in between.  A callback may submit, *)
(* cancel and close, and may open another connection that gets the same    *)
(* descriptor number; "life" tells its occupants apart.                    *)
(*                                                                         *)
(* Bytes are units; a submission is the unit's owner, so that the wire is  *)
(* a sequence of submissions.  A submission's callback and udata are its   *)
(* tag.  The readiness loop is the one of module EvLoop: it never hands    *)
(* over an event of an earlier occupant, and here its mod does not fail    *)
(* (aio_apply_interest ignores the result), while its add may.  Allocation *)
(* succeeds.  The counter "inflight" guards nothing and is left out, and   *)
(* so is TLS, which encrypts in front of aio_send_raw.                     *)
(***************************************************************************)
EXTENDS Integers, Sequences, FiniteSets

CONSTANTS
    MaxSub,      \* bound: sends and file bodies ever submitted
    MaxLife,     \* bound: occupants of the descriptor
    Quota,       \* bound: what may be submitted by the end of each occupancy
    Lens,        \* lengths of a send
    FileLens,    \* lengths of a file body
    TagOf,       \* the callback and udata pair of each submission, in turn
    Room,        \* units the socket's send buffer holds
    FileCancel   \* may a file body be cancelled

ASSUME BoundAssumption ==
    /\ MaxSub \in Nat /\ MaxLife \in Nat /\ Room \in Nat \ {0}
    /\ DOMAIN TagOf = 1..MaxSub /\ Quota \in [0..MaxLife -> 0..MaxSub]
    /\ Lens \subseteq Nat \ {0} /\ FileLens \subseteq Nat
    /\ FileCancel \in BOOLEAN

READ == "read"
WRITE == "write"
ERROR == "error"

VARIABLES
    conn,   \* a->fds[fd], but for life
    life,   \* a->fds[fd].life
    disp,   \* aio_dispatch: its stage, its event, life0, and err's occupant
    sock,   \* the socket behind the descriptor
    room,   \* units its send buffer takes before EAGAIN
    wire,   \* what the socket has taken, unit by unit
    subs    \* every submission and how it ended

vars == <<conn, life, disp, sock, room, wire, subs>>

Id == 1..MaxSub
Tag == {TagOf[i] : i \in Id}
Idle == [id |-> 0, left |-> 0]
Transfer == [id : 0..MaxSub, left : Nat]
Write == {Idle} \cup [id : Id, left : Nat \ {0}]
Node == [id : Id, len : Nat, after_file : BOOLEAN]
Conn == [r_op : {"none", "recv", "connect"}, r_multishot : BOOLEAN, w : Write,
         w_q : Seq(Node), w_file : Transfer, active : BOOLEAN,
         interest : SUBSET {READ, WRITE}]
Status == {"pending", "ok", "failed", "reset", "cancelled", "refused", "dropped"}
Sub == [life : 0..MaxLife, file : BOOLEAN, len : Nat, tag : Tag, status : Status,
        blame : 0..MaxLife]

Cleared == [r_op |-> "none", r_multishot |-> FALSE, w |-> Idle, w_q |-> <<>>,
            w_file |-> Idle, active |-> FALSE, interest |-> {}]
AtRest == [at |-> "idle", ev |-> {}, life0 |-> 0, err |-> 0]

TypeOK ==
    /\ conn \in Conn
    /\ life \in 0..MaxLife
    /\ disp \in [at : {"idle", "write", "wcb", "ecb", "rest", "fcb", "read"},
                 ev : SUBSET {READ, WRITE, ERROR}, life0 : 0..MaxLife, err : 0..MaxLife]
    /\ sock \in {"none", "connecting", "up", "broken"}
    /\ room \in 0..Room
    /\ wire \in Seq(Id)
    /\ subs \in Seq(Sub) /\ Len(subs) <= MaxSub

Init ==
    /\ conn = Cleared
    /\ life = 0
    /\ disp = AtRest
    /\ sock = "none"
    /\ room = Room
    /\ wire = <<>>
    /\ subs = <<>>

\* User code runs between dispatches and inside the callbacks of one.
UserRuns == disp.at \in {"idle", "wcb", "ecb", "fcb"}

-----------------------------------------------------------------------------
(* The steps the handlers share *)

Least(a, b) == IF a < b THEN a ELSE b

Mask(c) ==
    (IF c.r_op = "recv" THEN {READ} ELSE {})
    \cup (IF c.r_op = "connect" \/ c.w.left > 0 \/ c.w_q # <<>> \/ c.w_file.left > 0
          THEN {WRITE} ELSE {})

aio_apply_interest(c) == [c EXCEPT !.interest = Mask(c)]

aio_wq_promote(c) ==
    IF \/ c.w_q = <<>>
       \/ c.w.left > 0
       \/ Head(c.w_q).after_file /\ c.w_file.left > 0
    THEN c
    ELSE [c EXCEPT !.w = [id |-> Head(c.w_q).id, left |-> Head(c.w_q).len],
                   !.w_q = Tail(@)]

\* Mutant: the sends that waited for the file are left where they are.
FileDoneKeepsQueue(c) == aio_apply_interest([c EXCEPT !.w_file = Idle])

aio_file_done(c) == aio_apply_interest(aio_wq_promote([c EXCEPT !.w_file = Idle]))

\* The callbacks of a set of submissions run with a result.
Report(ids, status, blame) ==
    subs' = [i \in DOMAIN subs |->
                IF i \in ids THEN [subs[i] EXCEPT !.status = status, !.blame = blame]
                             ELSE subs[i]]

Queued(c) == {c.w_q[k].id : k \in DOMAIN c.w_q}

\* The socket takes n units of a submission.
Units(id, n) == [k \in 1..n |-> id]
Takes(id, n) == /\ wire' = wire \o Units(id, n)
                /\ room' = room - n

\* What send() takes of n units now.
Accepts(n) == IF sock = "up" THEN Least(n, room) ELSE 0

\* Mutant: a short write is taken for a complete one.
CompletesShort(n) == Accepts(n) > 0 \/ n = 0

Completes(n) == Accepts(n) = n

-----------------------------------------------------------------------------
(* The socket and its peer: external *)

\* accept() has handed over a connected socket.
Accepted ==
    /\ UserRuns /\ sock = "none" /\ life < MaxLife /\ Len(subs) < Quota[life]
    /\ sock' = "up" /\ room' = Room
    /\ UNCHANGED <<conn, life, disp, wire, subs>>

Connected ==
    /\ sock = "connecting"
    /\ sock' \in {"up", "broken"}
    /\ UNCHANGED <<conn, life, disp, room, wire, subs>>

PeerReads ==
    /\ sock = "up" /\ room < Room
    /\ room' = room + 1
    /\ UNCHANGED <<conn, life, disp, sock, wire, subs>>

PeerResets ==
    /\ sock = "up"
    /\ sock' = "broken"
    /\ UNCHANGED <<conn, life, disp, room, wire, subs>>

-----------------------------------------------------------------------------
(* Submissions *)

Fresh(file, len, tag, status) ==
    Append(subs, [life |-> life, file |-> file, len |-> len, tag |-> tag,
                  status |-> status, blame |-> 0])

\* connect() is under way and the loop waits for it.  A refusal at either
\* undoes the slot, and the caller closes the socket: nothing is left of it.
aio_connect_on ==
    /\ UserRuns /\ sock = "none" /\ life < MaxLife /\ Len(subs) < Quota[life]
    /\ conn' = [conn EXCEPT !.r_op = "connect", !.r_multishot = FALSE, !.active = TRUE,
                            !.interest = {WRITE}]
    /\ sock' = "connecting" /\ room' = Room
    /\ UNCHANGED <<life, disp, wire, subs>>

\* In what follows "added" is the result of dyn_evloop_add, which is called
\* only for a descriptor that is not active yet.

dyn_aio_recv(multishot, added) ==
    /\ UserRuns /\ sock \in {"up", "broken"} /\ conn.r_op # "connect"
    /\ conn.active => added
    /\ LET c == [conn EXCEPT !.r_op = "recv", !.r_multishot = multishot]
       IN conn' = CASE conn.active -> aio_apply_interest(c)
                    [] ~conn.active /\ added -> [c EXCEPT !.active = TRUE, !.interest = {READ}]
                    [] OTHER -> [c EXCEPT !.r_op = "none"]
    /\ UNCHANGED <<life, disp, sock, room, wire, subs>>

\* Mutant: a send looks only at the write under way and at the queue.
MustQueueNoFile(c) == c.w.left > 0 \/ c.w_q # <<>>

MustQueue(c) == c.w.left > 0 \/ c.w_q # <<>> \/ c.w_file.left > 0

\* aio_send_raw appends to the queue, or sends what it can and keeps the rest.
SendQueued(len, tag) ==
    /\ MustQueue(conn)
    /\ conn' = [conn EXCEPT !.w_q = Append(@, [id |-> Len(subs) + 1, len |-> len,
                                               after_file |-> conn.w_file.left > 0])]
    /\ subs' = Fresh(FALSE, len, tag, "pending")
    /\ UNCHANGED <<room, wire>>

SendFails(len, tag) ==
    /\ ~MustQueue(conn) /\ sock = "broken"
    /\ subs' = Fresh(FALSE, len, tag, "refused")
    /\ UNCHANGED <<conn, room, wire>>

SendWhole(len, tag) ==
    /\ ~MustQueue(conn) /\ Completes(len)
    /\ Takes(Len(subs) + 1, Accepts(len))
    /\ subs' = Fresh(FALSE, len, tag, "ok")
    /\ UNCHANGED conn

SendPart(len, tag, added) ==
    LET n == Accepts(len)
        c == [conn EXCEPT !.w = [id |-> Len(subs) + 1, left |-> len - n]]
    IN /\ ~MustQueue(conn) /\ sock # "broken" /\ n < len
       /\ conn.active => added
       /\ Takes(Len(subs) + 1, n)
       /\ conn' = CASE conn.active -> aio_apply_interest(c)
                    [] ~conn.active /\ added -> [c EXCEPT !.active = TRUE, !.interest = {WRITE}]
                    [] OTHER -> conn
       /\ subs' = Fresh(FALSE, len, tag, IF added THEN "pending" ELSE "refused")

aio_send_raw(len, tag, added) ==
    /\ UserRuns /\ sock # "none" /\ Len(subs) < Quota[life]
    /\ \/ SendQueued(len, tag) /\ added
       \/ SendFails(len, tag) /\ added
       \/ SendWhole(len, tag) /\ added
       \/ SendPart(len, tag, added)
    /\ UNCHANGED <<life, disp, sock>>

\* dyn_aio_sendfile refuses a body while another has units left, sends at once
\* when no write is under way, and keeps what is left.  An empty body that
\* comes while a write is under way is kept with nothing left, which is what
\* no body at all looks like: nobody reports it, and the next one replaces it.

FileBusy(len, tag) ==
    /\ conn.w_file.left > 0
    /\ subs' = Fresh(TRUE, len, tag, "refused")
    /\ UNCHANGED <<conn, room, wire>>

FileFails(len, tag) ==
    /\ conn.w_file.left = 0 /\ conn.w.left = 0 /\ len > 0 /\ sock = "broken"
    /\ conn' = aio_file_done(conn)
    /\ subs' = [Fresh(TRUE, len, tag, "failed") EXCEPT ![Len(subs) + 1].blame = life]
    /\ UNCHANGED <<room, wire>>

FileWhole(len, tag) ==
    /\ conn.w_file.left = 0 /\ conn.w.left = 0 /\ Completes(len)
    /\ Takes(Len(subs) + 1, Accepts(len))
    /\ conn' = aio_file_done(conn)
    /\ subs' = Fresh(TRUE, len, tag, "ok")

Watched(c) == aio_apply_interest(c)

FilePart(len, tag, added) ==
    LET n == IF conn.w.left = 0 THEN Accepts(len) ELSE 0
        c == [conn EXCEPT !.w_file = [id |-> Len(subs) + 1, left |-> len - n]]
    IN /\ conn.w_file.left = 0
       /\ conn.w.left > 0 \/ (sock # "broken" /\ n < len)
       /\ conn.active => added
       /\ Takes(Len(subs) + 1, n)
       /\ conn' = CASE conn.active -> Watched(c)
                    [] ~conn.active /\ added -> [c EXCEPT !.active = TRUE, !.interest = {WRITE}]
                    [] OTHER -> conn
       /\ subs' = Fresh(TRUE, len, tag, IF added THEN "pending" ELSE "refused")

dyn_aio_sendfile(len, tag, added) ==
    /\ UserRuns /\ sock # "none" /\ Len(subs) < Quota[life]
    /\ \/ FileBusy(len, tag) /\ added
       \/ FileFails(len, tag) /\ added
       \/ FileWhole(len, tag) /\ added
       \/ FilePart(len, tag, added)
    /\ UNCHANGED <<life, disp, sock>>

dyn_aio_close ==
    /\ UserRuns /\ sock # "none"
    /\ conn' = Cleared
    /\ life' = life + 1
    /\ sock' = "none" /\ wire' = <<>> /\ room' = Room
    /\ subs' = [i \in DOMAIN subs |->
                  CASE i \in Queued(conn) \cup {conn.w.id} -> [subs[i] EXCEPT !.status = "reset"]
                    [] i = conn.w_file.id -> [subs[i] EXCEPT !.status = "dropped"]
                    [] OTHER -> subs[i]]
    /\ UNCHANGED disp

\* dyn_aio_cancel drops the reader, the sends at the head of the queue, the
\* write under way and the file body that carry the given callback.
CancelRead(c) == [c EXCEPT !.r_op = "none", !.r_multishot = FALSE]

Tagged(id, tag) == id # 0 /\ subs[id].tag = tag

HeadRun(q, tag) ==
    CHOOSE n \in 0..Len(q) : /\ \A k \in 1..n : Tagged(q[k].id, tag)
                             /\ n < Len(q) => ~Tagged(q[n + 1].id, tag)

CancelQueue(c, tag) == [c EXCEPT !.w_q = SubSeq(@, HeadRun(@, tag) + 1, Len(@))]

\* Mutant: the cancelled write makes no room for the next.
CancelWriteOnly(c, tag) ==
    IF Tagged(c.w.id, tag) THEN [c EXCEPT !.w = Idle] ELSE c

CancelWrite(c, tag) ==
    IF Tagged(c.w.id, tag) THEN aio_wq_promote([c EXCEPT !.w = Idle]) ELSE c

CancelFile(c, tag) ==
    IF Tagged(c.w_file.id, tag) /\ c.w_file.left > 0 THEN [c EXCEPT !.w_file = Idle] ELSE c

Carried(c) == (Queued(c) \cup {c.w.id, c.w_file.id}) \ {0}

dyn_aio_cancel(tag) ==
    LET c == CancelFile(CancelWrite(CancelQueue(conn, tag), tag), tag)
        gone == Carried(conn) \ Carried(c)
    IN /\ UserRuns
       /\ gone # {}
       /\ FileCancel \/ conn.w_file.id \notin gone
       /\ conn' = aio_apply_interest(c)
       /\ Report(gone, "cancelled", 0)
       /\ UNCHANGED <<life, disp, sock, room, wire>>

dyn_aio_cancel_reader ==
    /\ UserRuns /\ conn.r_op # "none"
    /\ conn' = aio_apply_interest(CancelRead(conn))
    /\ UNCHANGED <<life, disp, sock, room, wire, subs>>

-----------------------------------------------------------------------------
(* aio_dispatch *)

\* What epoll reports of the socket, given the interest.
Events ==
    {ev \in SUBSET {READ, WRITE, ERROR} :
        /\ ev # {}
        /\ WRITE \in ev <=> /\ WRITE \in conn.interest
                            /\ sock = "broken" \/ (sock = "up" /\ room > 0)
        /\ READ \in ev => READ \in conn.interest \/ sock = "broken"
        /\ ERROR \in ev => sock = "broken"
        /\ sock = "connecting" => ev = {}}

Writes(ev) == WRITE \in ev /\ conn.w.left > 0

Dispatch(ev) ==
    /\ disp.at = "idle" /\ conn.interest # {} /\ sock # "none"
    /\ disp' = [at |-> IF Writes(ev) THEN "write" ELSE "rest", ev |-> ev,
                life0 |-> life, err |-> 0]
    /\ UNCHANGED <<conn, life, sock, room, wire, subs>>

WriteDone ==
    /\ disp.at = "write" /\ Completes(conn.w.left)
    /\ Takes(conn.w.id, Accepts(conn.w.left))
    /\ conn' = aio_apply_interest(aio_wq_promote([conn EXCEPT !.w = Idle]))
    /\ Report({conn.w.id}, "ok", 0)
    /\ disp' = [disp EXCEPT !.at = "wcb"]
    /\ UNCHANGED <<life, sock>>

WriteBlocks ==
    LET n == Accepts(conn.w.left)
    IN /\ disp.at = "write" /\ sock # "broken" /\ n < conn.w.left
       /\ Takes(conn.w.id, n)
       /\ conn' = [conn EXCEPT !.w.left = @ - n]
       /\ disp' = [disp EXCEPT !.at = "rest"]
       /\ UNCHANGED <<life, sock, subs>>

WriteFails ==
    /\ disp.at = "write" /\ sock = "broken"
    /\ conn' = aio_apply_interest([conn EXCEPT !.w = Idle])
    /\ Report({conn.w.id}, "failed", life)
    /\ disp' = [disp EXCEPT !.at = "ecb", !.err = life]
    /\ UNCHANGED <<life, sock, room, wire>>

\* A write's callback returns: the next write, or the stages after.
WriteReturns ==
    /\ disp.at = "wcb"
    /\ disp' = [disp EXCEPT !.at = IF conn.w.left > 0 THEN "write" ELSE "rest"]
    /\ UNCHANGED <<conn, life, sock, room, wire, subs>>

\* The error callback returns: aio_wq_flush with the error.
ErrorReturns ==
    /\ disp.at = "ecb"
    /\ conn' = [conn EXCEPT !.w_q = <<>>]
    /\ Report(Queued(conn), "failed", disp.err)
    /\ disp' = [disp EXCEPT !.at = "rest"]
    /\ UNCHANGED <<life, sock, room, wire>>

OtherOccupant ==
    /\ disp.at = "rest" /\ life # disp.life0
    /\ disp' = AtRest
    /\ UNCHANGED <<conn, life, sock, room, wire, subs>>

ConnectEnds == disp.ev \cap {WRITE, ERROR} # {} /\ conn.r_op = "connect"

ConnectDone ==
    /\ disp.at = "rest" /\ life = disp.life0 /\ ConnectEnds
    /\ conn' = aio_apply_interest([conn EXCEPT !.r_op = "none"])
    /\ disp' = AtRest
    /\ UNCHANGED <<life, sock, room, wire, subs>>

FileTurn == WRITE \in disp.ev /\ conn.w_file.left > 0 /\ conn.w.left = 0

AtFile == disp.at = "rest" /\ life = disp.life0 /\ ~ConnectEnds

FileDone ==
    /\ AtFile /\ FileTurn /\ Completes(conn.w_file.left)
    /\ Takes(conn.w_file.id, Accepts(conn.w_file.left))
    /\ Report({conn.w_file.id}, "ok", 0)
    /\ conn' = aio_file_done(conn)
    /\ disp' = [disp EXCEPT !.at = "fcb"]
    /\ UNCHANGED <<life, sock>>

FileBlocks ==
    LET n == Accepts(conn.w_file.left)
    IN /\ AtFile /\ FileTurn /\ sock # "broken" /\ n < conn.w_file.left
       /\ Takes(conn.w_file.id, n)
       /\ conn' = [conn EXCEPT !.w_file.left = @ - n]
       /\ disp' = [disp EXCEPT !.at = "read"]
       /\ UNCHANGED <<life, sock, subs>>

FileError ==
    /\ AtFile /\ FileTurn /\ sock = "broken"
    /\ conn' = aio_file_done(conn)
    /\ Report({conn.w_file.id}, "failed", life)
    /\ disp' = [disp EXCEPT !.at = "fcb"]
    /\ UNCHANGED <<life, sock, room, wire>>

FileSkipped ==
    /\ AtFile /\ ~FileTurn
    /\ disp' = [disp EXCEPT !.at = "read"]
    /\ UNCHANGED <<conn, life, sock, room, wire, subs>>

\* The file's callback returns; the reader is served without a look at life.
FileReturns ==
    /\ disp.at = "fcb"
    /\ disp' = [disp EXCEPT !.at = "read"]
    /\ UNCHANGED <<conn, life, sock, room, wire, subs>>

Reads == disp.ev \cap {READ, ERROR} # {} /\ conn.r_op = "recv"

\* recv() returns data, the end of the stream or an error.
ReadDone ==
    /\ disp.at = "read" /\ Reads
    /\ conn' = IF conn.r_multishot THEN conn
               ELSE aio_apply_interest([conn EXCEPT !.r_op = "none"])
    /\ disp' = AtRest
    /\ UNCHANGED <<life, sock, room, wire, subs>>

\* recv() would block, or there is no reader.
ReadSkipped ==
    /\ disp.at = "read" /\ (Reads => sock # "broken")
    /\ disp' = AtRest
    /\ UNCHANGED <<conn, life, sock, room, wire, subs>>

-----------------------------------------------------------------------------
Stages ==
    \/ WriteDone \/ WriteBlocks \/ WriteFails \/ WriteReturns \/ ErrorReturns
    \/ OtherOccupant \/ ConnectDone
    \/ FileDone \/ FileBlocks \/ FileError \/ FileSkipped \/ FileReturns
    \/ ReadDone \/ ReadSkipped

User ==
    \/ Accepted
    \/ aio_connect_on
    \/ \E added \in BOOLEAN :
          \/ \E multishot \in BOOLEAN : dyn_aio_recv(multishot, added)
          \/ \E len \in Lens : aio_send_raw(len, TagOf[Len(subs) + 1], added)
          \/ \E len \in FileLens : dyn_aio_sendfile(len, TagOf[Len(subs) + 1], added)
    \/ dyn_aio_close
    \/ \E tag \in Tag : dyn_aio_cancel(tag)
    \/ dyn_aio_cancel_reader

Next ==
    \/ User
    \/ Connected \/ PeerReads \/ PeerResets
    \/ \E ev \in Events : Dispatch(ev)
    \/ Stages

\* The loop polls and runs what it polled; the peer reads, and a connection
\* attempt ends.  User code may do nothing at all.
Fairness ==
    /\ WF_vars(Stages)
    /\ WF_vars(\E ev \in Events : Dispatch(ev))
    /\ WF_vars(PeerReads)
    /\ WF_vars(Connected)

Spec == Init /\ [][Next]_vars
FairSpec == Spec /\ Fairness

-----------------------------------------------------------------------------
(* Properties *)

\* Whatever the descriptor owes, the readiness loop watches for: a write, a
\* queue or a file for WRITE, a reader for READ (aio_apply_interest is called
\* wherever one of them changes).
InterestSound == sock # "none" => Mask(conn) \subseteq conn.interest

\* Queued sends always have something in front of them that will promote the
\* first of them when it ends (aio_wq_promote), except inside the error
\* callback, which aio_wq_flush follows.
QueueMoves == conn.w_q # <<>> /\ disp.at # "ecb" => conn.w.left > 0 \/ conn.w_file.left > 0

\* Nothing on the descriptor is forgotten: what it owes is watched for, and
\* what is queued has its turn coming.
NothingForgotten == InterestSound /\ QueueMoves

\* File body f may pass send s where an earlier body of the same occupant was
\* accepted before s: s waits for w_file_rem to be 0 (after_file), which f has
\* made nonzero again when the write in front of s ends (aio_wq_promote).
FileBefore(s) ==
    \E g \in 1..(s - 1) : /\ subs[g].file /\ subs[g].status # "refused"
                          /\ subs[g].life = subs[s].life

MayPass(f, s) == subs[f].file /\ ~subs[s].file /\ FileBefore(s)

Ahead(i, j) == i <= j \/ MayPass(i, j)

\* The order the peer really sees: every submission in one piece, and in front
\* of it and of what is still owed only what was submitted before it or is a
\* file body that may pass it.  (Strict order, i <= j for Ahead, is what a
\* caller that queues a header and then its body counts on, and is what the
\* code keeps until a connection's second file body.)
SentInTurn ==
    /\ \A p, q \in DOMAIN wire : p < q => Ahead(wire[p], wire[q])
    /\ \A p, q, r \in DOMAIN wire : p < q /\ q < r /\ wire[p] = wire[r] => wire[q] = wire[p]
    /\ \A p \in DOMAIN wire, i \in DOMAIN subs :
          subs[i].status = "pending" /\ subs[i].len > 0 => Ahead(wire[p], i)

\* A submission that was reported as done is on the wire, every unit of it,
\* and one with units that is owed is still held somewhere on the descriptor.
OkMeansSent ==
    \A i \in DOMAIN subs :
        /\ subs[i].status = "ok" /\ subs[i].life = life
              => Cardinality({p \in DOMAIN wire : wire[p] = i}) = subs[i].len
        /\ subs[i].status = "pending" /\ subs[i].len > 0 => i \in Carried(conn)

\* A send fails with an error of its own connection, never with one that the
\* descriptor's earlier occupant met.
NoForeignError ==
    \A i \in DOMAIN subs : subs[i].status = "failed" => subs[i].blame = subs[i].life

\* Every submission with units comes to an end: sent, failed, cancelled or
\* closed (there are finitely many, so that again and again none is owed).  An
\* empty file body need not: behind a write it is accepted and taken for none
\* (dyn_aio_sendfile), and its callback never runs.
EverySendSettles ==
    []<>(\A i \in DOMAIN subs : subs[i].len > 0 => subs[i].status # "pending")

=============================================================================
