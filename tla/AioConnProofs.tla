--------------------------- MODULE AioConnProofs ---------------------------
(***************************************************************************)
(* The connection slot of module AioConn, for any number of submissions,   *)
(* lives of the descriptor, lengths and size of the socket's buffer.       *)
(*                                                                         *)
(* The argument is in two halves.  The first puts every step of the model  *)
(* into one of six kinds (StepKinds): it leaves the write line aside, adds *)
(* a send or a file body to it, ends some of what is in it, takes a part   *)
(* of what is first, or closes the descriptor; and every step keeps the    *)
(* slot well formed (SlotInv).  The second looks only at the kinds: the    *)
(* queue keeps something in front of it (QueueInv), what was taken and     *)
(* what is owed make up what was submitted (LedgerInv), and what was taken *)
(* is ahead of what is owed (OrderInv).                                    *)
(***************************************************************************)
EXTENDS AioConn, FiniteSetTheorems, SequenceTheorems, WellFoundedInduction, TLAPS

\* A connection whose fields have their types; a queued send has something to
\* go, and a file body a submission.
Shaped(c) ==
    /\ c \in Conn
    /\ \A k \in DOMAIN c.w_q : c.w_q[k].len > 0
    /\ c.w_file.id = 0 => c.w_file = Idle

\* The write under way and the queue are in the order of submission, and what
\* is carried was submitted and is carried once.
InLine(c, n) ==
    /\ c.w.id <= n /\ c.w_file.id <= n
    /\ c.w.id = c.w_file.id => c.w.id = 0
    /\ \A k \in 1..Len(c.w_q) :
          /\ c.w.id < c.w_q[k].id /\ c.w_q[k].id <= n
          /\ c.w_q[k].id # c.w_file.id
    /\ \A k, l \in 1..Len(c.w_q) : k < l => c.w_q[k].id < c.w_q[l].id

\* A descriptor that the readiness loop does not know carries nothing.
Unwatched(c) ==
    ~c.active => /\ c.r_op = "none" /\ c.w = Idle /\ c.w_q = <<>>
                 /\ c.w_file = Idle

\* What it owes is watched for.
Covered(c) == Mask(c) \subseteq c.interest

\* Queued sends have something in front of them.
Front(c) == c.w_q # <<>> => c.w.left > 0 \/ c.w_file.left > 0

\* c carries submission i with m units to go; an empty file body is carried
\* and not owed.
Owes(c, i, m) ==
    \/ i # 0 /\ c.w.id = i /\ c.w.left = m
    \/ \E k \in 1..Len(c.w_q) : c.w_q[k].id = i /\ c.w_q[k].len = m
    \/ i # 0 /\ c.w_file.id = i /\ c.w_file.left = m /\ m # 0

\* Submission i is the file body that c owes.
FileIs(c, i) == c.w_file.id = i /\ c.w_file.left > 0

\* The submission that is next to send.
Turn(c) == IF c.w.left > 0 THEN c.w.id ELSE c.w_file.id

\* What c and d both owe is the same thing in both, and keeps its turn.
Kept(c, d) ==
    \A i, m, l : Owes(c, i, m) /\ Owes(d, i, l) =>
        /\ FileIs(d, i) <=> FileIs(c, i)
        /\ Turn(c) = i => Turn(d) = i

\* The slot as a whole, for n submissions and a socket in state s.
ConnOK(c, n, s) ==
    /\ Shaped(c) /\ InLine(c, n) /\ Unwatched(c)
    /\ IF s = "none" THEN c = Cleared ELSE Covered(c)

\* The descriptor's lives and its socket: a socket is opened
\* only while lives are left.
LifeOK ==
    /\ life \in 0..MaxLife
    /\ sock \in {"none", "connecting", "up", "broken"}
    /\ sock # "none" => life < MaxLife

\* The dispatch under way; the write stage has a write.
DispOK ==
    /\ disp \in [at : {"idle", "write", "wcb", "ecb", "rest", "fcb", "read"},
                 ev : SUBSET {READ, WRITE, ERROR}, life0 : 0..MaxLife, err : 0..MaxLife]
    /\ disp.at = "write" => conn.w.left > 0

\* The socket's buffer and what it has taken.
BufOK == room \in 0..Room /\ wire \in Seq(Id)

\* The submissions made so far.
SubsOK == subs \in Seq(Sub) /\ Len(subs) <= MaxSub

\* Everything that holds whatever is submitted and cancelled.
SlotInv == ConnOK(conn, Len(subs), sock) /\ LifeOK /\ DispOK /\ BufOK /\ SubsOK

\* Inside the error callback the queue may stand alone, but then nothing can
\* be sent any more.
QueueInv == Front(conn) \/ (disp.at = "ecb" /\ sock = "broken")

\* The units of submission i on the wire.
Sent(s, i) == Cardinality({p \in DOMAIN s : s[p] = i})

\* What the socket has taken of a submission and what the descriptor owes of
\* it make up its length; what is pending and has units is owed, and all that is
\* done was taken.
LedgerInv ==
    /\ \A i, m \in Nat : Owes(conn, i, m) =>
          /\ i \in DOMAIN subs /\ subs[i].status = "pending" /\ subs[i].life = life
          /\ Sent(wire, i) + m = subs[i].len
    /\ \A i \in DOMAIN subs : subs[i].status = "pending" /\ subs[i].len > 0
                                 => \E m \in Nat : Owes(conn, i, m)
    /\ \A i \in DOMAIN subs : subs[i].life <= life
    /\ \A i \in DOMAIN subs : subs[i].status = "ok" /\ subs[i].life = life
                                 => Sent(wire, i) = subs[i].len
    /\ \A p \in DOMAIN wire : wire[p] \in DOMAIN subs

\* The write under way was submitted before the file body, and so was every
\* queued send that is not marked with after_file.
FileOrder(c) ==
    c.w_file.left > 0 =>
        /\ c.w.id < c.w_file.id
        /\ \A k \in 1..Len(c.w_q) : c.w_q[k].after_file \/ c.w_q[k].id < c.w_file.id

\* b, the connection's first file body, comes before the sends that are marked,
\* and before or as the file body that is carried.
Marked(c, b) ==
    /\ c.w_file.left > 0 => b <= c.w_file.id
    /\ \A k \in 1..Len(c.w_q) : c.w_q[k].after_file => c.w_q[k].id > b

\* When no write is under way, all that is queued was submitted after b.
Parted(c, b) == c.w.left = 0 => \A k \in 1..Len(c.w_q) : c.w_q[k].id > b

\* b is a file body that was accepted for the present occupant, or, when there
\* was none, a number no submission has.
FirstFile(b) ==
    \/ b > MaxSub
    \/ b \in DOMAIN subs /\ subs[b].file /\ subs[b].status # "refused" /\ subs[b].life = life

\* What is owed as a file body is one, and only that.
KindOK == \A i, m \in Nat : Owes(conn, i, m) => (subs[i].file <=> FileIs(conn, i))

\* What is on the wire is ahead of what follows it and of what is owed; what is
\* there in part has its turn and is the last thing there.
WireOrder ==
    /\ \A p, q \in DOMAIN wire : p < q => Ahead(wire[p], wire[q])
    /\ \A p, q, r \in DOMAIN wire : p < q /\ q < r /\ wire[p] = wire[r] => wire[q] = wire[p]
    /\ \A i, m \in Nat : Owes(conn, i, m) =>
          \A p \in DOMAIN wire :
             /\ Ahead(wire[p], i)
             /\ wire[p] = i => /\ Turn(conn) = i
                               /\ \A q \in DOMAIN wire : p < q => wire[q] = i

\* The line of what is carried, with b the first file body.
LineInv(b) ==
    /\ FirstFile(b) /\ Marked(conn, b)
    /\ Parted(conn, b) \/ (disp.at = "ecb" /\ sock = "broken")

\* The order of what is carried and of what was taken.
OrderInv == FileOrder(conn) /\ KindOK /\ WireOrder /\ \E b \in Nat : LineInv(b)

-----------------------------------------------------------------------------
(* What steps do, without how *)

\* The socket has taken k more units of submission id.
Wired(id, k) ==
    /\ Len(wire') = Len(wire) + k
    /\ \A p \in 1..Len(wire) : wire'[p] = wire[p]
    /\ \A p \in (Len(wire) + 1)..(Len(wire) + k) : wire'[p] = id

\* Another submission, of which k units were taken at once; if it is pending
\* the rest is owed.
Submits(k, len, status, file) ==
    LET N == Len(subs) + 1
    IN /\ k \in Nat /\ len \in Nat /\ Wired(N, k)
       /\ Len(subs') = N /\ \A i \in 1..Len(subs) : subs'[i] = subs[i]
       /\ subs'[N].life = life /\ subs'[N].len = len /\ subs'[N].status = status
       /\ subs'[N].file = file
       /\ status = "pending" => k <= len /\ (len > 0 => k < len)
       /\ status = "ok" => k = len
       /\ k > 0 => /\ sock = "up" /\ conn.w.left = 0 /\ conn.w_file.left = 0
                   /\ file \/ conn.w_q = <<>>
       /\ UNCHANGED <<life, disp, sock>>
       /\ \A i, m : Owes(conn', i, m) <=>
             Owes(conn, i, m) \/ (status = "pending" /\ i = N /\ m = len - k /\ m # 0)
       /\ Kept(conn, conn')
       /\ status = "pending" /\ k < len =>
             /\ FileIs(conn', N) <=> file
             /\ k > 0 => Turn(conn') = N

\* The write, the queue and the file body stay.
Aside ==
    /\ conn'.w = conn.w /\ conn'.w_q = conn.w_q /\ conn'.w_file = conn.w_file
    /\ UNCHANGED <<life, wire, subs>>
    /\ disp.at = "ecb" => disp'.at = "ecb" /\ (sock = "broken" => sock' = "broken")

\* Submission j comes before everything that is owed, but for what a file body
\* may pass.
Leads(j, b) ==
    \A i, m : Owes(conn, i, m) =>
        j <= i \/ (FileIs(conn, j) /\ ~FileIs(conn, i) /\ i > b)

\* The socket is sending from submission j.
Sends(j) ==
    /\ disp.at # "ecb" /\ Turn(conn) = j
    /\ \A b \in Nat : FileOrder(conn) /\ Parted(conn, b) => Leads(j, b)

\* Some submissions are over and no longer owed; if they are done, it is one,
\* and the socket has taken the rest of it.
Ends(ids, j, k, status) ==
    /\ k \in Nat /\ Wired(j, k) /\ UNCHANGED life
    /\ Len(subs') = Len(subs)
    /\ \A i \in 1..Len(subs) :
          /\ i \in ids => subs'[i].status = status
          /\ i \notin ids => subs'[i] = subs[i]
          /\ subs'[i].life = subs[i].life /\ subs'[i].len = subs[i].len
          /\ subs'[i].file = subs[i].file
    /\ \A i, m : Owes(conn', i, m) => Owes(conn, i, m) /\ i \notin ids
    /\ \A i, m : Owes(conn, i, m) /\ i \notin ids => \E l : Owes(conn', i, l)
    /\ Kept(conn, conn')
    /\ status \notin {"pending", "refused"}
    /\ IF status = "ok" THEN ids = {j} /\ Owes(conn, j, k) ELSE k = 0
    /\ k > 0 => Sends(j)

\* The socket takes k units of a submission that has more to go.
Blocks(j, k, left) ==
    /\ k \in Nat /\ left \in Nat /\ k < left /\ Wired(j, k) /\ UNCHANGED <<life, subs>>
    /\ Owes(conn, j, left) /\ Sends(j)
    /\ \A i, m : Owes(conn', i, m) <=> (i # j /\ Owes(conn, i, m)) \/ (i = j /\ m = left - k)
    /\ Kept(conn, conn')

\* What such steps keep of the line.
LineKept ==
    /\ QueueInv /\ ~FileCancel => QueueInv'
    /\ FileOrder(conn) => FileOrder(conn')
    /\ \A b \in Nat : Marked(conn, b) =>
          /\ Marked(conn', b)
          /\ Parted(conn, b) \/ (disp.at = "ecb" /\ sock = "broken")
                => Parted(conn', b) \/ (disp'.at = "ecb" /\ sock' = "broken")

\* The descriptor is closed: all it carried is over, and the next life begins.
Closes ==
    /\ conn' = Cleared /\ sock' = "none" /\ life' = life + 1 /\ wire' = <<>> /\ UNCHANGED disp
    /\ Len(subs') = Len(subs)
    /\ \A i \in 1..Len(subs) :
          /\ i \in Carried(conn) => subs'[i].status \in {"reset", "dropped"}
          /\ i \notin Carried(conn) => subs'[i] = subs[i]
          /\ subs'[i].life = subs[i].life /\ subs'[i].len = subs[i].len
          /\ subs'[i].file = subs[i].file

\* The fields of a connection after one of them is set.
LEMMA SetFields ==
    ASSUME NEW c \in Conn
    PROVE  /\ \A x \in Write : LET d == [c EXCEPT !.w = x] IN
                 /\ d \in Conn /\ d.w = x /\ d.w_q = c.w_q /\ d.w_file = c.w_file
                 /\ d.r_op = c.r_op /\ d.r_multishot = c.r_multishot /\ d.active = c.active
                 /\ d.interest = c.interest
           /\ \A x \in Transfer : LET d == [c EXCEPT !.w_file = x] IN
                 /\ d \in Conn /\ d.w = c.w /\ d.w_q = c.w_q /\ d.w_file = x
                 /\ d.r_op = c.r_op /\ d.r_multishot = c.r_multishot /\ d.active = c.active
                 /\ d.interest = c.interest
           /\ \A x \in Seq(Node) : LET d == [c EXCEPT !.w_q = x] IN
                 /\ d \in Conn /\ d.w = c.w /\ d.w_q = x /\ d.w_file = c.w_file
                 /\ d.r_op = c.r_op /\ d.r_multishot = c.r_multishot /\ d.active = c.active
                 /\ d.interest = c.interest
           /\ \A x \in SUBSET {READ, WRITE} : LET d == [c EXCEPT !.interest = x] IN
                 /\ d \in Conn /\ d.w = c.w /\ d.w_q = c.w_q /\ d.w_file = c.w_file
                 /\ d.r_op = c.r_op /\ d.r_multishot = c.r_multishot /\ d.active = c.active
                 /\ d.interest = x
BY DEF Conn

\* What the fields of a connection range over.
LEMMA FieldTypes ==
    ASSUME NEW c \in Conn
    PROVE  /\ c.w \in Write /\ c.w_q \in Seq(Node) /\ c.w_file \in Transfer
           /\ c.w.id \in Nat /\ c.w.left \in Nat /\ c.w_file.id \in Nat /\ c.w_file.left \in Nat
           /\ c.w.left = 0 <=> c.w = Idle
           /\ c.w.id = 0 <=> c.w = Idle
           /\ Len(c.w_q) \in Nat
           /\ \A k \in 1..Len(c.w_q) : /\ c.w_q[k] \in Node /\ c.w_q[k].id \in Id /\ c.w_q[k].id \in Nat
                                       /\ c.w_q[k].len \in Nat /\ c.w_q[k].after_file \in BOOLEAN
           /\ c.r_op \in {"none", "recv", "connect"} /\ c.active \in BOOLEAN
           /\ c.interest \in SUBSET {READ, WRITE}
           /\ Idle \in Write /\ Idle \in Transfer /\ Idle.id = 0 /\ Idle.left = 0
<1>1. c.w \in Write /\ c.w_q \in Seq(Node) /\ c.w_file \in Transfer
  BY DEF Conn
<1>2. c.r_op \in {"none", "recv", "connect"} /\ c.active \in BOOLEAN /\ c.interest \in SUBSET {READ, WRITE}
  BY DEF Conn
<1>3. /\ c.w.id \in Nat /\ c.w.left \in Nat
      /\ c.w.left = 0 <=> c.w = Idle
      /\ c.w.id = 0 <=> c.w = Idle
  BY <1>1, BoundAssumption DEF Write, Idle, Id
<1>4. c.w_file.id \in Nat /\ c.w_file.left \in Nat
  BY <1>1, BoundAssumption DEF Transfer
<1>5. Idle \in Write /\ Idle \in Transfer /\ Idle.id = 0 /\ Idle.left = 0
  BY BoundAssumption DEF Write, Transfer, Idle
<1>6. Len(c.w_q) \in Nat /\ \A k \in 1..Len(c.w_q) : c.w_q[k] \in Node
  BY <1>1
<1>7. \A x \in Node : x.id \in Id /\ x.id \in Nat /\ x.len \in Nat /\ x.after_file \in BOOLEAN
  BY BoundAssumption DEF Node, Id
<1>8. QED
  BY <1>1, <1>2, <1>3, <1>4, <1>5, <1>6, <1>7

\* What is said of the write, the queue and the file does not depend on the
\* other fields.
LEMMA OtherFields ==
    ASSUME NEW c, NEW d, d.w = c.w, d.w_q = c.w_q, d.w_file = c.w_file
    PROVE  /\ \A n : InLine(c, n) => InLine(d, n)
           /\ Front(c) => Front(d)
           /\ \A i, m : Owes(c, i, m) <=> Owes(d, i, m)
           /\ FileOrder(c) => FileOrder(d)
           /\ \A b : Marked(c, b) => Marked(d, b)
           /\ \A b : Parted(c, b) => Parted(d, b)
           /\ \A e : Kept(e, c) => Kept(e, d)
<1>1. \A i, m : Owes(c, i, m) <=> Owes(d, i, m)
  BY DEF Owes
<1>2. Turn(c) = Turn(d) /\ \A i : FileIs(c, i) <=> FileIs(d, i)
  BY DEF Turn, FileIs
<1>3. \A e : Kept(e, c) => Kept(e, d)
  BY <1>1, <1>2 DEF Kept
<1>4. QED
  BY <1>1, <1>3 DEF InLine, Front, FileOrder, Marked, Parted

\* What is owed is carried and has units to go.
LEMMA OwedIsCarried ==
    ASSUME NEW c, Shaped(c), NEW i, NEW m, Owes(c, i, m)
    PROVE  i \in Carried(c) /\ i \in Nat \ {0} /\ m \in Nat \ {0}
<1>1. /\ DOMAIN c.w_q = 1..Len(c.w_q) /\ c.w.left \in Nat /\ c.w_file.left \in Nat
      /\ c.w.id \in Nat /\ c.w_file.id \in Nat /\ (c.w.left = 0 <=> c.w.id = 0)
      /\ \A k \in 1..Len(c.w_q) : /\ c.w_q[k].len \in Nat /\ c.w_q[k].len # 0
                                  /\ c.w_q[k].id # 0 /\ c.w_q[k].id \in Nat
  BY FieldTypes, BoundAssumption DEF Shaped, Id
<1>2. CASE i # 0 /\ c.w.id = i /\ c.w.left = m
  BY <1>1, <1>2 DEF Carried
<1>3. CASE \E k \in 1..Len(c.w_q) : c.w_q[k].id = i /\ c.w_q[k].len = m
  BY <1>1, <1>3 DEF Carried, Queued
<1>4. CASE i # 0 /\ c.w_file.id = i /\ c.w_file.left = m /\ m # 0
  BY <1>1, <1>4 DEF Carried
<1>5. QED
  BY <1>2, <1>3, <1>4 DEF Owes

\* An empty file body is not owed, whatever its submission.
LEMMA EmptyNotOwed ==
    ASSUME NEW c, Shaped(c), NEW n, InLine(c, n), c.w_file.left = 0, NEW m
    PROVE  ~Owes(c, c.w_file.id, m)
BY DEF InLine, Owes

\* A slot whose write and file body stay in place.
LEMMA KeptInPlace ==
    ASSUME NEW c, NEW d, d.w.id = c.w.id, d.w.left > 0 <=> c.w.left > 0,
           d.w_file.id = c.w_file.id, d.w_file.left > 0 <=> c.w_file.left > 0
    PROVE  Kept(c, d)
BY DEF Kept, Turn, FileIs

\* A slot that no longer owes what had its turn.
LEMMA KeptAfterTurn ==
    ASSUME NEW c, NEW d, \A m : ~Owes(d, Turn(c), m), d.w_file = c.w_file \/ d.w_file.left = 0,
           c.w.left > 0 \/ d.w_file.left = 0, c.w.left > 0 => d.w_file = c.w_file
    PROVE  Kept(c, d)
BY DEF Kept, Turn, FileIs

\* A slot whose queue is part of another's.
LEMMA QueuePart ==
    ASSUME NEW c, NEW d, \A k \in 1..Len(d.w_q) : \E l \in 1..Len(c.w_q) : d.w_q[k] = c.w_q[l],
           d.w_file.left > 0 => d.w_file.id = c.w_file.id /\ c.w_file.left > 0, NEW b
    PROVE  /\ Marked(c, b) => Marked(d, b)
           /\ Parted(c, b) /\ c.w.left = 0 => Parted(d, b)
BY DEF Marked, Parted

\* aio_apply_interest makes the interest cover what is owed and changes
\* nothing else.
LEMMA InterestApplied ==
    ASSUME NEW c, Shaped(c)
    PROVE  LET d == aio_apply_interest(c) IN
           /\ Shaped(d) /\ Covered(d) /\ d.interest = Mask(c)
           /\ d.w = c.w /\ d.w_q = c.w_q /\ d.w_file = c.w_file
           /\ d.r_op = c.r_op /\ d.active = c.active
<1> DEFINE d == aio_apply_interest(c)
<1>1. c \in Conn
  BY DEF Shaped
<1>2. Mask(c) \in SUBSET {READ, WRITE}
  BY DEF Mask
<1>3. /\ d \in Conn /\ d.w = c.w /\ d.w_q = c.w_q /\ d.w_file = c.w_file
      /\ d.r_op = c.r_op /\ d.active = c.active /\ d.interest = Mask(c)
  BY <1>1, <1>2, SetFields DEF aio_apply_interest
<1>4. Mask(d) = Mask(c)
  BY <1>3 DEF Mask
<1>5. Covered(d)
  BY <1>3, <1>4 DEF Covered
<1>6. Shaped(d)
  <2> HIDE DEF d
  <2> QED  BY <1>3 DEF Shaped
<1>7. QED
  BY <1>3, <1>5, <1>6

\* The queue after its first element is taken.
LEMMA TailOfQueue ==
    ASSUME NEW q \in Seq(Node), q # <<>>
    PROVE  /\ Tail(q) \in Seq(Node) /\ Len(q) \in Nat \ {0} /\ Len(Tail(q)) = Len(q) - 1
           /\ Head(q) = q[1] /\ Head(q) \in Node
           /\ \A k \in 1..Len(Tail(q)) : k + 1 \in 1..Len(q) /\ Tail(q)[k] = q[k + 1]
           /\ \A k \in 1..Len(q) : k # 1 => k - 1 \in 1..Len(Tail(q)) /\ Tail(q)[k - 1] = q[k]
OBVIOUS

\* aio_wq_promote takes nothing or the head of the queue; d.w_q is then the
\* tail of it.
Promoted(c, d) ==
    /\ c.w = Idle /\ c.w_q # <<>>
    /\ ~(Head(c.w_q).after_file /\ c.w_file.left > 0)
    /\ d.w = [id |-> Head(c.w_q).id, left |-> Head(c.w_q).len]
    /\ d.w_q = Tail(c.w_q) /\ d.w_file = c.w_file
    /\ d.r_op = c.r_op /\ d.active = c.active /\ d.interest = c.interest

\* aio_wq_promote leaves the slot as it is, or the head of the queue becomes
\* the write under way.
LEMMA PromoteCases ==
    ASSUME NEW c, Shaped(c)
    PROVE  LET d == aio_wq_promote(c) IN
           /\ Shaped(d)
           /\ \/ /\ d = c
                 /\ c.w_q = <<>> \/ c.w.left > 0 \/ (Head(c.w_q).after_file /\ c.w_file.left > 0)
              \/ Promoted(c, d)
<1> DEFINE d == aio_wq_promote(c)
<1>1. c \in Conn
  BY DEF Shaped
<1> DEFINE Stays == c.w_q = <<>> \/ c.w.left > 0 \/ (Head(c.w_q).after_file /\ c.w_file.left > 0)
<1>2. CASE Stays
  BY <1>2 DEF aio_wq_promote
<1>3. CASE ~Stays
  <2> DEFINE x == [id |-> Head(c.w_q).id, left |-> Head(c.w_q).len]
             e == [c EXCEPT !.w = x]
  <2>1. c.w_q \in Seq(Node) /\ c.w_q # <<>> /\ c.w = Idle
    BY <1>1, <1>3, FieldTypes
  <2>2. 1 \in DOMAIN c.w_q /\ Head(c.w_q) = c.w_q[1] /\ Head(c.w_q) \in Node
    BY <2>1, TailOfQueue
  <2>3. x \in Write
    <3>1. Head(c.w_q).len > 0
      BY <2>2 DEF Shaped
    <3>2. Head(c.w_q).id \in Id /\ Head(c.w_q).len \in Nat \ {0}
      BY <2>2, <3>1 DEF Node
    <3>3. QED  BY <3>2 DEF Write
  <2>4. /\ e \in Conn /\ e.w = x /\ e.w_q = c.w_q /\ e.w_file = c.w_file
        /\ e.r_op = c.r_op /\ e.active = c.active /\ e.interest = c.interest
    BY <1>1, <2>3, SetFields
  <2>5. d = [e EXCEPT !.w_q = Tail(c.w_q)]
    BY <1>3, <1>1 DEF aio_wq_promote, Conn
  <2>6. /\ d \in Conn /\ d.w = x /\ d.w_q = Tail(c.w_q) /\ d.w_file = c.w_file
        /\ d.r_op = c.r_op /\ d.active = c.active /\ d.interest = c.interest
    <3> HIDE DEF e, x, d
    <3>1. Tail(c.w_q) \in Seq(Node)
      BY <2>1, TailOfQueue
    <3>2. QED  BY <2>4, <2>5, <3>1, SetFields
  <2>7. Shaped(d)
    <3> HIDE DEF d
    <3> SUFFICES ASSUME NEW k \in DOMAIN d.w_q PROVE d.w_q[k].len > 0
      BY <2>6 DEF Shaped
    <3>1. k \in 1..Len(Tail(c.w_q)) /\ Tail(c.w_q)[k] = c.w_q[k + 1] /\ k + 1 \in DOMAIN c.w_q
      BY <2>1, <2>6, TailOfQueue
    <3>2. QED  BY <3>1, <2>6 DEF Shaped
  <2>8. Promoted(c, d)
    <3> HIDE DEF d
    <3> QED  BY <1>3, <2>1, <2>6 DEF Promoted
  <2>9. QED  BY <2>7, <2>8
<1>4. QED
  BY <1>2, <1>3

\* aio_wq_promote leaves the line as it is, and with something in front.
LEMMA PromoteKeeps ==
    ASSUME NEW c, Shaped(c)
    PROVE  LET d == aio_wq_promote(c) IN
           /\ Shaped(d) /\ Front(d)
           /\ d.r_op = c.r_op /\ d.active = c.active /\ d.w_file = c.w_file
           /\ \A n : InLine(c, n) => InLine(d, n)
           /\ \A i, m : Owes(d, i, m) <=> Owes(c, i, m)
           /\ \A n : FileOrder(c) /\ InLine(c, n) => FileOrder(d)
           /\ \A n, b : b \in Nat /\ InLine(c, n) /\ Marked(c, b) => Parted(d, b)
           /\ Unwatched(c) => Unwatched(d)
           /\ \A k \in 1..Len(d.w_q) : \E l \in 1..Len(c.w_q) : d.w_q[k] = c.w_q[l]
<1> DEFINE d == aio_wq_promote(c)
<1>0. c \in Conn /\ c.w_q \in Seq(Node) /\ c.w.left \in Nat
  BY FieldTypes DEF Shaped
<1>1. Shaped(d)
  BY PromoteCases
<1>2. CASE /\ d = c
           /\ c.w_q = <<>> \/ c.w.left > 0 \/ (Head(c.w_q).after_file /\ c.w_file.left > 0)
  <2> HIDE DEF d
  <2>1. Front(c)
    BY <1>2 DEF Front
  <2>2. ASSUME NEW n, NEW b \in Nat, InLine(c, n), Marked(c, b) PROVE Parted(c, b)
    <3> SUFFICES ASSUME c.w.left = 0, NEW k \in 1..Len(c.w_q)
                 PROVE  c.w_q[k].id > b
      BY DEF Parted
    <3>1. c.w_q # <<>> /\ c.w_q[1].after_file /\ 1 \in 1..Len(c.w_q)
      BY <1>0, <1>2, TailOfQueue
    <3>2. c.w_q[1].id > b
      BY <3>1, <2>2 DEF Marked
    <3>3. c.w_q[k].id >= c.w_q[1].id
      BY <3>1, <2>2, <1>0, FieldTypes DEF InLine
    <3>4. QED
      BY <3>1, <3>2, <3>3, <1>0, FieldTypes
  <2>3. QED
    BY <1>2, <1>1, <2>1, <2>2 DEF d
<1>3. CASE Promoted(c, d)
  <2> HIDE DEF d
  <2> DEFINE q == c.w_q
             h == Head(c.w_q)
  <2>1. /\ c.w = Idle /\ q \in Seq(Node) /\ q # <<>> /\ h = q[1] /\ h \in Node /\ Len(q) \in Nat \ {0}
        /\ d.w.id = h.id /\ d.w.left = h.len /\ d.w_q = Tail(q) /\ d.w_file = c.w_file
        /\ Len(d.w_q) = Len(q) - 1
        /\ d.r_op = c.r_op /\ d.active = c.active /\ 1 \in 1..Len(q)
    BY <1>0, <1>3, TailOfQueue DEF Promoted
  <2>2. /\ \A k \in 1..Len(d.w_q) : k + 1 \in 1..Len(q) /\ d.w_q[k] = q[k + 1]
        /\ \A k \in 1..Len(q) : k # 1 => k - 1 \in 1..Len(d.w_q) /\ d.w_q[k - 1] = q[k]
    BY <2>1, TailOfQueue
  <2>3. h.len > 0 /\ h.id \in Nat /\ h.id # 0 /\ h.len \in Nat
    BY <2>1, <1>0, BoundAssumption DEF Shaped, Node, Id
  <2>4. c.w.id = 0 /\ c.w.left = 0
    BY <2>1 DEF Idle
  <2>4a. \A k \in 1..Len(q) : q[k].id \in Nat /\ q[k].id # 0
    BY <1>0, FieldTypes, BoundAssumption DEF Id
  <2>4b. c.w_file.id \in Nat /\ c.w_file.left \in Nat
    BY <1>0, FieldTypes
  <2> HIDE DEF h, q
  <2>5. Front(d)
    BY <2>1, <2>3 DEF Front
  <2>6. ASSUME NEW n, InLine(c, n) PROVE InLine(d, n)
    <3>1. /\ \A k \in 1..Len(q) : q[k].id <= n /\ q[k].id # c.w_file.id
          /\ \A k, l \in 1..Len(q) : k < l => q[k].id < q[l].id
          /\ c.w_file.id <= n
      BY <2>6 DEF InLine, q
    <3>2. d.w.id <= n /\ d.w_file.id <= n /\ d.w.id # d.w_file.id
      BY <2>1, <3>1
    <3>3. ASSUME NEW k \in 1..Len(d.w_q)
          PROVE  d.w.id < d.w_q[k].id /\ d.w_q[k].id <= n /\ d.w_q[k].id # d.w_file.id
      <4>1. k + 1 \in 1..Len(q) /\ d.w_q[k] = q[k + 1] /\ 1 < k + 1
        BY <2>2, <2>1
      <4>2. QED  BY <4>1, <3>1, <2>1
    <3>4. ASSUME NEW k \in 1..Len(d.w_q), NEW l \in 1..Len(d.w_q), k < l
          PROVE  d.w_q[k].id < d.w_q[l].id
      <4>1. k + 1 \in 1..Len(q) /\ l + 1 \in 1..Len(q) /\ k + 1 < l + 1
        BY <2>2, <2>1, <3>4
      <4>2. QED  BY <4>1, <3>1, <2>2
    <3>5. QED  BY <3>2, <3>3, <3>4 DEF InLine
  <2>7. ASSUME NEW i, NEW m PROVE Owes(d, i, m) <=> Owes(c, i, m)
    <3>1. ASSUME Owes(d, i, m) PROVE Owes(c, i, m)
      <4>1. CASE i # 0 /\ d.w.id = i /\ d.w.left = m
        BY <4>1, <2>1 DEF Owes, q
      <4>2. CASE \E k \in 1..Len(d.w_q) : d.w_q[k].id = i /\ d.w_q[k].len = m
        BY <4>2, <2>2 DEF Owes, q
      <4>3. CASE i # 0 /\ d.w_file.id = i /\ d.w_file.left = m /\ m # 0
        BY <4>3, <2>1 DEF Owes
      <4>4. QED  BY <3>1, <4>1, <4>2, <4>3 DEF Owes
    <3>2. ASSUME Owes(c, i, m) PROVE Owes(d, i, m)
      <4>1. CASE \E k \in 1..Len(q) : q[k].id = i /\ q[k].len = m
        <5> PICK k \in 1..Len(q) : q[k].id = i /\ q[k].len = m
          BY <4>1
        <5>1. CASE k = 1
          BY <5>1, <2>1, <2>3 DEF Owes
        <5>2. CASE k # 1
          BY <5>2, <2>2 DEF Owes
        <5>3. QED  BY <5>1, <5>2
      <4>2. CASE i # 0 /\ c.w_file.id = i /\ c.w_file.left = m /\ m # 0
        BY <4>2, <2>1 DEF Owes
      <4>3. QED  BY <3>2, <4>1, <4>2, <2>4 DEF Owes, q
    <3>3. QED  BY <3>1, <3>2
  <2>8. ASSUME NEW n, FileOrder(c), InLine(c, n) PROVE FileOrder(d)
    <3> SUFFICES ASSUME d.w_file.left > 0
                 PROVE  /\ d.w.id < d.w_file.id
                        /\ \A k \in 1..Len(d.w_q) :
                              d.w_q[k].after_file \/ d.w_q[k].id < d.w_file.id
      BY DEF FileOrder
    <3>1. \A k \in 1..Len(q) : q[k].after_file \/ q[k].id < c.w_file.id
      BY <2>8, <2>1 DEF FileOrder, q
    <3>2. ~q[1].after_file
      BY <1>3, <2>1 DEF Promoted, h
    <3>3. q[1].id < c.w_file.id
      BY <3>1, <3>2, <2>1
    <3>4. QED
      BY <3>1, <3>3, <2>1, <2>2
  <2>9. ASSUME NEW b PROVE Parted(d, b)
    BY <2>1, <2>3 DEF Parted
  <2>10. Unwatched(c) => Unwatched(d)
    BY <2>1 DEF Unwatched, q
  <2>11. \A k \in 1..Len(d.w_q) : \E l \in 1..Len(c.w_q) : d.w_q[k] = c.w_q[l]
    BY <2>2 DEF q
  <2>12. QED
    BY <1>1, <2>1, <2>5, <2>6, <2>7, <2>8, <2>9, <2>10, <2>11 DEF d
<1>4. QED
  BY <1>2, <1>3, PromoteCases

\* The write under way is replaced: by none, or by one of the same submission
\* with less to go.
LEMMA WriteReplaced ==
    ASSUME NEW c, Shaped(c), NEW x \in Write, x.id \in {0, c.w.id}
    PROVE  LET d == [c EXCEPT !.w = x] IN
           /\ Shaped(d) /\ d.w = x /\ d.w_q = c.w_q /\ d.w_file = c.w_file
           /\ d.r_op = c.r_op /\ d.active = c.active /\ d.interest = c.interest
           /\ \A n \in Nat : InLine(c, n) =>
                 /\ InLine(d, n)
                 /\ \A i, m : Owes(d, i, m) <=>
                       \/ Owes(c, i, m) /\ i # c.w.id
                       \/ i # 0 /\ i = x.id /\ m = x.left
           /\ FileOrder(c) => FileOrder(d)
           /\ Unwatched(c) => Unwatched(d)
<1> DEFINE d == [c EXCEPT !.w = x]
<1>1. c \in Conn
  BY DEF Shaped
<1>2. /\ d \in Conn /\ d.w = x /\ d.w_q = c.w_q /\ d.w_file = c.w_file
      /\ d.r_op = c.r_op /\ d.active = c.active /\ d.interest = c.interest
  BY <1>1, SetFields
<1>3. x.id \in Nat /\ x.left \in Nat /\ (x.id = 0 => x = Idle) /\ c.w.id \in Nat /\ c.w_file.id \in Nat
  BY <1>1, FieldTypes, BoundAssumption DEF Write, Idle, Id
<1>4. \A k \in 1..Len(c.w_q) : c.w_q[k].id \in Nat /\ c.w_q[k].id # 0
  BY <1>1, FieldTypes, BoundAssumption DEF Id
<1> HIDE DEF d
<1>5. Shaped(d)
  BY <1>2 DEF Shaped
<1>6. ASSUME NEW n \in Nat, InLine(c, n) PROVE InLine(d, n)
  BY <1>2, <1>3, <1>4, <1>6 DEF InLine
<1>7. ASSUME NEW n \in Nat, InLine(c, n), NEW i, NEW m
      PROVE  Owes(d, i, m) <=> \/ Owes(c, i, m) /\ i # c.w.id
                               \/ i # 0 /\ i = x.id /\ m = x.left
  <2>1. /\ \A k \in 1..Len(c.w_q) : c.w_q[k].id # c.w.id
        /\ c.w_file.id = c.w.id => c.w.id = 0
    BY <1>3, <1>4, <1>7 DEF InLine
  <2>2. QED
    BY <1>2, <1>3, <1>4, <2>1 DEF Owes
<1>8. FileOrder(c) => FileOrder(d)
  BY <1>2, <1>3 DEF FileOrder
<1>9. Unwatched(c) => Unwatched(d)
  BY <1>2, <1>3 DEF Unwatched, Idle
<1>10. QED
  BY <1>2, <1>5, <1>6, <1>7, <1>8, <1>9 DEF d

\* The file body is replaced in the same way.
LEMMA FileReplaced ==
    ASSUME NEW c, Shaped(c), NEW x \in Transfer, x.id \in {0, c.w_file.id}, x.id = 0 => x = Idle
    PROVE  LET d == [c EXCEPT !.w_file = x] IN
           /\ Shaped(d) /\ d.w = c.w /\ d.w_q = c.w_q /\ d.w_file = x
           /\ d.r_op = c.r_op /\ d.active = c.active /\ d.interest = c.interest
           /\ \A n \in Nat : InLine(c, n) =>
                 /\ InLine(d, n)
                 /\ \A i, m : Owes(d, i, m) <=>
                       \/ Owes(c, i, m) /\ i # c.w_file.id
                       \/ i # 0 /\ i = x.id /\ m = x.left /\ m # 0
           /\ x = Idle => FileOrder(d)
           /\ \A b : Parted(c, b) => Parted(d, b)
           /\ Unwatched(c) => Unwatched(d)
<1> DEFINE d == [c EXCEPT !.w_file = x]
<1>1. c \in Conn
  BY DEF Shaped
<1>2. /\ d \in Conn /\ d.w = c.w /\ d.w_q = c.w_q /\ d.w_file = x
      /\ d.r_op = c.r_op /\ d.active = c.active /\ d.interest = c.interest
  BY <1>1, SetFields
<1>3. x.id \in Nat /\ x.left \in Nat /\ c.w.id \in Nat /\ c.w_file.id \in Nat /\ Idle.id = 0 /\ Idle.left = 0
  BY <1>1, FieldTypes, BoundAssumption DEF Transfer
<1>4. \A k \in 1..Len(c.w_q) : c.w_q[k].id \in Nat /\ c.w_q[k].id # 0
  BY <1>1, FieldTypes, BoundAssumption DEF Id
<1> HIDE DEF d
<1>5. Shaped(d)
  BY <1>2 DEF Shaped
<1>6. ASSUME NEW n \in Nat, InLine(c, n) PROVE InLine(d, n)
  BY <1>2, <1>3, <1>4, <1>6 DEF InLine
<1>7. ASSUME NEW n \in Nat, InLine(c, n), NEW i, NEW m
      PROVE  Owes(d, i, m) <=> \/ Owes(c, i, m) /\ i # c.w_file.id
                               \/ i # 0 /\ i = x.id /\ m = x.left /\ m # 0
  <2>1. /\ \A k \in 1..Len(c.w_q) : c.w_q[k].id # c.w_file.id
        /\ c.w_file.id = c.w.id => c.w.id = 0
    BY <1>3, <1>4, <1>7 DEF InLine
  <2>2. QED
    BY <1>2, <1>3, <1>4, <2>1 DEF Owes
<1>8. (x = Idle => FileOrder(d)) /\ \A b : Parted(c, b) => Parted(d, b)
  BY <1>2, <1>3 DEF FileOrder, Parted
<1>9. Unwatched(c) => Unwatched(d)
  BY <1>2, <1>3 DEF Unwatched, Idle
<1>10. QED
  BY <1>2, <1>5, <1>6, <1>7, <1>8, <1>9 DEF d

\* A write that ends makes room for the next: what dispatch and cancel do.
LEMMA WriteEnded ==
    ASSUME NEW c, Shaped(c), NEW n \in Nat, InLine(c, n)
    PROVE  LET d == aio_wq_promote([c EXCEPT !.w = Idle]) IN
           /\ Shaped(d) /\ InLine(d, n) /\ Front(d)
           /\ d.r_op = c.r_op /\ d.active = c.active /\ d.w_file = c.w_file
           /\ Unwatched(c) => Unwatched(d)
           /\ \A i, m : Owes(d, i, m) <=> Owes(c, i, m) /\ i # c.w.id
           /\ FileOrder(c) => FileOrder(d)
           /\ \A b \in Nat : Marked(c, b) => Marked(d, b) /\ Parted(d, b)
           /\ \A k \in 1..Len(d.w_q) : \E l \in 1..Len(c.w_q) : d.w_q[k] = c.w_q[l]
<1> DEFINE e == [c EXCEPT !.w = Idle]
<1>1. Idle \in Write /\ Idle.id = 0
  BY FieldTypes DEF Shaped
<1>2. /\ Shaped(e) /\ InLine(e, n) /\ e.w_q = c.w_q /\ e.w_file = c.w_file
      /\ e.r_op = c.r_op /\ e.active = c.active
      /\ Unwatched(c) => Unwatched(e)
      /\ \A i, m : Owes(e, i, m) <=> Owes(c, i, m) /\ i # c.w.id
      /\ FileOrder(c) => FileOrder(e)
  BY <1>1, WriteReplaced
<1> HIDE DEF e
<1> DEFINE f == aio_wq_promote(e)
<1>3. /\ Shaped(f) /\ Front(f) /\ f.w_file = e.w_file
      /\ f.r_op = e.r_op /\ f.active = e.active
      /\ InLine(e, n) => InLine(f, n)
      /\ Unwatched(e) => Unwatched(f)
      /\ \A i, m : Owes(f, i, m) <=> Owes(e, i, m)
      /\ FileOrder(e) /\ InLine(e, n) => FileOrder(f)
      /\ \A b \in Nat : InLine(e, n) /\ Marked(e, b) => Parted(f, b)
      /\ \A k \in 1..Len(f.w_q) : \E l \in 1..Len(e.w_q) : f.w_q[k] = e.w_q[l]
  BY <1>2, PromoteKeeps
<1>4. f = aio_wq_promote([c EXCEPT !.w = Idle])
  BY DEF e
<1> HIDE DEF f
<1>5. ASSUME NEW b \in Nat, Marked(c, b) PROVE Marked(f, b) /\ Parted(f, b)
  <2>1. Marked(e, b)
    BY <1>2, <1>5 DEF Marked
  <2>2. Marked(f, b)
    BY <1>3, <2>1, QueuePart
  <2>3. QED  BY <1>2, <1>3, <2>1, <2>2
<1>6. QED
  BY <1>2, <1>3, <1>4, <1>5

\* A file body that ends does too.
LEMMA FileEnded ==
    ASSUME NEW c, Shaped(c), NEW n \in Nat, InLine(c, n)
    PROVE  LET d == aio_file_done(c) IN
           /\ Shaped(d) /\ InLine(d, n) /\ Front(d) /\ Covered(d)
           /\ d.r_op = c.r_op /\ d.active = c.active /\ d.w_file = Idle
           /\ Unwatched(c) => Unwatched(d)
           /\ \A i, m : Owes(d, i, m) <=> Owes(c, i, m) /\ i # c.w_file.id
           /\ FileOrder(d)
           /\ \A b \in Nat : Marked(c, b) => Marked(d, b) /\ Parted(d, b)
           /\ \A k \in 1..Len(d.w_q) : \E l \in 1..Len(c.w_q) : d.w_q[k] = c.w_q[l]
<1> DEFINE e == [c EXCEPT !.w_file = Idle]
           f == aio_wq_promote(e)
           d == aio_apply_interest(f)
<1>1. Idle \in Transfer /\ Idle.id = 0
  BY FieldTypes DEF Shaped
<1>2. /\ Shaped(e) /\ InLine(e, n) /\ e.w_q = c.w_q /\ e.w_file = Idle
      /\ e.r_op = c.r_op /\ e.active = c.active
      /\ Unwatched(c) => Unwatched(e)
      /\ \A i, m : Owes(e, i, m) <=> Owes(c, i, m) /\ i # c.w_file.id
      /\ FileOrder(e)
  BY <1>1, FileReplaced
<1> HIDE DEF e
<1>3. /\ Shaped(f) /\ InLine(f, n) /\ Front(f) /\ f.w_file = Idle
      /\ f.r_op = c.r_op /\ f.active = c.active
      /\ Unwatched(c) => Unwatched(f)
      /\ \A i, m : Owes(f, i, m) <=> Owes(c, i, m) /\ i # c.w_file.id
      /\ FileOrder(f)
      /\ \A b \in Nat : Marked(c, b) => Marked(f, b) /\ Parted(f, b)
      /\ \A k \in 1..Len(f.w_q) : \E l \in 1..Len(c.w_q) : f.w_q[k] = c.w_q[l]
  <2>1. /\ Shaped(f) /\ Front(f) /\ f.w_file = e.w_file
        /\ f.r_op = e.r_op /\ f.active = e.active
        /\ InLine(e, n) => InLine(f, n)
        /\ Unwatched(e) => Unwatched(f)
        /\ \A i, m : Owes(f, i, m) <=> Owes(e, i, m)
        /\ FileOrder(e) /\ InLine(e, n) => FileOrder(f)
        /\ \A b \in Nat : InLine(e, n) /\ Marked(e, b) => Parted(f, b)
        /\ \A k \in 1..Len(f.w_q) : \E l \in 1..Len(e.w_q) : f.w_q[k] = e.w_q[l]
    BY <1>2, PromoteKeeps
  <2> HIDE DEF f
  <2>2. ASSUME NEW b \in Nat, Marked(c, b) PROVE Marked(f, b) /\ Parted(f, b)
    <3>1. Marked(e, b)
      BY <1>1, <1>2, <2>2, FieldTypes DEF Marked, Shaped
    <3>2. Marked(f, b)
      BY <1>1, <1>2, <2>1, <3>1, QueuePart
    <3>3. QED  BY <1>2, <2>1, <3>1, <3>2
  <2>3. QED  BY <1>2, <2>1, <2>2
<1> HIDE DEF f
<1>4. /\ Shaped(d) /\ Covered(d) /\ d.w = f.w /\ d.w_q = f.w_q /\ d.w_file = f.w_file
      /\ d.r_op = f.r_op /\ d.active = f.active
  BY <1>3, InterestApplied
<1>5. d = aio_file_done(c)
  BY DEF d, f, e, aio_file_done
<1> HIDE DEF d
<1>6. /\ InLine(d, n) /\ Front(d) /\ FileOrder(d)
      /\ \A b \in Nat : Marked(c, b) => Marked(d, b) /\ Parted(d, b)
      /\ \A i, m : Owes(d, i, m) <=> Owes(f, i, m)
  BY <1>3, <1>4, OtherFields
<1>7. Unwatched(c) => Unwatched(d)
  BY <1>3, <1>4 DEF Unwatched
<1>8. QED
  BY <1>3, <1>4, <1>5, <1>6, <1>7

\* The run of tagged sends at the head of a queue has a length within it: there
\* is a first send that is not tagged, or all of them are.
LEMMA HeadRunWithin ==
    ASSUME NEW q \in Seq(Node), NEW tag
    PROVE  HeadRun(q, tag) \in 0..Len(q)
<1> DEFINE U == {k \in 1..Len(q) : ~Tagged(q[k].id, tag)}
           Fits(n) == /\ \A k \in 1..n : Tagged(q[k].id, tag)
                      /\ n < Len(q) => ~Tagged(q[n + 1].id, tag)
<1>0. Len(q) \in Nat
  OBVIOUS
<1>1. \E n \in 0..Len(q) : Fits(n)
  <2>1. CASE U = {}
    <3>1. Fits(Len(q))
      BY <2>1, <1>0
    <3>2. QED  BY <3>1, <1>0
  <2>2. CASE U # {}
    <3>1. U \subseteq Nat
      BY <1>0
    <3>2. PICK u \in U : \A y \in U : ~(<<y, u>> \in OpToRel(<, Nat))
      <4> HIDE DEF U
      <4> QED  BY <2>2, <3>1, WFMin, NatLessThanWellFounded
    <3>3. \A y \in U : ~(y < u)
      <4> SUFFICES ASSUME NEW y \in U, y < u PROVE FALSE
        OBVIOUS
      <4>1. y \in Nat /\ u \in Nat
        BY <3>1
      <4>2. <<y, u>> \in OpToRel(<, Nat)
        BY <4>1 DEF OpToRel
      <4>3. QED  BY <3>2, <4>2
    <3>4. u \in 1..Len(q) /\ ~Tagged(q[u].id, tag)
      OBVIOUS
    <3>5. ASSUME NEW k \in 1..(u - 1) PROVE Tagged(q[k].id, tag)
      <4>1. k \in 1..Len(q) /\ k < u
        BY <3>4, <1>0
      <4>2. QED  BY <4>1, <3>3
    <3>6. Fits(u - 1)
      <4>1. (u - 1) + 1 = u
        BY <3>4, <1>0
      <4>2. QED  BY <4>1, <3>4, <3>5
    <3>7. u - 1 \in 0..Len(q)
      BY <3>4, <1>0
    <3>8. QED
      <4> HIDE DEF Fits
      <4> QED  BY <3>6, <3>7
  <2>3. QED  BY <2>1, <2>2
<1>2. QED
  <2>1. HeadRun(q, tag) = CHOOSE n \in 0..Len(q) : Fits(n)
    BY DEF HeadRun
  <2> HIDE DEF Fits
  <2>2. (CHOOSE n \in 0..Len(q) : Fits(n)) \in 0..Len(q)
    BY <1>1
  <2>3. QED  BY <2>1, <2>2

\* d carries part of what c carries, in the same line.
Slim(c, d, n) ==
    /\ Shaped(d) /\ InLine(d, n) /\ d.r_op = c.r_op /\ d.active = c.active
    /\ Unwatched(c) => Unwatched(d)
    /\ \A i, m : Owes(d, i, m) => Owes(c, i, m)
    /\ FileOrder(c) => FileOrder(d)
    /\ Kept(c, d)
    /\ \A b \in Nat : Marked(c, b) => Marked(d, b) /\ (Parted(c, b) => Parted(d, b))

\* Slimming twice is slimming.
LEMMA SlimTwice ==
    ASSUME NEW c, NEW d, NEW e, NEW n, Slim(c, d, n), Slim(d, e, n)
    PROVE  Slim(c, e, n)
<1>1. Kept(c, e)
  <2> SUFFICES ASSUME NEW i, NEW m, NEW l, Owes(c, i, m), Owes(e, i, l)
               PROVE  (FileIs(e, i) <=> FileIs(c, i)) /\ (Turn(c) = i => Turn(e) = i)
    BY DEF Kept
  <2>1. Owes(d, i, l)
    BY DEF Slim
  <2>2. QED
    BY <2>1 DEF Slim, Kept
<1>2. QED
  BY <1>1 DEF Slim

\* The last elements of a queue, from h + 1 on.
LEMMA QueueSuffix ==
    ASSUME NEW q \in Seq(Node), NEW h \in 0..Len(q)
    PROVE  LET r == SubSeq(q, h + 1, Len(q)) IN
           /\ r \in Seq(Node) /\ Len(r) = Len(q) - h
           /\ \A k \in 1..Len(r) : h + k \in 1..Len(q) /\ r[k] = q[h + k]
<1>0. Len(q) \in Nat /\ h + 1 \in Int /\ Len(q) \in Int /\ h \in Nat /\ h <= Len(q)
  OBVIOUS
<1>1. \A i \in (h + 1)..Len(q) : q[i] \in Node
  BY <1>0
<1>2. /\ SubSeq(q, h + 1, Len(q)) \in Seq(Node)
      /\ Len(SubSeq(q, h + 1, Len(q))) = IF h + 1 <= Len(q) THEN Len(q) - (h + 1) + 1 ELSE 0
      /\ \A i \in 1..(Len(q) - (h + 1) + 1) : SubSeq(q, h + 1, Len(q))[i] = q[(h + 1) + i - 1]
  BY <1>0, <1>1, SubSeqProperties
<1>3. Len(SubSeq(q, h + 1, Len(q))) = Len(q) - h
  BY <1>0, <1>2
<1>4. ASSUME NEW k \in 1..(Len(q) - h)
      PROVE  h + k \in 1..Len(q) /\ SubSeq(q, h + 1, Len(q))[k] = q[h + k]
  <2>1. k \in 1..(Len(q) - (h + 1) + 1) /\ (h + 1) + k - 1 = h + k /\ h + k \in 1..Len(q)
    BY <1>0
  <2>2. SubSeq(q, h + 1, Len(q))[k] = q[(h + 1) + k - 1]
    BY <1>2, <2>1
  <2>3. QED  BY <2>1, <2>2
<1>5. QED
  BY <1>2, <1>3, <1>4

\* dyn_aio_cancel drops the head of the queue: what is left is in line.
LEMMA QueueCancelled ==
    ASSUME NEW c, Shaped(c), NEW n \in Nat, InLine(c, n), NEW tag
    PROVE  LET d == CancelQueue(c, tag) IN
           /\ Slim(c, d, n) /\ (Front(c) => Front(d)) /\ d.w = c.w /\ d.w_file = c.w_file
<1> DEFINE q == c.w_q
           h == HeadRun(q, tag)
           r == SubSeq(q, h + 1, Len(q))
           d == [c EXCEPT !.w_q = r]
<1>0. c \in Conn /\ q \in Seq(Node) /\ Len(q) \in Nat
  BY FieldTypes DEF Shaped
<1>1. h \in 0..Len(q)
  BY <1>0, HeadRunWithin
<1> HIDE DEF h
<1>2. /\ r \in Seq(Node) /\ Len(r) = Len(q) - h
      /\ \A k \in 1..Len(r) : h + k \in 1..Len(q) /\ r[k] = q[h + k]
  BY <1>0, <1>1, QueueSuffix
<1> HIDE DEF r
<1>3. /\ d \in Conn /\ d.w = c.w /\ d.w_q = r /\ d.w_file = c.w_file
      /\ d.r_op = c.r_op /\ d.active = c.active
  BY <1>0, <1>2, SetFields
<1>4. CancelQueue(c, tag) = d
  BY DEF CancelQueue, r, h
<1> HIDE DEF d
<1>5. \A k \in 1..Len(r) : \E l \in 1..Len(q) : r[k] = q[l]
  BY <1>2
<1>6. Shaped(d)
  BY <1>0, <1>2, <1>3, <1>5 DEF Shaped
<1>7. InLine(d, n)
  <2>1. ASSUME NEW k \in 1..Len(r), NEW l \in 1..Len(r), k < l PROVE r[k].id < r[l].id
    <3>1. h + k \in 1..Len(q) /\ h + l \in 1..Len(q) /\ h + k < h + l
      BY <1>2, <1>1, <1>0, <2>1
    <3>2. QED  BY <3>1, <1>2 DEF InLine
  <2>2. QED
    BY <1>3, <1>5, <2>1 DEF InLine
<1>8. \A i, m : Owes(d, i, m) => Owes(c, i, m)
  BY <1>3, <1>5 DEF Owes
<1>9. FileOrder(c) => FileOrder(d)
  BY <1>3, <1>5 DEF FileOrder
<1>10. Kept(c, d)
  BY <1>3, KeptInPlace
<1>10a. ASSUME NEW b \in Nat, Marked(c, b) PROVE Marked(d, b) /\ (Parted(c, b) => Parted(d, b))
  BY <1>3, <1>5, <1>10a DEF Marked, Parted
<1>11. q = <<>> => r = <<>>
  <2> SUFFICES ASSUME q = <<>> PROVE r = <<>>
    OBVIOUS
  <2>1. Len(q) = 0
    OBVIOUS
  <2>2. Len(r) = 0
    BY <2>1, <1>1, <1>2
  <2>3. QED  BY <2>2, <1>2
<1>12. Unwatched(c) => Unwatched(d)
  BY <1>3, <1>11 DEF Unwatched
<1>13. Front(c) => Front(d)
  BY <1>3, <1>11 DEF Front
<1>14. QED
  BY <1>3, <1>4, <1>6, <1>7, <1>8, <1>9, <1>10, <1>10a, <1>12, <1>13 DEF Slim

\* It drops the write under way and promotes the next.
LEMMA WriteCancelled ==
    ASSUME NEW c, Shaped(c), NEW n \in Nat, InLine(c, n), NEW tag
    PROVE  LET d == CancelWrite(c, tag) IN
           /\ Slim(c, d, n) /\ (Front(c) => Front(d)) /\ d.w_file = c.w_file
<1>1. CASE Tagged(c.w.id, tag)
  <2> DEFINE d == aio_wq_promote([c EXCEPT !.w = Idle])
  <2>1. d = CancelWrite(c, tag)
    BY <1>1 DEF CancelWrite
  <2>2. /\ Shaped(d) /\ InLine(d, n) /\ Front(d)
        /\ d.r_op = c.r_op /\ d.active = c.active /\ d.w_file = c.w_file
        /\ Unwatched(c) => Unwatched(d)
        /\ \A i, m : Owes(d, i, m) <=> Owes(c, i, m) /\ i # c.w.id
        /\ FileOrder(c) => FileOrder(d)
        /\ \A b \in Nat : Marked(c, b) => Marked(d, b) /\ Parted(d, b)
    BY WriteEnded
  <2> HIDE DEF d
  <2>3. c.w.left > 0 /\ Turn(c) = c.w.id
    BY <1>1, FieldTypes DEF Tagged, Shaped, Turn
  <2>4. Kept(c, d)
    BY <2>2, <2>3, KeptAfterTurn
  <2>5. QED
    BY <2>1, <2>2, <2>4 DEF Slim
<1>2. CASE ~Tagged(c.w.id, tag)
  <2>1. CancelWrite(c, tag) = c
    BY <1>2 DEF CancelWrite
  <2>2. Kept(c, c)
    BY DEF Kept
  <2>3. QED
    BY <2>1, <2>2 DEF Slim
<1>3. QED
  BY <1>1, <1>2

\* It drops the file body, and promotes nothing.
LEMMA FileCancelled ==
    ASSUME NEW c, Shaped(c), NEW n \in Nat, InLine(c, n), NEW tag
    PROVE  LET d == CancelFile(c, tag) IN
           /\ Slim(c, d, n)
           /\ d.w = c.w /\ d.w_q = c.w_q
           /\ \/ d = c
              \/ d.w_file = Idle /\ c.w_file.id # 0
<1>1. CASE Tagged(c.w_file.id, tag) /\ c.w_file.left > 0
  <2> DEFINE d == [c EXCEPT !.w_file = Idle]
  <2>1. d = CancelFile(c, tag)
    BY <1>1 DEF CancelFile
  <2>2. Idle \in Transfer /\ Idle.id = 0
    BY FieldTypes DEF Shaped
  <2>3. /\ Shaped(d) /\ d.w = c.w /\ d.w_q = c.w_q /\ d.w_file = Idle
        /\ d.r_op = c.r_op /\ d.active = c.active
        /\ InLine(d, n)
        /\ \A i, m : Owes(d, i, m) <=> \/ Owes(c, i, m) /\ i # c.w_file.id
                                       \/ i # 0 /\ i = Idle.id /\ m = Idle.left /\ m # 0
        /\ FileOrder(d) /\ \A b : Parted(c, b) => Parted(d, b)
        /\ Unwatched(c) => Unwatched(d)
    BY <2>2, FileReplaced
  <2> HIDE DEF d
  <2>4. \A i, m : Owes(d, i, m) => Owes(c, i, m) /\ i # c.w_file.id
    BY <2>2, <2>3
  <2>5. Kept(c, d)
    BY <2>2, <2>3, <2>4, FieldTypes DEF Kept, Turn, FileIs, Shaped
  <2>6. ASSUME NEW b \in Nat, Marked(c, b) PROVE Marked(d, b)
    BY <2>2, <2>3, <2>6, FieldTypes DEF Marked, Shaped
  <2>7. QED
    BY <1>1, <2>1, <2>2, <2>3, <2>4, <2>5, <2>6 DEF Slim, Tagged
<1>2. CASE ~(Tagged(c.w_file.id, tag) /\ c.w_file.left > 0)
  <2>1. CancelFile(c, tag) = c
    BY <1>2 DEF CancelFile
  <2>2. Kept(c, c)
    BY DEF Kept
  <2>3. QED
    BY <2>1, <2>2 DEF Slim
<1>3. QED
  BY <1>1, <1>2

\* dyn_aio_cancel as a whole: it slims, and if the file body stays, what is
\* queued keeps something in front of it.
LEMMA Cancelled ==
    ASSUME NEW c, Shaped(c), NEW n \in Nat, InLine(c, n), NEW tag
    PROVE  LET d == CancelFile(CancelWrite(CancelQueue(c, tag), tag), tag) IN
           /\ Slim(c, d, n)
           /\ c.w_file.id \notin Carried(c) \ Carried(d) => (Front(c) => Front(d))
           /\ d.w_file \in {c.w_file, Idle}
<1> DEFINE a == CancelQueue(c, tag)
           b == CancelWrite(a, tag)
           d == CancelFile(b, tag)
<1>1. Slim(c, a, n) /\ (Front(c) => Front(a)) /\ a.w_file = c.w_file
  BY QueueCancelled
<1>2. Slim(a, b, n) /\ (Front(a) => Front(b)) /\ b.w_file = a.w_file
  BY <1>1, WriteCancelled DEF Slim
<1>3. /\ Slim(b, d, n) /\ d.w = b.w /\ d.w_q = b.w_q
      /\ \/ d = b
         \/ d.w_file = Idle /\ b.w_file.id # 0
  BY <1>2, FileCancelled DEF Slim
<1> HIDE DEF a, b, d
<1>4. Slim(c, d, n)
  BY <1>1, <1>2, <1>3, SlimTwice
<1>5. CASE d = b
  BY <1>1, <1>2, <1>4, <1>5 DEF a, b, d
<1>6. CASE d.w_file = Idle /\ b.w_file.id # 0
  <2>0. b \in Conn /\ InLine(b, n) /\ b.w_q \in Seq(Node) /\ Len(b.w_q) \in Nat /\ Idle.id = 0
        /\ DOMAIN b.w_q = 1..Len(b.w_q) /\ b.w.id \in Nat
    BY <1>2, FieldTypes DEF Slim, Shaped
  <2>1. b.w_file.id = c.w_file.id
    BY <1>1, <1>2
  <2>2. c.w_file.id \in Carried(c)
    BY <2>1, <1>6 DEF Carried
  <2>3. c.w_file.id \notin Carried(d)
    <3>1. b.w.id # b.w_file.id /\ \A k \in 1..Len(b.w_q) : b.w_q[k].id # b.w_file.id
      BY <2>0, <1>6 DEF InLine
    <3>2. QED
      BY <3>1, <2>0, <2>1, <1>3, <1>6 DEF Carried, Queued
  <2>4. QED
    BY <1>4, <1>6, <2>2, <2>3 DEF a, b, d
<1>7. QED
  BY <1>3, <1>5, <1>6

\* The line is a line also for a later count of submissions.
LEMMA LineGrows ==
    ASSUME NEW c, Shaped(c), NEW n \in Nat, InLine(c, n)
    PROVE  InLine(c, n + 1)
<1>1. /\ c.w.id \in Nat /\ c.w_file.id \in Nat
      /\ \A k \in 1..Len(c.w_q) : c.w_q[k].id \in Nat
  BY FieldTypes DEF Shaped
<1>2. QED
  BY <1>1 DEF InLine

\* d is c with one more send in the queue, the one after the first n.
Grown(c, d, x, n) ==
    /\ Shaped(d) /\ InLine(d, n + 1)
    /\ d.w = c.w /\ d.w_file = c.w_file
    /\ d.r_op = c.r_op /\ d.active = c.active /\ d.interest = c.interest
    /\ \A i, m : Owes(d, i, m) <=> Owes(c, i, m) \/ (i = n + 1 /\ m = x.len)
    /\ FileOrder(c) => FileOrder(d)
    /\ \A b \in Nat : Marked(c, b) =>
          Marked(d, b) /\ (MustQueue(c) /\ Parted(c, b) => Parted(d, b))
    /\ Len(d.w_q) = Len(c.w_q) + 1

\* A send joins the queue.
LEMMA QueueGrown ==
    ASSUME NEW c, Shaped(c), NEW n \in Nat, InLine(c, n),
           NEW x \in Node, x.id = n + 1, x.len > 0, x.after_file <=> c.w_file.left > 0
    PROVE  Grown(c, [c EXCEPT !.w_q = Append(@, x)], x, n)
<1> DEFINE q == c.w_q
           r == Append(q, x)
           d == [c EXCEPT !.w_q = r]
<1>0. c \in Conn /\ q \in Seq(Node) /\ Len(q) \in Nat
  BY FieldTypes DEF Shaped
<1>1. /\ r \in Seq(Node) /\ Len(r) = Len(q) + 1 /\ r[Len(q) + 1] = x
      /\ \A k \in 1..Len(q) : k \in 1..Len(r) /\ r[k] = q[k]
      /\ \A k \in 1..Len(r) : k \in 1..Len(q) \/ k = Len(q) + 1
      /\ Len(q) + 1 \in 1..Len(r) /\ DOMAIN r = 1..Len(r) /\ DOMAIN q = 1..Len(q)
  BY <1>0
<1> HIDE DEF r
<1>2. /\ d \in Conn /\ d.w = c.w /\ d.w_q = r /\ d.w_file = c.w_file
      /\ d.r_op = c.r_op /\ d.active = c.active /\ d.interest = c.interest
  BY <1>0, <1>1, SetFields
<1>3. d = [c EXCEPT !.w_q = Append(@, x)]
  BY DEF r
<1>4. /\ c.w.id \in Nat /\ c.w_file.id \in Nat
      /\ \A k \in 1..Len(q) : q[k].id \in Nat /\ q[k].id # 0
      /\ x.id \in Nat
  BY <1>0, FieldTypes, BoundAssumption DEF Id
<1> HIDE DEF d, q
<1>5. Shaped(d)
  <2>1. \A k \in DOMAIN q : q[k].len > 0
    BY DEF Shaped, q
  <2>2. QED
    BY <1>1, <1>2, <2>1 DEF Shaped
<1>6. InLine(d, n + 1)
  <2>1. /\ c.w.id <= n /\ c.w_file.id <= n
        /\ c.w.id = c.w_file.id => c.w.id = 0
        /\ \A k \in 1..Len(q) : c.w.id < q[k].id /\ q[k].id <= n /\ q[k].id # c.w_file.id
        /\ \A k, l \in 1..Len(q) : k < l => q[k].id < q[l].id
    BY DEF InLine, q
  <2>2. ASSUME NEW k \in 1..Len(r) PROVE c.w.id < r[k].id /\ r[k].id <= n + 1 /\ r[k].id # c.w_file.id
    <3>1. CASE k \in 1..Len(q)
      BY <3>1, <2>1, <1>1, <1>4
    <3>2. CASE k = Len(q) + 1
      BY <3>2, <2>1, <1>1, <1>4
    <3>3. QED  BY <3>1, <3>2, <1>1
  <2>3. ASSUME NEW k \in 1..Len(r), NEW l \in 1..Len(r), k < l PROVE r[k].id < r[l].id
    <3>0. k \in 1..Len(q)
      BY <2>3, <1>1, <1>0 DEF q
    <3>1. CASE l \in 1..Len(q)
      BY <3>0, <3>1, <2>1, <2>3, <1>1, <1>4
    <3>2. CASE l = Len(q) + 1
      BY <3>0, <3>2, <2>1, <1>1, <1>4
    <3>3. QED  BY <3>1, <3>2, <1>1
  <2>4. QED
    BY <1>2, <1>4, <2>1, <2>2, <2>3 DEF InLine
<1>7. ASSUME NEW i, NEW m PROVE Owes(d, i, m) <=> Owes(c, i, m) \/ (i = n + 1 /\ m = x.len)
  <2>1. (\E k \in 1..Len(r) : r[k].id = i /\ r[k].len = m)
          <=> (\E k \in 1..Len(q) : q[k].id = i /\ q[k].len = m) \/ (i = n + 1 /\ m = x.len)
    BY <1>1
  <2>2. QED
    BY <1>2, <2>1 DEF Owes, q
<1>8. FileOrder(c) => FileOrder(d)
  <2> SUFFICES ASSUME FileOrder(c), c.w_file.left > 0 PROVE FileOrder(d)
    BY <1>2 DEF FileOrder
  <2>1. /\ c.w.id < c.w_file.id
        /\ \A k \in 1..Len(q) : q[k].after_file \/ q[k].id < c.w_file.id
    BY DEF FileOrder, q
  <2>2. x.after_file
    OBVIOUS
  <2>3. QED
    BY <1>1, <1>2, <2>1, <2>2 DEF FileOrder
<1>9. ASSUME NEW b \in Nat, Marked(c, b)
      PROVE  Marked(d, b) /\ (MustQueue(c) /\ Parted(c, b) => Parted(d, b))
  <2>1. /\ c.w_file.left > 0 => b <= c.w_file.id
        /\ \A k \in 1..Len(q) : q[k].after_file => q[k].id > b
    BY <1>9 DEF Marked, q
  <2>2. c.w_file.left > 0 => x.id > b
    BY <1>4, <2>1 DEF InLine
  <2>3. Marked(d, b)
    BY <1>1, <1>2, <2>1, <2>2 DEF Marked
  <2>4. ASSUME MustQueue(c), Parted(c, b), c.w.left = 0, NEW k \in 1..Len(r) PROVE r[k].id > b
    <3>1. \A l \in 1..Len(q) : q[l].id > b
      BY <2>4 DEF Parted, q
    <3>2. x.id > b
      <4>1. CASE q = <<>>
        BY <2>2, <2>4, <4>1 DEF MustQueue, q
      <4>2. CASE q # <<>>
        <5>1. 1 \in 1..Len(q) /\ q[1].id <= n
          BY <4>2, <1>0 DEF InLine, q
        <5>2. QED  BY <3>1, <5>1, <1>4
      <4>3. QED  BY <4>1, <4>2
    <3>3. QED  BY <1>1, <3>1, <3>2
  <2>5. QED
    BY <1>2, <2>3, <2>4 DEF Parted
<1>10. Len(d.w_q) = Len(c.w_q) + 1
  BY <1>1, <1>2 DEF q
<1>11. QED
  BY <1>2, <1>3, <1>5, <1>6, <1>7, <1>8, <1>9, <1>10 DEF Grown

\* d is c with the submission after the first n as its write, x to go.
Started(c, d, n, x) ==
    /\ Shaped(d) /\ InLine(d, n + 1) /\ Front(d) /\ FileOrder(d)
    /\ d.w.left = x /\ d.w.id = n + 1 /\ d.w_q = <<>> /\ d.w_q = c.w_q /\ d.w_file = c.w_file
    /\ d.r_op = c.r_op /\ d.active = c.active /\ d.interest = c.interest
    /\ \A i, m : ~Owes(c, i, m)
    /\ \A i, m : Owes(d, i, m) <=> i = n + 1 /\ m = x
    /\ \A b : Marked(d, b) /\ Parted(d, b)

\* A send becomes the write under way of a descriptor that owes nothing.
LEMMA WriteStarted ==
    ASSUME NEW c, Shaped(c), NEW n \in Nat, InLine(c, n), n + 1 \in Id, ~MustQueue(c),
           NEW x \in Nat \ {0}
    PROVE  Started(c, [c EXCEPT !.w = [id |-> n + 1, left |-> x]], n, x)
<1> DEFINE y == [id |-> n + 1, left |-> x]
           d == [c EXCEPT !.w = y]
<1>0. /\ c \in Conn /\ c.w_file.left \in Nat /\ c.w_file.id \in Nat /\ c.w.left \in Nat
      /\ (c.w.left = 0 => c.w = Idle) /\ Idle.id = 0 /\ Idle.left = 0
  BY FieldTypes DEF Shaped
<1>1. c.w.id = 0 /\ c.w_q = <<>> /\ c.w_file.left = 0
  BY <1>0 DEF MustQueue
<1>2. y \in Write /\ y.id = n + 1 /\ y.left = x
  BY DEF Write
<1> HIDE DEF y
<1>3. /\ d \in Conn /\ d.w = y /\ d.w_q = c.w_q /\ d.w_file = c.w_file
      /\ d.r_op = c.r_op /\ d.active = c.active /\ d.interest = c.interest
  BY <1>0, <1>2, SetFields
<1>4. d = [c EXCEPT !.w = [id |-> n + 1, left |-> x]]
  BY DEF y
<1> HIDE DEF d
<1>5. Shaped(d) /\ Front(d) /\ FileOrder(d)
  BY <1>1, <1>3, <1>2 DEF Shaped, Front, FileOrder
<1>6. InLine(d, n + 1)
  BY <1>0, <1>1, <1>2, <1>3 DEF InLine
<1>7. ASSUME NEW i, NEW m PROVE ~Owes(c, i, m) /\ (Owes(d, i, m) <=> i = n + 1 /\ m = x)
  BY <1>1, <1>2, <1>3 DEF Owes
<1>8. ASSUME NEW b PROVE Marked(d, b) /\ Parted(d, b)
  BY <1>1, <1>3 DEF Marked, Parted
<1>9. QED
  BY <1>1, <1>2, <1>3, <1>4, <1>5, <1>6, <1>7, <1>8 DEF Started

\* d is c with the submission after the first n as its file body, x to go.
StartedFile(c, d, n, x) ==
    /\ Shaped(d) /\ InLine(d, n + 1) /\ (Front(c) => Front(d)) /\ FileOrder(d)
    /\ d.w = c.w /\ d.w_q = c.w_q /\ d.w_file.left = x /\ d.w_file.id = n + 1
    /\ d.r_op = c.r_op /\ d.active = c.active /\ d.interest = c.interest
    /\ \A i, m : Owes(d, i, m) <=> Owes(c, i, m) \/ (i = n + 1 /\ m = x /\ m # 0)
    /\ Kept(c, d)
    /\ \A b \in Nat : Marked(c, b) => \E e \in {b, n + 1} :
          Marked(d, e) /\ (Parted(c, b) => Parted(d, e))

\* A file body is taken on; it goes in front of what is sent later, and behind
\* what is there, or becomes the first of the connection's file bodies.
LEMMA FileStarted ==
    ASSUME NEW c, Shaped(c), NEW n \in Nat, InLine(c, n), n + 1 \in Id, c.w_file.left = 0,
           NEW x \in Nat
    PROVE  StartedFile(c, [c EXCEPT !.w_file = [id |-> n + 1, left |-> x]], n, x)
<1> DEFINE y == [id |-> n + 1, left |-> x]
           d == [c EXCEPT !.w_file = y]
<1>0. /\ c \in Conn /\ c.w_file.left \in Nat /\ c.w_file.id \in Nat /\ c.w.left \in Nat
      /\ c.w.id \in Nat /\ Idle.id = 0 /\ Idle.left = 0
      /\ \A k \in 1..Len(c.w_q) : c.w_q[k].id \in Nat /\ c.w_q[k].after_file \in BOOLEAN
  BY FieldTypes DEF Shaped
<1>2. y \in Transfer /\ y.id = n + 1 /\ y.left = x
  BY DEF Transfer, Id
<1> HIDE DEF y
<1>3. /\ d \in Conn /\ d.w = c.w /\ d.w_q = c.w_q /\ d.w_file = y
      /\ d.r_op = c.r_op /\ d.active = c.active /\ d.interest = c.interest
  BY <1>0, <1>2, SetFields
<1>4. d = [c EXCEPT !.w_file = [id |-> n + 1, left |-> x]]
  BY DEF y
<1> HIDE DEF d
<1>5. Shaped(d) /\ (Front(c) => Front(d))
  BY <1>3, <1>2 DEF Shaped, Front
<1>6. InLine(d, n + 1)
  BY <1>0, <1>2, <1>3 DEF InLine
<1>7. ASSUME NEW i, NEW m
      PROVE  Owes(d, i, m) <=> Owes(c, i, m) \/ (i = n + 1 /\ m = x /\ m # 0)
  BY <1>0, <1>2, <1>3 DEF Owes
<1>8. FileOrder(d)
  BY <1>0, <1>2, <1>3 DEF InLine, FileOrder
<1>9. Kept(c, d)
  <2> SUFFICES ASSUME NEW i, NEW m, Owes(c, i, m)
               PROVE  (FileIs(d, i) <=> FileIs(c, i)) /\ (Turn(c) = i => Turn(d) = i)
    BY DEF Kept
  <2>1. i # n + 1
    BY <1>0 DEF Owes, InLine
  <2>2. i # c.w_file.id
    BY EmptyNotOwed
  <2>3. QED
    BY <1>0, <1>2, <1>3, <2>1, <2>2 DEF FileIs, Turn
<1>10. ASSUME NEW b \in Nat, Marked(c, b)
       PROVE  \E e \in {b, n + 1} : Marked(d, e) /\ (Parted(c, b) => Parted(d, e))
  <2>1. CASE b <= n + 1
    BY <1>2, <1>3, <1>10, <2>1 DEF Marked, Parted
  <2>2. CASE b > n + 1
    <3>1. Marked(d, n + 1)
      BY <1>0, <1>2, <1>3, <1>10, <2>2 DEF Marked
    <3>2. Parted(c, b) => Parted(d, n + 1)
      BY <1>0, <1>3, <2>2 DEF Parted
    <3>3. QED  BY <3>1, <3>2
  <2>3. QED  BY <2>1, <2>2
<1>11. QED
  BY <1>2, <1>3, <1>4, <1>5, <1>6, <1>7, <1>8, <1>9, <1>10 DEF StartedFile

\* The invariant covers the types and the watching of what is owed.
LEMMA SlotImplies ==
    ASSUME SlotInv
    PROVE  TypeOK /\ InterestSound
BY DEF SlotInv, ConnOK, Shaped, LifeOK, DispOK, BufOK, SubsOK, TypeOK, InterestSound, Covered

\* A function on 1..n with values in a set is a sequence over it.
LEMMA FunctionIsSeq ==
    ASSUME NEW S, NEW n \in Nat, NEW f \in [1..n -> S]
    PROVE  f \in Seq(S) /\ Len(f) = n
OBVIOUS

\* s is the list of submissions with another one.
Extends(s, file, len, status) ==
    LET N == Len(subs) + 1
    IN /\ s \in Seq(Sub) /\ Len(s) = N /\ N <= MaxSub /\ N \in Id
       /\ \A i \in 1..Len(subs) : s[i] = subs[i]
       /\ s[N].life = life /\ s[N].file = file /\ s[N].len = len
       /\ s[N].status = status

\* A new submission.
LEMMA FreshTyped ==
    ASSUME SubsOK, LifeOK, Len(subs) < MaxSub,
           NEW file \in BOOLEAN, NEW len \in Nat, NEW tag \in Tag, NEW status \in Status
    PROVE  Extends(Fresh(file, len, tag, status), file, len, status)
<1> DEFINE x == [life |-> life, file |-> file, len |-> len, tag |-> tag, status |-> status,
                 blame |-> 0]
<1>0. /\ subs \in Seq(Sub) /\ Len(subs) \in Nat /\ MaxSub \in Nat /\ life \in 0..MaxLife
      /\ MaxLife \in Nat
  BY BoundAssumption DEF SubsOK, LifeOK
<1>1. x \in Sub
  BY <1>0 DEF Sub
<1>2. /\ x.life = life /\ x.file = file /\ x.len = len /\ x.status = status /\ x.blame = 0
  OBVIOUS
<1>3. Fresh(file, len, tag, status) = Append(subs, x)
  BY DEF Fresh
<1> HIDE DEF x
<1>4. /\ Append(subs, x) \in Seq(Sub) /\ Len(Append(subs, x)) = Len(subs) + 1
      /\ \A i \in 1..Len(subs) : Append(subs, x)[i] = subs[i]
      /\ Append(subs, x)[Len(subs) + 1] = x
  BY <1>0, <1>1
<1>5. Len(subs) + 1 <= MaxSub /\ Len(subs) + 1 \in Id
  BY <1>0 DEF Id
<1>6. QED
  BY <1>2, <1>3, <1>4, <1>5 DEF Extends

\* Reported submissions change their status and what they blame.
LEMMA ReportTyped ==
    ASSUME SubsOK, NEW ids, NEW status \in Status, NEW blame \in 0..MaxLife,
           Report(ids, status, blame)
    PROVE  /\ SubsOK' /\ Len(subs') = Len(subs) /\ DOMAIN subs' = DOMAIN subs
           /\ \A i \in DOMAIN subs :
                 /\ i \in ids => subs'[i].status = status
                 /\ i \notin ids => subs'[i] = subs[i]
                 /\ subs'[i].life = subs[i].life /\ subs'[i].len = subs[i].len
                 /\ subs'[i].file = subs[i].file
<1> DEFINE g(i) == IF i \in ids THEN [subs[i] EXCEPT !.status = status, !.blame = blame]
                                ELSE subs[i]
<1>0. subs \in Seq(Sub) /\ Len(subs) \in Nat /\ DOMAIN subs = 1..Len(subs)
  BY DEF SubsOK
<1>1. ASSUME NEW i \in DOMAIN subs
      PROVE  /\ g(i) \in Sub /\ g(i).life = subs[i].life /\ g(i).len = subs[i].len
             /\ g(i).file = subs[i].file
             /\ i \in ids => g(i).status = status
             /\ i \notin ids => g(i) = subs[i]
  <2>1. subs[i] \in Sub
    BY <1>0
  <2>2. QED
    BY <2>1 DEF Sub
<1>2. subs' = [i \in DOMAIN subs |-> g(i)]
  BY DEF Report
<1> HIDE DEF g
<1>3. subs' \in [1..Len(subs) -> Sub]
  BY <1>0, <1>1, <1>2
<1>4. subs' \in Seq(Sub) /\ Len(subs') = Len(subs)
  BY <1>0, <1>3, FunctionIsSeq
<1>5. QED
  BY <1>0, <1>1, <1>2, <1>4 DEF SubsOK

\* What send() takes is within what it is given and what there is room for.
LEMMA AcceptsWithin ==
    ASSUME BufOK, NEW n \in Nat
    PROVE  /\ Accepts(n) \in Nat /\ Accepts(n) <= n /\ Accepts(n) <= room
           /\ Accepts(n) > 0 => sock = "up"
BY BoundAssumption DEF BufOK, Accepts, Least

\* The wire and the buffer after the socket has taken n units.
LEMMA TakesTyped ==
    ASSUME BufOK, NEW id \in Id, NEW n \in Nat, n <= room, Takes(id, n)
    PROVE  /\ BufOK'
           /\ Len(wire) \in Nat /\ Len(wire') = Len(wire) + n
           /\ \A p \in 1..Len(wire) : wire'[p] = wire[p]
           /\ \A p \in (Len(wire) + 1)..(Len(wire) + n) : wire'[p] = id
<1> DEFINE u == Units(id, n)
<1>0. wire \in Seq(Id) /\ Len(wire) \in Nat /\ room \in 0..Room /\ Room \in Nat
  BY BoundAssumption DEF BufOK
<1>1. u \in [1..n -> Id] /\ \A k \in 1..n : u[k] = id
  BY DEF Units
<1>2. u \in Seq(Id) /\ Len(u) = n
  BY <1>1, FunctionIsSeq
<1>3. wire' = wire \o u /\ room' = room - n
  BY DEF Takes
<1> HIDE DEF u
<1>4. /\ wire \o u \in Seq(Id) /\ Len(wire \o u) = Len(wire) + n
      /\ \A p \in 1..(Len(wire) + n) :
            (wire \o u)[p] = IF p <= Len(wire) THEN wire[p] ELSE u[p - Len(wire)]
  BY <1>0, <1>2, ConcatProperties
<1>5. room' \in 0..Room
  BY <1>0, <1>3
<1>6. ASSUME NEW p \in (Len(wire) + 1)..(Len(wire) + n) PROVE wire'[p] = id
  <2>1. p \in 1..(Len(wire) + n) /\ ~(p <= Len(wire)) /\ p - Len(wire) \in 1..n
    BY <1>0
  <2>2. QED  BY <2>1, <1>1, <1>3, <1>4
<1>7. ASSUME NEW p \in 1..Len(wire) PROVE wire'[p] = wire[p]
  <2>1. p \in 1..(Len(wire) + n) /\ p <= Len(wire)
    BY <1>0
  <2>2. QED  BY <2>1, <1>3, <1>4
<1>8. QED
  BY <1>0, <1>3, <1>4, <1>5, <1>6, <1>7 DEF BufOK

\* SlotInv gives the typing facts of its parts.
LEMMA SlotFacts ==
    ASSUME SlotInv
    PROVE  /\ Shaped(conn) /\ conn \in Conn /\ InLine(conn, Len(subs)) /\ Unwatched(conn)
           /\ sock # "none" => Covered(conn)
           /\ Len(subs) \in Nat /\ DOMAIN subs = 1..Len(subs)
           /\ conn.w.left \in Nat /\ conn.w_file.left \in Nat
           /\ conn.w.id \in Nat /\ conn.w_file.id \in Nat /\ conn.w_q \in Seq(Node)
           /\ conn.w.left = 0 <=> conn.w = Idle
           /\ Idle.id = 0 /\ Idle.left = 0 /\ conn.active \in BOOLEAN
           /\ LifeOK /\ DispOK /\ BufOK /\ SubsOK
<1>1. Shaped(conn) /\ conn \in Conn /\ InLine(conn, Len(subs)) /\ LifeOK /\ DispOK /\ BufOK /\ SubsOK
  BY DEF SlotInv, ConnOK, Shaped
<1>2. sock # "none" => Covered(conn)
  BY DEF SlotInv, ConnOK
<1>3. Cleared \in Conn /\ Unwatched(Cleared)
  BY FieldTypes, <1>1 DEF Cleared, Conn, Unwatched
<1>4. Unwatched(conn)
  BY DEF SlotInv, ConnOK
<1>5. Len(subs) \in Nat /\ DOMAIN subs = 1..Len(subs)
  BY <1>1 DEF SubsOK
<1>6. QED
  BY <1>1, <1>2, <1>4, <1>5, FieldTypes

\* A step that sends nothing adds nothing to the wire.
LEMMA WiredNone ==
    ASSUME BufOK, UNCHANGED wire, NEW id
    PROVE  Wired(id, 0)
<1>1. Len(wire) \in Nat
  BY DEF BufOK
<1>2. QED
  BY <1>1 DEF Wired

\* A step that sends adds what the socket takes, within its buffer.
LEMMA WiredTakes ==
    ASSUME BufOK, NEW id \in Id, NEW n \in Nat, n <= room, Takes(id, n)
    PROVE  BufOK' /\ Wired(id, n)
BY TakesTyped DEF Wired

\* A quota is within the bound on submissions.
LEMMA QuotaWithin ==
    ASSUME SlotInv, Len(subs) < Quota[life]
    PROVE  Len(subs) < MaxSub
<1>1. Len(subs) \in Nat /\ life \in 0..MaxLife /\ MaxSub \in Nat
  BY SlotFacts, BoundAssumption DEF LifeOK
<1>2. Quota[life] \in 0..MaxSub
  BY <1>1, BoundAssumption
<1>3. QED
  BY <1>1, <1>2

\* What the submission of a send does.
Joined ==
    /\ SlotInv' /\ (Front(conn) => Front(conn'))
    /\ FileOrder(conn) => FileOrder(conn')
    /\ \A b \in Nat : Marked(conn, b) => Marked(conn', b) /\ (Parted(conn, b) => Parted(conn', b))
    /\ \E k, len, status : Submits(k, len, status, FALSE)

\* A send is queued.
LEMMA SendQueuedStep ==
    ASSUME SlotInv, NEW len \in Lens, NEW tag \in Tag, Len(subs) < MaxSub, sock # "none",
           SendQueued(len, tag), UNCHANGED <<life, disp, sock>>
    PROVE  Joined
<1> DEFINE N == Len(subs) + 1
           b == conn.w_file.left > 0
           x == [id |-> N, len |-> len, after_file |-> b]
<1>0. /\ Shaped(conn) /\ conn \in Conn /\ InLine(conn, Len(subs)) /\ Unwatched(conn) /\ Covered(conn)
      /\ Len(subs) \in Nat /\ conn.w.left \in Nat /\ conn.w_file.left \in Nat
      /\ Idle.left = 0 /\ LifeOK /\ DispOK /\ BufOK /\ SubsOK
  BY SlotFacts
<1>1. len \in Nat /\ len > 0
  BY BoundAssumption
<1>2. "pending" \in Status
  BY DEF Status
<1>3. /\ subs' \in Seq(Sub) /\ Len(subs') = N /\ N <= MaxSub /\ N \in Id
      /\ \A i \in 1..Len(subs) : subs'[i] = subs[i]
      /\ subs'[N].life = life /\ subs'[N].file = FALSE /\ subs'[N].len = len
      /\ subs'[N].status = "pending"
  <2>1. subs' = Fresh(FALSE, len, tag, "pending")
    BY DEF SendQueued
  <2>2. Extends(subs', FALSE, len, "pending")
    BY <1>0, <1>1, <1>2, <2>1, FreshTyped
  <2>3. QED
    BY <2>2 DEF Extends
<1>4. x \in Node /\ x.id = N /\ x.len = len /\ (x.after_file <=> conn.w_file.left > 0)
  <2>1. b \in BOOLEAN /\ (b <=> conn.w_file.left > 0)
    OBVIOUS
  <2> HIDE DEF b
  <2>2. x \in Node /\ x.id = N /\ x.len = len /\ x.after_file = b
    BY <1>1, <1>3, <2>1 DEF Node
  <2>3. QED  BY <2>1, <2>2
<1>5. conn' = [conn EXCEPT !.w_q = Append(@, x)]
  BY DEF SendQueued
<1> HIDE DEF x
<1>6. /\ Shaped(conn') /\ InLine(conn', N)
      /\ conn'.w = conn.w /\ conn'.w_file = conn.w_file
      /\ conn'.r_op = conn.r_op /\ conn'.active = conn.active /\ conn'.interest = conn.interest
      /\ \A i, m : Owes(conn', i, m) <=> Owes(conn, i, m) \/ (i = N /\ m = x.len)
      /\ FileOrder(conn) => FileOrder(conn')
      /\ \A e \in Nat : Marked(conn, e) =>
            Marked(conn', e) /\ (MustQueue(conn) /\ Parted(conn, e) => Parted(conn', e))
      /\ Len(conn'.w_q) = Len(conn.w_q) + 1
  <2>1. Grown(conn, conn', x, Len(subs))
    BY <1>0, <1>1, <1>4, <1>5, QueueGrown
  <2>2. QED
    BY <2>1 DEF Grown
<1>7. MustQueue(conn) /\ UNCHANGED <<room, wire>>
  BY DEF SendQueued
<1>8. Unwatched(conn')
  <2>1. conn.active
    BY <1>0, <1>7 DEF Unwatched, MustQueue
  <2>2. QED  BY <2>1, <1>6 DEF Unwatched
<1>9. Covered(conn')
  <2>1. WRITE \in Mask(conn)
    BY <1>7 DEF MustQueue, Mask
  <2>2. Mask(conn') \subseteq Mask(conn) \cup {WRITE}
    BY <1>6 DEF Mask
  <2>3. QED  BY <2>1, <2>2, <1>0, <1>6 DEF Covered
<1>10. ConnOK(conn', Len(subs'), sock')
  BY <1>3, <1>6, <1>8, <1>9 DEF ConnOK
<1>11. LifeOK' /\ DispOK' /\ BufOK' /\ SubsOK'
  BY <1>0, <1>3, <1>6, <1>7 DEF LifeOK, DispOK, BufOK, SubsOK
<1>12. SlotInv'
  BY <1>10, <1>11 DEF SlotInv
<1>13. Front(conn) => Front(conn')
  BY <1>6, <1>7 DEF Front, MustQueue
<1>14. Submits(0, len, "pending", FALSE)
  <2>1. Wired(N, 0)
    BY <1>0, <1>7, WiredNone
  <2>2. len - 0 = x.len /\ x.len # 0 /\ len # 0 /\ 0 < len
    BY <1>1, <1>4
  <2>3. Kept(conn, conn')
    BY <1>6, KeptInPlace
  <2>4. ~FileIs(conn', N)
    BY <1>0, <1>6 DEF FileIs, InLine
  <2>5. \A i, m : Owes(conn', i, m) <=>
           Owes(conn, i, m) \/ ("pending" = "pending" /\ i = N /\ m = len - 0 /\ m # 0)
    <3> SUFFICES ASSUME NEW i, NEW m
                 PROVE  Owes(conn', i, m) <=> Owes(conn, i, m) \/ (i = N /\ m = len - 0 /\ m # 0)
      OBVIOUS
    <3>1. Owes(conn', i, m) <=> Owes(conn, i, m) \/ (i = N /\ m = x.len)
      BY <1>6
    <3>2. (m = x.len) <=> (m = len - 0 /\ m # 0)
      BY <2>2
    <3>3. QED  BY <3>1, <3>2
  <2>6. QED
    BY <1>1, <1>3, <2>1, <2>2, <2>3, <2>4, <2>5 DEF Submits
<1>15. QED
  BY <1>6, <1>7, <1>12, <1>13, <1>14 DEF Joined

\* A submission that is over at once: the slot stays as it is.
LEMMA OverAtOnce ==
    ASSUME SlotInv, NEW len \in Nat, NEW tag \in Tag, NEW file \in BOOLEAN,
           NEW status \in Status \ {"pending"}, NEW k \in Nat,
           Len(subs) < MaxSub, sock # "none", UNCHANGED <<conn, life, disp, sock>>,
           subs' = Fresh(file, len, tag, status),
           BufOK', Wired(Len(subs) + 1, k),
           status = "ok" => k = len,
           k > 0 => /\ sock = "up" /\ conn.w.left = 0 /\ conn.w_file.left = 0
                    /\ file \/ conn.w_q = <<>>
    PROVE  SlotInv' /\ Submits(k, len, status, file)
<1> DEFINE N == Len(subs) + 1
<1>0. /\ Shaped(conn) /\ InLine(conn, Len(subs)) /\ Unwatched(conn) /\ Covered(conn)
      /\ Len(subs) \in Nat /\ LifeOK /\ DispOK /\ BufOK /\ SubsOK
  BY SlotFacts
<1>1. /\ subs' \in Seq(Sub) /\ Len(subs') = N /\ N <= MaxSub
      /\ \A i \in 1..Len(subs) : subs'[i] = subs[i]
      /\ subs'[N].life = life /\ subs'[N].file = file /\ subs'[N].len = len
      /\ subs'[N].status = status
  <2>1. Extends(subs', file, len, status)
    BY <1>0, FreshTyped
  <2>2. QED
    BY <2>1 DEF Extends
<1>2. InLine(conn, N)
  BY <1>0, LineGrows
<1>3. ConnOK(conn', Len(subs'), sock')
  BY <1>0, <1>1, <1>2 DEF ConnOK
<1>4. LifeOK' /\ DispOK' /\ SubsOK'
  BY <1>0, <1>1 DEF LifeOK, DispOK, SubsOK
<1>5. SlotInv'
  BY <1>3, <1>4 DEF SlotInv
<1>6. Submits(k, len, status, file)
  BY <1>1 DEF Submits, Kept
<1>7. QED
  BY <1>5, <1>6

\* A descriptor is made known to the readiness loop.
LEMMA Activated ==
    ASSUME NEW c, Shaped(c), NEW S \in SUBSET {READ, WRITE}, Mask(c) \subseteq S
    PROVE  LET d == [c EXCEPT !.active = TRUE, !.interest = S] IN
           /\ Shaped(d) /\ Covered(d) /\ Unwatched(d) /\ d.r_op = c.r_op
           /\ d.w = c.w /\ d.w_q = c.w_q /\ d.w_file = c.w_file
<1> DEFINE d == [c EXCEPT !.active = TRUE, !.interest = S]
<1>1. /\ d \in Conn /\ d.w = c.w /\ d.w_q = c.w_q /\ d.w_file = c.w_file /\ d.r_op = c.r_op
      /\ d.active = TRUE /\ d.interest = S
  BY DEF Shaped, Conn
<1> HIDE DEF d
<1>2. Mask(d) = Mask(c)
  BY <1>1 DEF Mask
<1>3. QED
  BY <1>1, <1>2 DEF Shaped, Covered, Unwatched, d

\* The slot is watched for the work c that has come to it.
Rearmed(c, d) ==
    /\ Shaped(d) /\ Covered(d) /\ Unwatched(d) /\ d.r_op = c.r_op
    /\ d.w = c.w /\ d.w_q = c.w_q /\ d.w_file = c.w_file

\* Work that comes to a slot is watched for, whether aio_apply_interest adjusts
\* the interest or dyn_evloop_add registers the descriptor.
LEMMA WriteRearms ==
    ASSUME NEW c, Shaped(c), NEW b, Unwatched(b), b.active \in BOOLEAN, c.active = b.active, c.r_op = b.r_op,
           NEW d,
           \/ b.active /\ d = aio_apply_interest(c)
           \/ ~b.active /\ d = [c EXCEPT !.active = TRUE, !.interest = {WRITE}]
    PROVE  Rearmed(c, d)
<1>1. CASE b.active /\ d = aio_apply_interest(c)
  <2>1. /\ Shaped(d) /\ Covered(d)
        /\ d.w = c.w /\ d.w_q = c.w_q /\ d.w_file = c.w_file
        /\ d.r_op = c.r_op /\ d.active = c.active
    BY <1>1, InterestApplied
  <2>2. Unwatched(d)
    BY <1>1, <2>1 DEF Unwatched
  <2>3. QED  BY <2>1, <2>2 DEF Rearmed
<1>2. CASE ~b.active /\ d = [c EXCEPT !.active = TRUE, !.interest = {WRITE}]
  <2>1. c.r_op = "none"
    BY <1>2 DEF Unwatched
  <2>2. Mask(c) \subseteq {WRITE}
    BY <2>1 DEF Mask
  <2>3. QED
    BY <1>2, <2>2, Activated DEF Rearmed
<1>3. QED
  BY <1>1, <1>2

\* A send goes out in part, and the rest is the write under way; when the
\* descriptor cannot be registered the send is refused.
LEMMA SendPartStep ==
    ASSUME SlotInv, NEW len \in Lens, NEW tag \in Tag, NEW added \in BOOLEAN,
           Len(subs) < MaxSub, sock # "none",
           SendPart(len, tag, added), UNCHANGED <<life, disp, sock>>
    PROVE  Joined
<1> DEFINE N == Len(subs) + 1
           n == Accepts(len)
           c == [conn EXCEPT !.w = [id |-> N, left |-> len - n]]
<1>0. /\ Shaped(conn) /\ conn \in Conn /\ InLine(conn, Len(subs)) /\ Unwatched(conn) /\ Covered(conn)
      /\ Len(subs) \in Nat /\ conn.w.left \in Nat /\ conn.w_file.left \in Nat /\ conn.active \in BOOLEAN
      /\ Idle.left = 0 /\ LifeOK /\ DispOK /\ BufOK /\ SubsOK
  BY SlotFacts
<1>1. len \in Nat /\ len > 0
  BY BoundAssumption
<1>2. n \in Nat /\ n <= room /\ (n > 0 => sock = "up")
  BY <1>0, <1>1, AcceptsWithin
<1>3. N \in Id /\ N <= MaxSub
  BY <1>0, BoundAssumption DEF Id
<1> HIDE DEF n
<1>4. /\ ~MustQueue(conn) /\ sock # "broken" /\ n < len
      /\ conn.active => added
      /\ Takes(N, n)
      /\ conn' = CASE conn.active -> aio_apply_interest(c)
                   [] ~conn.active /\ added -> [c EXCEPT !.active = TRUE, !.interest = {WRITE}]
                   [] OTHER -> conn
      /\ subs' = Fresh(FALSE, len, tag, IF added THEN "pending" ELSE "refused")
  BY DEF SendPart, n
<1>5. BufOK' /\ Wired(N, n)
  BY <1>0, <1>2, <1>3, <1>4, WiredTakes
<1>6. conn.w.left = 0 /\ conn.w_file.left = 0 /\ conn.w_q = <<>>
  BY <1>0, <1>4 DEF MustQueue
<1>7. CASE ~added
  <2>1. conn' = conn /\ subs' = Fresh(FALSE, len, tag, "refused")
    BY <1>4, <1>7
  <2>2. "refused" \in Status \ {"pending"} /\ "refused" # "ok"
    BY DEF Status
  <2>3. SlotInv' /\ Submits(n, len, "refused", FALSE)
    BY <1>1, <1>2, <1>5, <1>6, <2>1, <2>2, OverAtOnce
  <2>4. QED
    BY <2>1, <2>3 DEF Joined
<1>8. CASE added
  <2> DEFINE x == len - n
  <2>1. x \in Nat \ {0}
    BY <1>1, <1>2, <1>4
  <2>2. /\ Shaped(c) /\ InLine(c, N) /\ Front(c) /\ FileOrder(c)
        /\ c.w.left = x /\ c.w.id = N /\ c.w_q = <<>> /\ c.w_file = conn.w_file
        /\ c.r_op = conn.r_op /\ c.active = conn.active
        /\ \A i, m : ~Owes(conn, i, m)
        /\ \A i, m : Owes(c, i, m) <=> i = N /\ m = x
        /\ \A b : Marked(c, b) /\ Parted(c, b)
    <3> HIDE DEF x
    <3>1. c = [conn EXCEPT !.w = [id |-> N, left |-> x]]
      BY DEF x
    <3>2. Started(conn, c, Len(subs), x)
      BY <1>0, <1>3, <1>4, <2>1, <3>1, WriteStarted
    <3> HIDE DEF c
    <3>3. QED
      BY <3>2 DEF Started
  <2>3. /\ subs' \in Seq(Sub) /\ Len(subs') = N
        /\ \A i \in 1..Len(subs) : subs'[i] = subs[i]
        /\ subs'[N].life = life /\ subs'[N].file = FALSE /\ subs'[N].len = len
        /\ subs'[N].status = "pending"
    <3>1. subs' = Fresh(FALSE, len, tag, "pending") /\ "pending" \in Status
      BY <1>4, <1>8 DEF Status
    <3>2. Extends(subs', FALSE, len, "pending")
      BY <1>0, <1>1, <3>1, FreshTyped
    <3>3. QED  BY <3>2 DEF Extends
  <2> HIDE DEF c
  <2>4. Rearmed(c, conn')
    <3>1. \/ conn.active /\ conn' = aio_apply_interest(c)
          \/ ~conn.active /\ conn' = [c EXCEPT !.active = TRUE, !.interest = {WRITE}]
      BY <1>4, <1>8
    <3>2. QED  BY <1>0, <2>2, <3>1, WriteRearms
  <2>5. /\ Shaped(conn') /\ Covered(conn') /\ Unwatched(conn')
        /\ conn'.w = c.w /\ conn'.w_q = c.w_q /\ conn'.w_file = c.w_file
    BY <2>4 DEF Rearmed
  <2>6. /\ InLine(conn', N) /\ Front(conn') /\ FileOrder(conn')
        /\ \A i, m : Owes(conn', i, m) <=> i = N /\ m = x
        /\ \A b : Marked(conn', b) /\ Parted(conn', b)
    BY <2>2, <2>5, OtherFields
  <2>7. ConnOK(conn', Len(subs'), sock')
    BY <2>3, <2>5, <2>6 DEF ConnOK
  <2>8. LifeOK' /\ DispOK' /\ SubsOK'
    BY <1>0, <1>3, <2>1, <2>2, <2>3, <2>5 DEF LifeOK, DispOK, SubsOK
  <2>9. SlotInv'
    BY <1>5, <2>7, <2>8 DEF SlotInv
  <2>10. Submits(n, len, "pending", FALSE)
    <3>1. \A i, m : Owes(conn', i, m) <=>
             Owes(conn, i, m) \/ ("pending" = "pending" /\ i = N /\ m = len - n /\ m # 0)
      BY <2>1, <2>2, <2>6
    <3>2. n <= len /\ n < len
      BY <1>1, <1>2, <1>4
    <3>3. Kept(conn, conn')
      BY <2>2 DEF Kept
    <3>4. ~FileIs(conn', N) /\ Turn(conn') = N
      BY <1>6, <2>1, <2>2, <2>5 DEF FileIs, Turn
    <3>5. QED
      BY <1>1, <1>2, <1>5, <1>6, <2>3, <3>1, <3>2, <3>3, <3>4 DEF Submits
  <2>12. QED
    BY <2>6, <2>9, <2>10 DEF Joined
<1>9. QED
  BY <1>7, <1>8

\* Every way a send is taken or refused.
LEMMA SendStep ==
    ASSUME SlotInv, NEW len \in Lens, NEW tag \in Tag, NEW added \in BOOLEAN,
           aio_send_raw(len, tag, added)
    PROVE  Joined
<1>0. /\ Len(subs) < MaxSub /\ sock # "none" /\ UNCHANGED <<life, disp, sock>>
      /\ BufOK /\ SubsOK /\ Len(subs) \in Nat /\ conn.w.left \in Nat /\ conn.w_file.left \in Nat
  BY SlotFacts, QuotaWithin DEF aio_send_raw
<1>1. len \in Nat /\ len > 0
  BY BoundAssumption
<1>2. CASE SendQueued(len, tag)
  BY <1>0, <1>2, SendQueuedStep
<1>3. CASE SendFails(len, tag)
  <2>1. UNCHANGED <<conn, room, wire>> /\ subs' = Fresh(FALSE, len, tag, "refused")
    BY <1>3 DEF SendFails
  <2>2. "refused" \in Status \ {"pending"} /\ "refused" # "ok"
    BY DEF Status
  <2>3. BufOK' /\ Wired(Len(subs) + 1, 0)
    BY <1>0, <2>1, WiredNone DEF BufOK
  <2>4. SlotInv' /\ Submits(0, len, "refused", FALSE)
    <3>1. 0 \in Nat /\ ~(0 > 0) /\ FALSE \in BOOLEAN
      OBVIOUS
    <3>2. QED
      BY <1>0, <1>1, <2>1, <2>2, <2>3, <3>1, OverAtOnce
  <2>5. QED
    BY <2>1, <2>4 DEF Joined
<1>4. CASE SendWhole(len, tag)
  <2>1. /\ ~MustQueue(conn) /\ UNCHANGED conn /\ subs' = Fresh(FALSE, len, tag, "ok")
        /\ Accepts(len) = len /\ Takes(Len(subs) + 1, Accepts(len))
    BY <1>4 DEF SendWhole, Completes
  <2>2. "ok" \in Status \ {"pending"}
    BY DEF Status
  <2>3. len <= room /\ sock = "up" /\ Len(subs) + 1 \in Id
    <3>1. /\ Accepts(len) \in Nat /\ Accepts(len) <= room
          /\ Accepts(len) > 0 => sock = "up"
      BY <1>0, <1>1, AcceptsWithin
    <3>2. Len(subs) + 1 \in Id
      BY <1>0, BoundAssumption DEF Id
    <3>3. QED
      BY <1>1, <2>1, <3>1, <3>2
  <2>4. BufOK' /\ Wired(Len(subs) + 1, len)
    BY <1>0, <1>1, <2>1, <2>3, WiredTakes
  <2>5. conn.w.left = 0 /\ conn.w_file.left = 0 /\ conn.w_q = <<>>
    BY <1>0, <2>1 DEF MustQueue
  <2>6. SlotInv' /\ Submits(len, len, "ok", FALSE)
    BY <1>0, <1>1, <2>1, <2>2, <2>3, <2>4, <2>5, OverAtOnce
  <2>7. QED
    BY <2>1, <2>6 DEF Joined
<1>5. CASE SendPart(len, tag, added)
  BY <1>0, <1>5, SendPartStep
<1>6. QED
  BY <1>2, <1>3, <1>4, <1>5 DEF aio_send_raw

\* What the submission of a file body does.  It stands behind all there is,
\* and may be the connection's first, or is over at once.
JoinedFile ==
    /\ SlotInv' /\ (Front(conn) => Front(conn'))
    /\ FileOrder(conn) => FileOrder(conn')
    /\ \E k, len, status :
          /\ Submits(k, len, status, TRUE)
          /\ \A b \in Nat : Marked(conn, b) =>
                \E e : /\ e = b \/ (e = Len(subs) + 1 /\ status = "pending")
                      /\ Marked(conn', e) /\ (Parted(conn, b) => Parted(conn', e))

\* A file body is over at once: what waits behind it is promoted.
LEMMA FileOver ==
    ASSUME SlotInv, NEW len \in Nat, NEW k \in Nat, NEW status \in Status \ {"pending"},
           Len(subs) < MaxSub, sock # "none", UNCHANGED <<life, disp, sock>>,
           conn.w_file.left = 0, conn.w.left = 0, conn' = aio_file_done(conn),
           Extends(subs', TRUE, len, status),
           BufOK', Wired(Len(subs) + 1, k),
           status = "ok" => k = len, k > 0 => sock = "up"
    PROVE  JoinedFile
<1> DEFINE N == Len(subs) + 1
<1>0. /\ Shaped(conn) /\ InLine(conn, Len(subs)) /\ Unwatched(conn)
      /\ Len(subs) \in Nat /\ Idle.id = 0 /\ Idle.left = 0 /\ LifeOK /\ DispOK /\ BufOK /\ SubsOK
  BY SlotFacts
<1>1. /\ subs' \in Seq(Sub) /\ Len(subs') = N /\ N <= MaxSub
      /\ \A i \in 1..Len(subs) : subs'[i] = subs[i]
      /\ subs'[N].life = life /\ subs'[N].file = TRUE /\ subs'[N].len = len
      /\ subs'[N].status = status
  BY DEF Extends
<1>2. /\ Shaped(conn') /\ InLine(conn', Len(subs)) /\ Front(conn') /\ Covered(conn')
      /\ conn'.w_file = Idle /\ Unwatched(conn')
      /\ \A i, m : Owes(conn', i, m) <=> Owes(conn, i, m) /\ i # conn.w_file.id
      /\ FileOrder(conn')
      /\ \A b \in Nat : Marked(conn, b) => Marked(conn', b) /\ Parted(conn', b)
  BY <1>0, FileEnded
<1>3. InLine(conn', N)
  BY <1>0, <1>2, LineGrows
<1>4. ConnOK(conn', Len(subs'), sock')
  BY <1>1, <1>2, <1>3 DEF ConnOK
<1>5. LifeOK' /\ SubsOK'
  BY <1>0, <1>1 DEF LifeOK, SubsOK
<1>6. DispOK'
  <2>1. disp.at # "write"
    BY <1>0 DEF DispOK
  <2>2. QED  BY <1>0, <2>1 DEF DispOK
<1>7. SlotInv'
  BY <1>4, <1>5, <1>6 DEF SlotInv
<1>8. Submits(k, len, status, TRUE)
  <2>1. \A m : ~Owes(conn, conn.w_file.id, m)
    BY <1>0, EmptyNotOwed
  <2>2. \A i, m : Owes(conn', i, m) <=> Owes(conn, i, m)
    BY <1>2, <2>1
  <2>3. Kept(conn, conn')
    BY <1>0, <1>2, <2>1 DEF Kept, Turn, FileIs
  <2>4. QED
    BY <1>1, <2>2, <2>3 DEF Submits
<1>10. QED
  BY <1>2, <1>7, <1>8 DEF JoinedFile

\* A file body goes out in part, or waits for the write under way; when the
\* descriptor cannot be registered it is refused.
LEMMA FilePartStep ==
    ASSUME SlotInv, NEW len \in FileLens, NEW tag \in Tag, NEW added \in BOOLEAN,
           Len(subs) < MaxSub, sock # "none",
           FilePart(len, tag, added), UNCHANGED <<life, disp, sock>>
    PROVE  JoinedFile
<1> DEFINE N == Len(subs) + 1
           n == IF conn.w.left = 0 THEN Accepts(len) ELSE 0
           c == [conn EXCEPT !.w_file = [id |-> N, left |-> len - n]]
<1>0. /\ Shaped(conn) /\ conn \in Conn /\ InLine(conn, Len(subs)) /\ Unwatched(conn) /\ Covered(conn)
      /\ Len(subs) \in Nat /\ conn.w.left \in Nat /\ conn.w_file.left \in Nat /\ conn.active \in BOOLEAN
      /\ Idle.left = 0 /\ Idle.id = 0 /\ LifeOK /\ DispOK /\ BufOK /\ SubsOK
  BY SlotFacts
<1>1. len \in Nat
  BY BoundAssumption
<1>2. n \in Nat /\ n <= room /\ n <= len /\ (n > 0 => sock = "up" /\ conn.w.left = 0)
  BY <1>0, <1>1, AcceptsWithin, BoundAssumption DEF BufOK
<1>3. N \in Id /\ N <= MaxSub
  BY <1>0, BoundAssumption DEF Id
<1> HIDE DEF n
<1>4. /\ conn.w_file.left = 0
      /\ conn.w.left > 0 \/ (sock # "broken" /\ n < len)
      /\ conn.active => added
      /\ Takes(N, n)
      /\ conn' = CASE conn.active -> aio_apply_interest(c)
                   [] ~conn.active /\ added -> [c EXCEPT !.active = TRUE, !.interest = {WRITE}]
                   [] OTHER -> conn
      /\ subs' = Fresh(TRUE, len, tag, IF added THEN "pending" ELSE "refused")
  BY DEF FilePart, Watched, n
<1>5. BufOK' /\ Wired(N, n)
  BY <1>0, <1>2, <1>3, <1>4, WiredTakes
<1>7. CASE ~added
  <2>1. conn' = conn /\ subs' = Fresh(TRUE, len, tag, "refused")
    BY <1>4, <1>7
  <2>2. "refused" \in Status \ {"pending"} /\ "refused" # "ok" /\ TRUE \in BOOLEAN
    BY DEF Status
  <2>3. SlotInv' /\ Submits(n, len, "refused", TRUE)
    BY <1>1, <1>2, <1>4, <1>5, <2>1, <2>2, OverAtOnce
  <2>4. QED
    BY <2>1, <2>3 DEF JoinedFile
<1>8. CASE added
  <2> DEFINE x == len - n
  <2>1. x \in Nat
    BY <1>1, <1>2
  <2>2. /\ Shaped(c) /\ InLine(c, N) /\ (Front(conn) => Front(c))
        /\ c.w = conn.w /\ c.w_q = conn.w_q /\ c.w_file.left = x /\ c.w_file.id = N
        /\ c.r_op = conn.r_op /\ c.active = conn.active
        /\ \A i, m : Owes(c, i, m) <=> Owes(conn, i, m) \/ (i = N /\ m = x /\ m # 0)
        /\ FileOrder(c) /\ Kept(conn, c)
        /\ \A b \in Nat : Marked(conn, b) => \E e \in {b, N} :
              Marked(c, e) /\ (Parted(conn, b) => Parted(c, e))
    <3> HIDE DEF x
    <3>1. c = [conn EXCEPT !.w_file = [id |-> N, left |-> x]]
      BY DEF x
    <3>2. StartedFile(conn, c, Len(subs), x)
      BY <1>0, <1>3, <1>4, <2>1, <3>1, FileStarted
    <3> HIDE DEF c
    <3>3. QED
      BY <3>2 DEF StartedFile
  <2>3. /\ subs' \in Seq(Sub) /\ Len(subs') = N
        /\ \A i \in 1..Len(subs) : subs'[i] = subs[i]
        /\ subs'[N].life = life /\ subs'[N].file = TRUE /\ subs'[N].len = len
        /\ subs'[N].status = "pending"
    <3>1. subs' = Fresh(TRUE, len, tag, "pending") /\ "pending" \in Status
      BY <1>4, <1>8 DEF Status
    <3>2. Extends(subs', TRUE, len, "pending")
      BY <1>0, <1>1, <3>1, FreshTyped
    <3>3. QED  BY <3>2 DEF Extends
  <2> HIDE DEF c
  <2>4. Rearmed(c, conn')
    <3>1. \/ conn.active /\ conn' = aio_apply_interest(c)
          \/ ~conn.active /\ conn' = [c EXCEPT !.active = TRUE, !.interest = {WRITE}]
      BY <1>4, <1>8
    <3>2. QED  BY <1>0, <2>2, <3>1, WriteRearms
  <2>5. /\ Shaped(conn') /\ Covered(conn') /\ Unwatched(conn')
        /\ conn'.w = c.w /\ conn'.w_q = c.w_q /\ conn'.w_file = c.w_file
    BY <2>4 DEF Rearmed
  <2>6. /\ InLine(conn', N) /\ (Front(conn) => Front(conn'))
        /\ \A i, m : Owes(conn', i, m) <=> Owes(conn, i, m) \/ (i = N /\ m = x /\ m # 0)
        /\ FileOrder(conn') /\ Kept(conn, conn')
    BY <2>2, <2>5, OtherFields
  <2>6a. ASSUME NEW b \in Nat, Marked(conn, b)
         PROVE  \E e : /\ e = b \/ (e = N /\ "pending" = "pending")
                       /\ Marked(conn', e) /\ (Parted(conn, b) => Parted(conn', e))
    <3>1. PICK e \in {b, N} : Marked(c, e) /\ (Parted(conn, b) => Parted(c, e))
      BY <2>2, <2>6a
    <3>2. Marked(conn', e) /\ (Parted(conn, b) => Parted(conn', e))
      BY <2>5, <3>1, OtherFields
    <3>3. QED  BY <3>2
  <2>7. ConnOK(conn', Len(subs'), sock')
    BY <2>3, <2>5, <2>6 DEF ConnOK
  <2>8. LifeOK' /\ DispOK' /\ SubsOK'
    BY <1>0, <1>3, <2>2, <2>3, <2>5 DEF LifeOK, DispOK, SubsOK
  <2>9. SlotInv'
    BY <1>5, <2>7, <2>8 DEF SlotInv
  <2>10. Submits(n, len, "pending", TRUE)
    <3>1. \A i, m : Owes(conn', i, m) <=>
             Owes(conn, i, m) \/ ("pending" = "pending" /\ i = N /\ m = len - n /\ m # 0)
      BY <2>6
    <3>2. len > 0 => n < len
      BY <1>0, <1>1, <1>2, <1>4
    <3>3. n < len => FileIs(conn', N)
      BY <1>1, <1>2, <2>2, <2>5 DEF FileIs
    <3>4. n > 0 => Turn(conn') = N
      BY <1>2, <2>2, <2>5 DEF Turn
    <3>5. QED
      BY <1>1, <1>2, <1>4, <1>5, <2>3, <2>6, <3>1, <3>2, <3>3, <3>4 DEF Submits
  <2> HIDE DEF x, n
  <2>14. QED
    BY <2>6, <2>6a, <2>9, <2>10 DEF JoinedFile
<1>9. QED
  BY <1>7, <1>8

\* dyn_aio_sendfile: refused, failed, taken at once or in part.
LEMMA FileStep ==
    ASSUME SlotInv, NEW len \in FileLens, NEW tag \in Tag, NEW added \in BOOLEAN,
           dyn_aio_sendfile(len, tag, added)
    PROVE  JoinedFile
<1>0. /\ Len(subs) < MaxSub /\ sock # "none" /\ UNCHANGED <<life, disp, sock>>
      /\ BufOK /\ SubsOK /\ LifeOK /\ Len(subs) \in Nat /\ conn.w.left \in Nat
      /\ conn.w_file.left \in Nat /\ Len(subs) + 1 \in Id
  BY SlotFacts, QuotaWithin, BoundAssumption DEF dyn_aio_sendfile, Id
<1>1. len \in Nat
  BY BoundAssumption
<1>2. CASE FileBusy(len, tag)
  <2>1. UNCHANGED <<conn, room, wire>> /\ subs' = Fresh(TRUE, len, tag, "refused")
    BY <1>2 DEF FileBusy
  <2>2. "refused" \in Status \ {"pending"} /\ "refused" # "ok"
    BY DEF Status
  <2>3. BufOK' /\ Wired(Len(subs) + 1, 0)
    BY <1>0, <2>1, WiredNone DEF BufOK
  <2>4. SlotInv' /\ Submits(0, len, "refused", TRUE)
    <3>1. 0 \in Nat /\ ~(0 > 0) /\ TRUE \in BOOLEAN
      OBVIOUS
    <3>2. QED
      BY <1>0, <1>1, <2>1, <2>2, <2>3, <3>1, OverAtOnce
  <2>5. QED
    BY <2>1, <2>4 DEF JoinedFile
<1>3. CASE FileFails(len, tag)
  <2> DEFINE N == Len(subs) + 1
             s == Fresh(TRUE, len, tag, "failed")
  <2>1. /\ conn.w_file.left = 0 /\ conn.w.left = 0 /\ conn' = aio_file_done(conn)
        /\ subs' = [s EXCEPT ![N].blame = life] /\ UNCHANGED <<room, wire>>
    BY <1>3 DEF FileFails
  <2>2. "failed" \in Status \ {"pending"} /\ "failed" # "ok"
    BY DEF Status
  <2>3. BufOK' /\ Wired(N, 0)
    BY <1>0, <2>1, WiredNone DEF BufOK
  <2>4. Extends(s, TRUE, len, "failed")
    BY <1>0, <1>1, <2>2, FreshTyped
  <2> HIDE DEF s
  <2>5. Extends(subs', TRUE, len, "failed")
    <3> DEFINE t == [s[N] EXCEPT !.blame = life]
    <3>1. /\ s \in Seq(Sub) /\ Len(s) = N /\ N <= MaxSub /\ N \in Id /\ N \in 1..Len(s)
          /\ \A i \in 1..Len(subs) : s[i] = subs[i] /\ i \in 1..Len(s) /\ i # N
          /\ s[N].life = life /\ s[N].file = TRUE /\ s[N].len = len /\ s[N].status = "failed"
      BY <2>4, <1>0 DEF Extends
    <3>2. s[N] \in Sub /\ life \in 0..MaxLife
      BY <3>1, <1>0 DEF LifeOK
    <3>3. t \in Sub /\ t.life = s[N].life /\ t.file = s[N].file /\ t.len = s[N].len
          /\ t.status = s[N].status
      BY <3>2 DEF Sub
    <3>4. subs' = [s EXCEPT ![N] = t]
      BY <2>1
    <3> HIDE DEF t
    <3>5. /\ subs' \in Seq(Sub) /\ Len(subs') = N /\ subs'[N] = t
          /\ \A i \in 1..Len(subs) : subs'[i] = subs[i]
      BY <3>1, <3>3, <3>4
    <3>6. QED
      BY <3>1, <3>3, <3>5 DEF Extends
  <2>6. QED
    <3>1. 0 \in Nat /\ ~(0 > 0)
      OBVIOUS
    <3>2. QED
      BY <1>0, <1>1, <2>1, <2>2, <2>3, <2>5, <3>1, FileOver
<1>4. CASE FileWhole(len, tag)
  <2>1. /\ conn.w_file.left = 0 /\ conn.w.left = 0 /\ conn' = aio_file_done(conn)
        /\ subs' = Fresh(TRUE, len, tag, "ok")
        /\ Accepts(len) = len /\ Takes(Len(subs) + 1, Accepts(len))
    BY <1>4 DEF FileWhole, Completes
  <2>2. "ok" \in Status \ {"pending"}
    BY DEF Status
  <2>3. len <= room /\ (len > 0 => sock = "up")
    BY <1>0, <1>1, <2>1, AcceptsWithin
  <2>4. BufOK' /\ Wired(Len(subs) + 1, len)
    BY <1>0, <1>1, <2>1, <2>3, WiredTakes
  <2>5. Extends(subs', TRUE, len, "ok")
    BY <1>0, <1>1, <2>1, <2>2, FreshTyped
  <2>6. QED
    BY <1>0, <1>1, <2>1, <2>2, <2>3, <2>4, <2>5, FileOver
<1>5. CASE FilePart(len, tag, added)
  BY <1>0, <1>5, FilePartStep
<1>6. QED
  BY <1>2, <1>3, <1>4, <1>5 DEF dyn_aio_sendfile

\* Steps that leave the slot alone.
LEMMA QuietSteps ==
    ASSUME SlotInv,
           \/ Accepted \/ Connected \/ PeerReads \/ PeerResets
           \/ \E ev \in Events : Dispatch(ev)
           \/ WriteReturns \/ OtherOccupant \/ FileSkipped \/ FileReturns \/ ReadSkipped
    PROVE  SlotInv' /\ Aside
<1>0. /\ Shaped(conn) /\ conn \in Conn /\ InLine(conn, Len(subs)) /\ Unwatched(conn)
      /\ sock # "none" => Covered(conn)
      /\ sock = "none" => conn = Cleared
      /\ conn.w.left \in Nat /\ Idle.left = 0
      /\ LifeOK /\ DispOK /\ BufOK /\ SubsOK
  BY SlotFacts DEF SlotInv, ConnOK
<1>1. UNCHANGED <<conn, life, wire, subs>>
  BY DEF Accepted, Connected, PeerReads, PeerResets, Dispatch, WriteReturns, OtherOccupant,
         FileSkipped, FileReturns, ReadSkipped
<1>2. AtRest \in [at : {"idle", "write", "wcb", "ecb", "rest", "fcb", "read"},
                  ev : SUBSET {READ, WRITE, ERROR}, life0 : 0..MaxLife, err : 0..MaxLife]
      /\ AtRest.at = "idle"
  BY BoundAssumption DEF AtRest
<1>3. CASE Accepted \/ Connected \/ PeerReads \/ PeerResets
  <2>1. UNCHANGED disp /\ room' \in 0..Room
    BY <1>0, <1>3, BoundAssumption DEF Accepted, Connected, PeerReads, PeerResets, BufOK
  <2>2. /\ sock' \in {"up", "broken"} \/ sock' = sock
        /\ sock = "broken" => sock' = "broken"
        /\ sock = "none" /\ sock' # "none" => life < MaxLife
    BY <1>0, <1>3 DEF Accepted, Connected, PeerReads, PeerResets, LifeOK
  <2>3. Covered(Cleared)
    BY DEF Covered, Mask, Cleared, Idle
  <2>4. ConnOK(conn', Len(subs'), sock')
    BY <1>0, <1>1, <2>2, <2>3 DEF ConnOK
  <2>5. LifeOK' /\ DispOK' /\ BufOK' /\ SubsOK'
    BY <1>0, <1>1, <2>1, <2>2 DEF LifeOK, DispOK, BufOK, SubsOK
  <2>6. QED
    BY <1>1, <2>1, <2>2, <2>4, <2>5 DEF SlotInv, Aside
<1>4. CASE \/ \E ev \in Events : Dispatch(ev)
           \/ WriteReturns \/ OtherOccupant \/ FileSkipped \/ FileReturns \/ ReadSkipped
  <2>1. UNCHANGED <<sock, room>> /\ disp.at # "ecb"
    BY <1>4 DEF Dispatch, WriteReturns, OtherOccupant, FileSkipped, FileReturns, ReadSkipped, AtFile
  <2>2. DispOK'
    <3>1. CASE \E ev \in Events : Dispatch(ev)
      <4> PICK ev \in Events : Dispatch(ev)
        BY <3>1
      <4>1. ev \in SUBSET {READ, WRITE, ERROR}
        BY DEF Events
      <4>2. disp' = [at |-> IF Writes(ev) THEN "write" ELSE "rest", ev |-> ev,
                     life0 |-> life, err |-> 0]
        BY DEF Dispatch
      <4>3. Writes(ev) => conn.w.left > 0
        BY DEF Writes
      <4>4. life \in 0..MaxLife /\ 0 \in 0..MaxLife
        BY <1>0, BoundAssumption DEF LifeOK
      <4>5. CASE Writes(ev)
        BY <4>5, <1>1, <4>1, <4>2, <4>3, <4>4 DEF DispOK
      <4>6. CASE ~Writes(ev)
        BY <4>6, <1>1, <4>1, <4>2, <4>4 DEF DispOK
      <4>7. QED  BY <4>5, <4>6
    <3>2. CASE WriteReturns
      <4>1. CASE conn.w.left > 0
        BY <4>1, <1>0, <1>1, <3>2 DEF WriteReturns, DispOK
      <4>2. CASE ~(conn.w.left > 0)
        BY <4>2, <1>0, <1>1, <3>2 DEF WriteReturns, DispOK
      <4>3. QED  BY <4>1, <4>2
    <3>3. CASE OtherOccupant \/ ReadSkipped
      BY <1>2, <3>3 DEF OtherOccupant, ReadSkipped, DispOK
    <3>4. CASE FileSkipped \/ FileReturns
      BY <1>0, <3>4 DEF FileSkipped, FileReturns, DispOK
    <3>5. QED  BY <1>4, <3>1, <3>2, <3>3, <3>4
  <2>3. ConnOK(conn', Len(subs'), sock')
    BY <1>1, <2>1 DEF SlotInv, ConnOK
  <2>4. LifeOK' /\ BufOK' /\ SubsOK'
    BY <1>0, <1>1, <2>1 DEF LifeOK, BufOK, SubsOK
  <2>5. QED
    BY <1>1, <2>1, <2>2, <2>3, <2>4 DEF SlotInv, Aside
<1>5. QED
  BY <1>3, <1>4

\* The reader changes and the slot is watched accordingly.
LEMMA ReaderChanged ==
    ASSUME SlotInv, NEW c, Shaped(c), NEW s, sock' = s, s # "none", sock' \in {"connecting", "up", "broken"},
           c.w = conn.w, c.w_q = conn.w_q, c.w_file = conn.w_file, Covered(c), Unwatched(c), conn' = c,
           life < MaxLife, sock # "none" => sock' = sock, DispOK', room' \in 0..Room,
           disp.at = "ecb" => disp'.at = "ecb",
           UNCHANGED <<life, wire, subs>>
    PROVE  SlotInv' /\ Aside
<1>0. InLine(conn, Len(subs)) /\ LifeOK /\ BufOK /\ SubsOK /\ Len(subs) \in Nat
  BY SlotFacts
<1>1. InLine(c, Len(subs))
  BY <1>0, OtherFields
<1>2. ConnOK(conn', Len(subs'), sock')
  BY <1>1 DEF ConnOK
<1>3. LifeOK' /\ BufOK' /\ SubsOK'
  BY <1>0 DEF LifeOK, BufOK, SubsOK
<1>4. QED
  BY <1>2, <1>3 DEF SlotInv, Aside

\* Steps of the reader and of a connection attempt.
LEMMA ReaderSteps ==
    ASSUME SlotInv,
           \/ aio_connect_on \/ dyn_aio_cancel_reader \/ ConnectDone \/ ReadDone
           \/ \E multishot, added \in BOOLEAN : dyn_aio_recv(multishot, added)
    PROVE  SlotInv' /\ Aside
<1>0. /\ Shaped(conn) /\ conn \in Conn /\ InLine(conn, Len(subs)) /\ Unwatched(conn)
      /\ sock # "none" => Covered(conn)
      /\ sock = "none" => conn = Cleared
      /\ conn.active \in BOOLEAN /\ conn.interest \in SUBSET {READ, WRITE}
      /\ LifeOK /\ DispOK /\ BufOK /\ SubsOK
  BY SlotFacts, FieldTypes DEF SlotInv, ConnOK
<1>1. /\ AtRest \in [at : {"idle", "write", "wcb", "ecb", "rest", "fcb", "read"},
                     ev : SUBSET {READ, WRITE, ERROR}, life0 : 0..MaxLife, err : 0..MaxLife]
      /\ AtRest.at = "idle"
  BY BoundAssumption DEF AtRest
<1>2. room \in 0..Room /\ Room \in 0..Room
  BY <1>0, BoundAssumption DEF BufOK
<1>3. ASSUME NEW r \in {"none", "recv", "connect"}, NEW b \in BOOLEAN
      PROVE  LET c == [conn EXCEPT !.r_op = r, !.r_multishot = b] IN
             /\ Shaped(c) /\ c.w = conn.w /\ c.w_q = conn.w_q /\ c.w_file = conn.w_file
             /\ c.r_op = r /\ c.active = conn.active /\ c.interest = conn.interest
  <2> DEFINE c == [conn EXCEPT !.r_op = r, !.r_multishot = b]
  <2>1. /\ c \in Conn /\ c.w = conn.w /\ c.w_q = conn.w_q /\ c.w_file = conn.w_file
        /\ c.r_op = r /\ c.active = conn.active /\ c.interest = conn.interest
    BY <1>0 DEF Conn
  <2> HIDE DEF c
  <2>2. QED
    BY <1>0, <2>1 DEF Shaped, c
<1>4. \A r \in {"none", "recv", "connect"} :
         [conn EXCEPT !.r_op = r] = [conn EXCEPT !.r_op = r, !.r_multishot = conn.r_multishot]
      /\ conn.r_multishot \in BOOLEAN
  BY <1>0 DEF Conn
<1>5. CASE aio_connect_on
  <2>1. sock = "none" /\ conn = Cleared /\ life < MaxLife /\ sock' = "connecting" /\ room' = Room
        /\ UNCHANGED <<life, disp, wire, subs>>
        /\ conn' = [conn EXCEPT !.r_op = "connect", !.r_multishot = FALSE, !.active = TRUE,
                                !.interest = {WRITE}]
    BY <1>0, <1>5 DEF aio_connect_on
  <2> DEFINE c == [conn EXCEPT !.r_op = "connect", !.r_multishot = FALSE]
  <2>2. /\ Shaped(c) /\ c.w = conn.w /\ c.w_q = conn.w_q /\ c.w_file = conn.w_file
        /\ c.r_op = "connect"
    BY <1>3
  <2>3. conn' = [c EXCEPT !.active = TRUE, !.interest = {WRITE}]
    BY <2>1, <1>0 DEF Conn
  <2> HIDE DEF c
  <2>4. Mask(c) \subseteq {WRITE}
    BY <2>2 DEF Mask
  <2>5. /\ Shaped(conn') /\ Covered(conn') /\ Unwatched(conn')
        /\ conn'.w = c.w /\ conn'.w_q = c.w_q /\ conn'.w_file = c.w_file
    BY <2>2, <2>3, <2>4, Activated
  <2>6. DispOK'
    BY <1>0, <2>1, <2>2, <2>5 DEF DispOK
  <2>7. /\ conn'.w = conn.w /\ conn'.w_q = conn.w_q /\ conn'.w_file = conn.w_file
        /\ sock' = "connecting" /\ "connecting" # "none" /\ life < MaxLife /\ room' \in 0..Room
        /\ sock = "none" /\ UNCHANGED <<life, disp, wire, subs>>
    BY <1>2, <2>1, <2>2, <2>5
  <2>8. QED
    BY <2>5, <2>6, <2>7, ReaderChanged
<1>6. ASSUME dyn_aio_cancel_reader \/ ConnectDone \/ (ReadDone /\ ~conn.r_multishot)
      PROVE  SlotInv' /\ Aside
  <2>1. \E b \in BOOLEAN : conn' = aio_apply_interest([conn EXCEPT !.r_op = "none", !.r_multishot = b])
    BY <1>4, <1>6 DEF dyn_aio_cancel_reader, CancelRead, ConnectDone, ReadDone
  <2>2. sock # "none"
    <3>1. conn.r_op # "none"
      BY <1>6 DEF dyn_aio_cancel_reader, ConnectDone, ConnectEnds, ReadDone, Reads
    <3>2. QED  BY <3>1, <1>0 DEF Cleared
  <2>3. UNCHANGED <<life, sock, room, wire, subs>>
    BY <1>6 DEF dyn_aio_cancel_reader, ConnectDone, ReadDone
  <2>4. disp' = disp \/ (disp' = AtRest /\ disp.at # "ecb")
    BY <1>6 DEF dyn_aio_cancel_reader, ConnectDone, ReadDone
  <2> PICK b \in BOOLEAN : conn' = aio_apply_interest([conn EXCEPT !.r_op = "none", !.r_multishot = b])
    BY <2>1
  <2> DEFINE c == [conn EXCEPT !.r_op = "none", !.r_multishot = b]
  <2>5. /\ Shaped(c) /\ c.w = conn.w /\ c.w_q = conn.w_q /\ c.w_file = conn.w_file
        /\ c.r_op = "none" /\ c.active = conn.active
    BY <1>3
  <2>6. conn' = aio_apply_interest(c)
    OBVIOUS
  <2> HIDE DEF c
  <2>7. /\ Shaped(conn') /\ Covered(conn') /\ conn'.w = conn.w /\ conn'.w_q = conn.w_q
        /\ conn'.w_file = conn.w_file /\ conn'.r_op = "none" /\ conn'.active = conn.active
    BY <2>5, <2>6, InterestApplied
  <2>8. Unwatched(conn')
    BY <1>0, <2>7 DEF Unwatched
  <2>9. DispOK'
    BY <1>0, <1>1, <2>4, <2>7 DEF DispOK
  <2>10. life < MaxLife /\ sock \in {"connecting", "up", "broken"}
    BY <1>0, <2>2 DEF LifeOK
  <2>11. QED
    BY <1>2, <2>2, <2>3, <2>4, <2>7, <2>8, <2>9, <2>10, ReaderChanged
<1>7. CASE ReadDone /\ conn.r_multishot
  <2>1. UNCHANGED <<conn, life, sock, room, wire, subs>> /\ disp' = AtRest /\ disp.at # "ecb"
    BY <1>7 DEF ReadDone
  <2>2. DispOK'
    BY <1>1, <2>1 DEF DispOK
  <2>3. LifeOK' /\ BufOK' /\ SubsOK' /\ ConnOK(conn', Len(subs'), sock')
    BY <1>0, <2>1 DEF LifeOK, BufOK, SubsOK, SlotInv, ConnOK
  <2>4. QED
    BY <2>1, <2>2, <2>3 DEF SlotInv, Aside
<1>8. ASSUME NEW b \in BOOLEAN, NEW added \in BOOLEAN, dyn_aio_recv(b, added)
      PROVE  SlotInv' /\ Aside
  <2> DEFINE c == [conn EXCEPT !.r_op = "recv", !.r_multishot = b]
             e == [conn EXCEPT !.r_op = "none", !.r_multishot = b]
  <2>1. /\ Shaped(c) /\ c.w = conn.w /\ c.w_q = conn.w_q /\ c.w_file = conn.w_file
        /\ c.r_op = "recv" /\ c.active = conn.active
    BY <1>3
  <2>2. /\ Shaped(e) /\ e.w = conn.w /\ e.w_q = conn.w_q /\ e.w_file = conn.w_file
        /\ e.r_op = "none" /\ e.active = conn.active /\ e.interest = conn.interest
    BY <1>3
  <2>3. [c EXCEPT !.r_op = "none"] = e
    BY <1>0 DEF Conn
  <2>4. /\ sock \in {"up", "broken"} /\ UNCHANGED <<life, disp, sock, room, wire, subs>>
        /\ conn' = CASE conn.active -> aio_apply_interest(c)
                     [] ~conn.active /\ added -> [c EXCEPT !.active = TRUE, !.interest = {READ}]
                     [] OTHER -> [c EXCEPT !.r_op = "none"]
    BY <1>8 DEF dyn_aio_recv
  <2>5. life < MaxLife
    BY <1>0, <2>4 DEF LifeOK
  <2>6. /\ Shaped(conn') /\ Covered(conn') /\ Unwatched(conn')
        /\ conn'.w = conn.w /\ conn'.w_q = conn.w_q /\ conn'.w_file = conn.w_file
    <3> HIDE DEF c, e
    <3>1. CASE conn.active
      <4>1. conn' = aio_apply_interest(c)
        BY <2>4, <3>1
      <4>2. /\ Shaped(conn') /\ Covered(conn') /\ conn'.active = c.active
            /\ conn'.w = c.w /\ conn'.w_q = c.w_q /\ conn'.w_file = c.w_file
        BY <2>1, <4>1, InterestApplied
      <4>3. QED  BY <2>1, <3>1, <4>2 DEF Unwatched
    <3>2. CASE ~conn.active /\ added
      <4>1. conn' = [c EXCEPT !.active = TRUE, !.interest = {READ}]
        BY <2>4, <3>2
      <4>2. Mask(c) \subseteq {READ}
        BY <1>0, <2>1, <3>2 DEF Mask, Unwatched, Idle
      <4>3. QED  BY <2>1, <4>1, <4>2, Activated
    <3>3. CASE ~conn.active /\ ~added
      <4>1. conn' = e
        BY <2>3, <2>4, <3>3
      <4>2. Mask(e) = {}
        BY <1>0, <2>2, <3>3 DEF Mask, Unwatched, Idle
      <4>3. QED  BY <1>0, <2>2, <4>1, <4>2 DEF Covered, Unwatched
    <3>4. QED  BY <1>0, <3>1, <3>2, <3>3
  <2>7. DispOK'
    BY <1>0, <2>4, <2>6 DEF DispOK
  <2> HIDE DEF c, e
  <2>8. QED
    BY <1>2, <2>4, <2>5, <2>6, <2>7, ReaderChanged
<1>9. QED
  BY <1>5, <1>6, <1>7, <1>8

\* The write under way comes first.
LEMMA WriteIsFirst ==
    ASSUME NEW c, Shaped(c), NEW n, InLine(c, n), FileOrder(c), NEW i, NEW m, Owes(c, i, m)
    PROVE  c.w.id <= i
<1>1. /\ c.w.id \in Nat /\ c.w_file.id \in Nat /\ c.w_file.left \in Nat /\ Idle.id = 0
      /\ \A k \in 1..Len(c.w_q) : c.w_q[k].id \in Nat
  BY FieldTypes DEF Shaped
<1>2. CASE c.w.id = i
  BY <1>1, <1>2
<1>3. CASE \E k \in 1..Len(c.w_q) : c.w_q[k].id = i
  BY <1>1, <1>3 DEF InLine
<1>4. CASE c.w_file.id = i /\ c.w_file.left = m /\ m # 0
  <2>1. c.w_file.left > 0
    BY <1>1, <1>4
  <2>2. QED  BY <1>1, <1>4, <2>1 DEF FileOrder
<1>5. QED
  BY <1>2, <1>3, <1>4 DEF Owes

\* A file body whose turn it is comes first, but for the sends after b.
LEMMA FileIsFirst ==
    ASSUME NEW c, Shaped(c), NEW n, InLine(c, n), NEW b, Parted(c, b),
           c.w_file.left > 0, c.w.left = 0, NEW i, NEW m, Owes(c, i, m)
    PROVE  c.w_file.id <= i \/ (FileIs(c, c.w_file.id) /\ ~FileIs(c, i) /\ i > b)
<1>1. c.w_file.id \in Nat /\ Idle.id = 0 /\ c.w = Idle
  BY FieldTypes DEF Shaped
<1>2. CASE i # 0 /\ c.w.id = i
  BY <1>1, <1>2
<1>3. CASE \E k \in 1..Len(c.w_q) : c.w_q[k].id = i
  <2>1. PICK k \in 1..Len(c.w_q) : c.w_q[k].id = i
    BY <1>3
  <2>2. i > b
    BY <2>1 DEF Parted
  <2>3. i # c.w_file.id
    BY <2>1 DEF InLine
  <2>4. QED  BY <2>2, <2>3 DEF FileIs
<1>4. CASE c.w_file.id = i
  BY <1>1, <1>4
<1>5. QED
  BY <1>2, <1>3, <1>4 DEF Owes

\* The end of the write under way, with the callback's status.
LEMMA WriteDoneStep ==
    ASSUME SlotInv, WriteDone
    PROVE  SlotInv' /\ LineKept /\ \E ids, j, k, status : Ends(ids, j, k, status)
<1> DEFINE g == aio_wq_promote([conn EXCEPT !.w = Idle])
           j == conn.w.id
           k == conn.w.left
<1>0. /\ Shaped(conn) /\ conn \in Conn /\ InLine(conn, Len(subs)) /\ Unwatched(conn)
      /\ Len(subs) \in Nat /\ DOMAIN subs = 1..Len(subs) /\ j \in Nat /\ k \in Nat
      /\ Idle.left = 0 /\ LifeOK /\ DispOK /\ BufOK /\ SubsOK
  BY SlotFacts
<1>1. /\ disp.at = "write" /\ Accepts(k) = k /\ Takes(j, k) /\ Report({j}, "ok", 0)
      /\ conn' = aio_apply_interest(g)
      /\ disp' = [disp EXCEPT !.at = "wcb"] /\ UNCHANGED <<life, sock>>
  BY DEF WriteDone, Completes
<1>2. k > 0 /\ conn.w # Idle
  BY <1>0, <1>1 DEF DispOK
<1>3. sock # "none"
  BY <1>2 DEF SlotInv, ConnOK, Cleared
<1>4. j \in Id /\ j # 0
  BY <1>0, <1>2, FieldTypes, BoundAssumption DEF Write, Id
<1>5. BufOK' /\ Wired(j, k)
  BY <1>0, <1>1, <1>4, AcceptsWithin, WiredTakes
<1>6. /\ SubsOK' /\ Len(subs') = Len(subs)
      /\ \A i \in 1..Len(subs) :
            /\ i \in {j} => subs'[i].status = "ok"
            /\ i \notin {j} => subs'[i] = subs[i]
            /\ subs'[i].life = subs[i].life /\ subs'[i].len = subs[i].len
            /\ subs'[i].file = subs[i].file
  <2>1. "ok" \in Status /\ 0 \in 0..MaxLife
    BY BoundAssumption DEF Status
  <2>2. QED
    BY <1>0, <1>1, <2>1, ReportTyped
<1>7. /\ Shaped(g) /\ InLine(g, Len(subs)) /\ Front(g)
      /\ g.r_op = conn.r_op /\ g.active = conn.active /\ g.w_file = conn.w_file
      /\ Unwatched(conn) => Unwatched(g)
      /\ \A i, m : Owes(g, i, m) <=> Owes(conn, i, m) /\ i # j
      /\ FileOrder(conn) => FileOrder(g)
      /\ \A b \in Nat : Marked(conn, b) => Marked(g, b) /\ Parted(g, b)
  BY <1>0, WriteEnded
<1> HIDE DEF g
<1>8. /\ Shaped(conn') /\ Covered(conn') /\ conn'.w = g.w /\ conn'.w_q = g.w_q
      /\ conn'.w_file = g.w_file /\ conn'.r_op = g.r_op /\ conn'.active = g.active
  BY <1>1, <1>7, InterestApplied
<1>9. /\ InLine(conn', Len(subs)) /\ Front(conn')
      /\ \A i, m : Owes(conn', i, m) <=> Owes(conn, i, m) /\ i # j
      /\ FileOrder(conn) => FileOrder(conn')
      /\ \A b \in Nat : Marked(conn, b) => Marked(conn', b) /\ Parted(conn', b)
  BY <1>7, <1>8, OtherFields
<1>10. Unwatched(conn')
  BY <1>0, <1>7, <1>8 DEF Unwatched
<1>11. ConnOK(conn', Len(subs'), sock')
  BY <1>1, <1>3, <1>6, <1>8, <1>9, <1>10 DEF ConnOK
<1>12. LifeOK' /\ DispOK'
  BY <1>0, <1>1 DEF LifeOK, DispOK
<1>13. SlotInv'
  BY <1>5, <1>6, <1>11, <1>12 DEF SlotInv
<1>14. Kept(conn, conn')
  <2>1. Turn(conn) = j
    BY <1>2 DEF Turn
  <2>2. \A m : ~Owes(conn', Turn(conn), m)
    BY <1>9, <2>1
  <2>3. QED
    BY <1>2, <1>7, <1>8, <2>2, KeptAfterTurn
<1>16. LineKept
  BY <1>9 DEF LineKept, QueueInv
<1>17. Ends({j}, j, k, "ok")
  <2>1. Owes(conn, j, k)
    BY <1>4 DEF Owes
  <2>2. Sends(j)
    <3>1. \A b : FileOrder(conn) => Leads(j, b)
      BY <1>0, WriteIsFirst DEF Leads
    <3>2. QED
      BY <1>1, <1>2, <3>1 DEF Sends, Turn
  <2> HIDE DEF j, k
  <2>3. \A i, m : Owes(conn', i, m) => Owes(conn, i, m) /\ i \notin {j}
    BY <1>9
  <2>4. \A i, m : Owes(conn, i, m) /\ i \notin {j} => \E l : Owes(conn', i, l)
    BY <1>9
  <2>5. QED
    BY <1>0, <1>1, <1>5, <1>6, <1>14, <2>1, <2>2, <2>3, <2>4 DEF Ends
<1>18. QED
  BY <1>13, <1>16, <1>17

\* A write fails: it is over, and the error callback is about to run with the
\* queue still in place.
LEMMA WriteFailsStep ==
    ASSUME SlotInv, WriteFails
    PROVE  SlotInv' /\ LineKept /\ \E ids, j, k, status : Ends(ids, j, k, status)
<1> DEFINE g == [conn EXCEPT !.w = Idle]
           j == conn.w.id
<1>0. /\ Shaped(conn) /\ conn \in Conn /\ InLine(conn, Len(subs)) /\ Unwatched(conn)
      /\ Len(subs) \in Nat /\ DOMAIN subs = 1..Len(subs) /\ j \in Nat
      /\ Idle.left = 0 /\ Idle.id = 0 /\ Idle \in Write
      /\ LifeOK /\ DispOK /\ BufOK /\ SubsOK
  BY SlotFacts, FieldTypes
<1>1. /\ disp.at = "write" /\ sock = "broken" /\ Report({j}, "failed", life)
      /\ conn' = aio_apply_interest(g)
      /\ disp' = [disp EXCEPT !.at = "ecb", !.err = life] /\ UNCHANGED <<life, sock, room, wire>>
  BY DEF WriteFails
<1>2. conn.w.left > 0
  BY <1>0, <1>1 DEF DispOK
<1>6. /\ SubsOK' /\ Len(subs') = Len(subs)
      /\ \A i \in 1..Len(subs) :
            /\ i \in {j} => subs'[i].status = "failed"
            /\ i \notin {j} => subs'[i] = subs[i]
            /\ subs'[i].life = subs[i].life /\ subs'[i].len = subs[i].len
            /\ subs'[i].file = subs[i].file
  <2>1. "failed" \in Status /\ life \in 0..MaxLife
    BY <1>0 DEF Status, LifeOK
  <2>2. QED
    BY <1>0, <1>1, <2>1, ReportTyped
<1>7. /\ Shaped(g) /\ InLine(g, Len(subs)) /\ g.w_q = conn.w_q
      /\ g.r_op = conn.r_op /\ g.active = conn.active /\ g.w_file = conn.w_file
      /\ Unwatched(conn) => Unwatched(g)
      /\ \A i, m : Owes(g, i, m) <=> \/ Owes(conn, i, m) /\ i # j
                                     \/ i # 0 /\ i = Idle.id /\ m = Idle.left
      /\ FileOrder(conn) => FileOrder(g)
  BY <1>0, WriteReplaced
<1> HIDE DEF g
<1>8. /\ Shaped(conn') /\ Covered(conn') /\ conn'.w = g.w /\ conn'.w_q = g.w_q
      /\ conn'.w_file = g.w_file /\ conn'.r_op = g.r_op /\ conn'.active = g.active
  BY <1>1, <1>7, InterestApplied
<1>9. /\ InLine(conn', Len(subs))
      /\ \A i, m : Owes(conn', i, m) <=> Owes(g, i, m)
      /\ FileOrder(conn) => FileOrder(conn')
  BY <1>7, <1>8, OtherFields
<1>10. Unwatched(conn')
  BY <1>0, <1>7, <1>8 DEF Unwatched
<1>11. ConnOK(conn', Len(subs'), sock')
  BY <1>1, <1>6, <1>8, <1>9, <1>10 DEF ConnOK
<1>12. LifeOK' /\ DispOK' /\ BufOK'
  BY <1>0, <1>1 DEF LifeOK, DispOK, BufOK
<1>13. SlotInv'
  BY <1>6, <1>11, <1>12 DEF SlotInv
<1>14. Kept(conn, conn')
  <2>1. Turn(conn) = j
    BY <1>2 DEF Turn
  <2>2. \A m : ~Owes(conn', Turn(conn), m)
    BY <1>0, <1>7, <1>9, <2>1
  <2>3. QED
    BY <1>2, <1>7, <1>8, <2>2, KeptAfterTurn
<1>15. \A b \in Nat : Marked(conn, b) => Marked(conn', b)
  BY <1>7, <1>8 DEF Marked
<1>15a. disp'.at = "ecb"
  BY <1>0, <1>1 DEF DispOK
<1>16. LineKept
  BY <1>1, <1>9, <1>15, <1>15a DEF LineKept, QueueInv
<1>17. Ends({j}, j, 0, "failed")
  <2>1. Wired(j, 0)
    BY <1>0, <1>1, WiredNone
  <2> HIDE DEF j
  <2>3. \A i, m : Owes(conn', i, m) => Owes(conn, i, m) /\ i \notin {j}
    BY <1>0, <1>7, <1>9
  <2>4. \A i, m : Owes(conn, i, m) /\ i \notin {j} => \E l : Owes(conn', i, l)
    BY <1>7, <1>9
  <2>5. QED
    BY <1>0, <1>1, <1>6, <1>14, <2>1, <2>3, <2>4 DEF Ends
<1>18. QED
  BY <1>13, <1>16, <1>17

\* A file body ends in the dispatch, taken to the last unit or failed.
LEMMA FileEndsStep ==
    ASSUME SlotInv, FileDone \/ FileError
    PROVE  SlotInv' /\ LineKept /\ \E ids, j, k, status : Ends(ids, j, k, status)
<1> DEFINE j == conn.w_file.id
           left == conn.w_file.left
<1>0. /\ Shaped(conn) /\ conn \in Conn /\ InLine(conn, Len(subs)) /\ Unwatched(conn)
      /\ Len(subs) \in Nat /\ DOMAIN subs = 1..Len(subs) /\ j \in Nat /\ left \in Nat
      /\ conn.w.left \in Nat /\ Idle.left = 0 /\ LifeOK /\ DispOK /\ BufOK /\ SubsOK
  BY SlotFacts
<1>1. /\ AtFile /\ FileTurn /\ conn' = aio_file_done(conn)
      /\ disp' = [disp EXCEPT !.at = "fcb"] /\ UNCHANGED <<life, sock>>
  BY DEF FileDone, FileError
<1>2. disp.at = "rest" /\ left > 0 /\ conn.w.left = 0 /\ conn.w_file # Idle
  BY <1>0, <1>1 DEF AtFile, FileTurn
<1>3. sock # "none"
  BY <1>2 DEF SlotInv, ConnOK, Cleared
<1>7. /\ Shaped(conn') /\ InLine(conn', Len(subs)) /\ Front(conn') /\ Covered(conn')
      /\ conn'.w_file = Idle
      /\ Unwatched(conn) => Unwatched(conn')
      /\ \A i, m : Owes(conn', i, m) <=> Owes(conn, i, m) /\ i # j
      /\ FileOrder(conn')
      /\ \A b \in Nat : Marked(conn, b) => Marked(conn', b) /\ Parted(conn', b)
  BY <1>0, <1>1, FileEnded
<1>8. Kept(conn, conn')
  <2>1. Turn(conn) = j
    BY <1>2 DEF Turn
  <2>2. \A m : ~Owes(conn', Turn(conn), m)
    BY <1>7, <2>1
  <2>3. QED
    BY <1>0, <1>2, <1>7, <2>2, KeptAfterTurn
<1>9. LineKept
  BY <1>7 DEF LineKept, QueueInv
<1>10. LifeOK' /\ DispOK'
  BY <1>0, <1>1 DEF LifeOK, DispOK
<1>11. ASSUME Len(subs') = Len(subs), SubsOK', BufOK' PROVE SlotInv'
  BY <1>0, <1>1, <1>3, <1>7, <1>10, <1>11 DEF SlotInv, ConnOK
<1>12. /\ \A i, m : Owes(conn', i, m) => Owes(conn, i, m) /\ i \notin {j}
       /\ \A i, m : Owes(conn, i, m) /\ i \notin {j} => \E l : Owes(conn', i, l)
  BY <1>7
<1>13. CASE FileDone
  <2>1. Accepts(left) = left /\ Takes(j, left) /\ Report({j}, "ok", 0)
    BY <1>13 DEF FileDone, Completes
  <2>2. CASE j # 0
    <3>1. j \in Id
      BY <1>0, <2>2, FieldTypes, BoundAssumption DEF Transfer, Id
    <3>2. BufOK' /\ Wired(j, left)
      BY <1>0, <2>1, <3>1, AcceptsWithin, WiredTakes
    <3>3. /\ SubsOK' /\ Len(subs') = Len(subs)
          /\ \A i \in 1..Len(subs) :
                /\ i \in {j} => subs'[i].status = "ok"
                /\ i \notin {j} => subs'[i] = subs[i]
                /\ subs'[i].life = subs[i].life /\ subs'[i].len = subs[i].len
                /\ subs'[i].file = subs[i].file
      <4>1. "ok" \in Status /\ 0 \in 0..MaxLife
        BY BoundAssumption DEF Status
      <4>2. QED
        BY <1>0, <2>1, <4>1, ReportTyped
    <3>4. Owes(conn, j, left)
      BY <1>2, <2>2 DEF Owes
    <3>5. Sends(j)
      <4>1. \A b : Parted(conn, b) => Leads(j, b)
        BY <1>0, <1>2, FileIsFirst DEF Leads
      <4>2. QED
        BY <1>2, <4>1 DEF Sends, Turn
    <3> HIDE DEF j, left
    <3>6. Ends({j}, j, left, "ok")
      BY <1>0, <1>1, <1>2, <1>8, <1>12, <3>2, <3>3, <3>4, <3>5 DEF Ends
    <3>7. QED
      BY <1>9, <1>11, <3>2, <3>3, <3>6
  <2>3. QED
    BY <1>0, <1>2, <2>2 DEF Shaped
<1>14. CASE FileError
  <2>1. Report({j}, "failed", life) /\ UNCHANGED <<room, wire>>
    BY <1>14 DEF FileError
  <2>2. BufOK' /\ Wired(j, 0)
    BY <1>0, <2>1, WiredNone DEF BufOK
  <2>3. /\ SubsOK' /\ Len(subs') = Len(subs)
        /\ \A i \in 1..Len(subs) :
              /\ i \in {j} => subs'[i].status = "failed"
              /\ i \notin {j} => subs'[i] = subs[i]
              /\ subs'[i].life = subs[i].life /\ subs'[i].len = subs[i].len
              /\ subs'[i].file = subs[i].file
    <3>1. "failed" \in Status /\ life \in 0..MaxLife
      BY <1>0 DEF Status, LifeOK
    <3>2. QED
      BY <1>0, <2>1, <3>1, ReportTyped
  <2> HIDE DEF j
  <2>4. Ends({j}, j, 0, "failed")
    BY <1>1, <1>8, <1>12, <2>2, <2>3 DEF Ends
  <2>5. QED
    BY <1>9, <1>11, <2>2, <2>3, <2>4
<1>15. QED
  BY <1>13, <1>14

\* aio_wq_flush after the error callback.
LEMMA ErrorReturnsStep ==
    ASSUME SlotInv, ErrorReturns
    PROVE  SlotInv' /\ LineKept /\ \E ids, j, k, status : Ends(ids, j, k, status)
<1>0. /\ Shaped(conn) /\ conn \in Conn /\ InLine(conn, Len(subs)) /\ Unwatched(conn)
      /\ Len(subs) \in Nat /\ DOMAIN subs = 1..Len(subs) /\ sock # "none" => Covered(conn)
      /\ conn.w_q \in Seq(Node) /\ DOMAIN conn.w_q = 1..Len(conn.w_q)
      /\ LifeOK /\ DispOK /\ BufOK /\ SubsOK
  BY SlotFacts
<1>1. /\ conn' = [conn EXCEPT !.w_q = <<>>] /\ Report(Queued(conn), "failed", disp.err)
      /\ disp' = [disp EXCEPT !.at = "rest"] /\ UNCHANGED <<life, sock, room, wire>>
  BY DEF ErrorReturns
<1>2. /\ conn' \in Conn /\ conn'.w = conn.w /\ conn'.w_q = <<>> /\ conn'.w_file = conn.w_file
      /\ conn'.r_op = conn.r_op /\ conn'.active = conn.active /\ conn'.interest = conn.interest
  <2>1. <<>> \in Seq(Node)
    OBVIOUS
  <2>2. QED
    BY <1>0, <1>1, <2>1, SetFields
<1>3. sock = "none" => conn' = Cleared
  <2> SUFFICES ASSUME sock = "none" PROVE conn' = Cleared
    OBVIOUS
  <2>1. conn = Cleared
    BY DEF SlotInv, ConnOK
  <2>2. QED
    BY <1>1, <2>1 DEF Cleared
<1>4. Shaped(conn') /\ InLine(conn', Len(subs)) /\ Unwatched(conn') /\ Front(conn')
  BY <1>0, <1>2 DEF Shaped, InLine, Unwatched, Front
<1>5. Covered(conn) => Covered(conn')
  BY <1>2 DEF Covered, Mask
<1>6. /\ SubsOK' /\ Len(subs') = Len(subs)
      /\ \A i \in 1..Len(subs) :
            /\ i \in Queued(conn) => subs'[i].status = "failed"
            /\ i \notin Queued(conn) => subs'[i] = subs[i]
            /\ subs'[i].life = subs[i].life /\ subs'[i].len = subs[i].len
            /\ subs'[i].file = subs[i].file
  <2> DEFINE blame == disp.err
  <2>1. "failed" \in Status /\ blame \in 0..MaxLife /\ Report(Queued(conn), "failed", blame)
    BY <1>0, <1>1 DEF Status, DispOK
  <2> HIDE DEF blame
  <2>2. QED
    BY <1>0, <2>1, ReportTyped
<1>7. LifeOK' /\ DispOK' /\ BufOK'
  BY <1>0, <1>1 DEF LifeOK, DispOK, BufOK
<1>8. SlotInv'
  BY <1>0, <1>1, <1>3, <1>4, <1>5, <1>6, <1>7 DEF SlotInv, ConnOK
<1>9. LineKept
  BY <1>2, <1>4 DEF LineKept, QueueInv, FileOrder, Marked, Parted
<1>10. Ends(Queued(conn), 0, 0, "failed")
  <2>1. Wired(0, 0)
    BY <1>0, <1>1, WiredNone
  <2>2. \A i, m : Owes(conn', i, m) => Owes(conn, i, m)
    BY <1>2 DEF Owes
  <2>3. ASSUME NEW i, NEW m, Owes(conn', i, m) PROVE i \notin Queued(conn)
    <3>1. i # 0 /\ (i = conn.w.id \/ i = conn.w_file.id)
      BY <1>2, <2>3 DEF Owes
    <3>2. \A k \in 1..Len(conn.w_q) : conn.w_q[k].id # conn.w_file.id /\ conn.w_q[k].id # conn.w.id
      BY <1>0, FieldTypes DEF InLine
    <3>3. QED
      BY <1>0, <3>1, <3>2 DEF Queued
  <2>4. ASSUME NEW i, NEW m, Owes(conn, i, m), i \notin Queued(conn) PROVE Owes(conn', i, m)
    BY <1>0, <1>2, <2>4 DEF Owes, Queued
  <2>5. Kept(conn, conn')
    BY <1>2, KeptInPlace
  <2>6. QED
    BY <1>1, <1>6, <2>1, <2>2, <2>3, <2>4, <2>5 DEF Ends
<1>11. QED
  BY <1>8, <1>9, <1>10

\* dyn_aio_cancel.
LEMMA CancelStep ==
    ASSUME SlotInv, NEW tag, dyn_aio_cancel(tag)
    PROVE  SlotInv' /\ LineKept /\ \E ids, j, k, status : Ends(ids, j, k, status)
<1> DEFINE c == CancelFile(CancelWrite(CancelQueue(conn, tag), tag), tag)
           gone == Carried(conn) \ Carried(c)
<1>0. /\ Shaped(conn) /\ conn \in Conn /\ InLine(conn, Len(subs)) /\ Unwatched(conn)
      /\ Len(subs) \in Nat /\ DOMAIN subs = 1..Len(subs)
      /\ LifeOK /\ DispOK /\ BufOK /\ SubsOK
  BY SlotFacts
<1>1. /\ UserRuns /\ gone # {} /\ (FileCancel \/ conn.w_file.id \notin gone)
      /\ conn' = aio_apply_interest(c) /\ Report(gone, "cancelled", 0)
      /\ UNCHANGED <<life, disp, sock, room, wire>>
  BY DEF dyn_aio_cancel
<1>2. /\ Slim(conn, c, Len(subs))
      /\ conn.w_file.id \notin gone => (Front(conn) => Front(c))
      /\ c.w_file \in {conn.w_file, Idle}
  BY <1>0, Cancelled
<1> HIDE DEF c
<1>3. sock # "none"
  <2> SUFFICES ASSUME sock = "none" PROVE FALSE
    OBVIOUS
  <2>1. conn = Cleared
    BY DEF SlotInv, ConnOK
  <2>2. Carried(Cleared) = {}
    BY DEF Carried, Queued, Cleared, Idle
  <2>3. QED  BY <1>1, <2>1, <2>2
<1>4. /\ Shaped(c) /\ InLine(c, Len(subs)) /\ c.active = conn.active /\ c.r_op = conn.r_op
      /\ Unwatched(conn) => Unwatched(c)
      /\ \A i, m : Owes(c, i, m) => Owes(conn, i, m)
      /\ FileOrder(conn) => FileOrder(c)
      /\ Kept(conn, c)
      /\ \A b \in Nat : Marked(conn, b) => Marked(c, b) /\ (Parted(conn, b) => Parted(c, b))
  BY <1>2 DEF Slim
<1>5. /\ Shaped(conn') /\ Covered(conn') /\ conn'.w = c.w /\ conn'.w_q = c.w_q
      /\ conn'.w_file = c.w_file /\ conn'.r_op = c.r_op /\ conn'.active = c.active
  BY <1>1, <1>4, InterestApplied
<1>6. /\ InLine(conn', Len(subs)) /\ (Front(c) => Front(conn'))
      /\ \A i, m : Owes(c, i, m) <=> Owes(conn', i, m)
      /\ FileOrder(c) => FileOrder(conn')
      /\ Kept(conn, conn')
      /\ \A b : (Marked(c, b) => Marked(conn', b)) /\ (Parted(c, b) => Parted(conn', b))
  BY <1>4, <1>5, OtherFields
<1>7. Unwatched(conn')
  BY <1>0, <1>4, <1>5 DEF Unwatched
<1>8. /\ SubsOK' /\ Len(subs') = Len(subs)
      /\ \A i \in 1..Len(subs) :
            /\ i \in gone => subs'[i].status = "cancelled"
            /\ i \notin gone => subs'[i] = subs[i]
            /\ subs'[i].life = subs[i].life /\ subs'[i].len = subs[i].len
            /\ subs'[i].file = subs[i].file
  <2>1. "cancelled" \in Status /\ 0 \in 0..MaxLife
    BY BoundAssumption DEF Status
  <2> HIDE DEF gone
  <2>2. QED
    BY <1>0, <1>1, <2>1, ReportTyped
<1>9. LifeOK' /\ BufOK'
  BY <1>0, <1>1 DEF LifeOK, BufOK
<1>10. DispOK'
  BY <1>0, <1>1 DEF DispOK, UserRuns
<1>11. SlotInv'
  BY <1>1, <1>3, <1>5, <1>6, <1>7, <1>8, <1>9, <1>10 DEF SlotInv, ConnOK
<1>12. QueueInv /\ ~FileCancel => QueueInv'
  BY <1>1, <1>2, <1>6 DEF QueueInv
<1>15. LineKept
  BY <1>1, <1>4, <1>6, <1>12 DEF LineKept
<1>16. Ends(gone, 0, 0, "cancelled")
  <2>1. Wired(0, 0)
    BY <1>0, <1>1, WiredNone
  <2>2. ASSUME NEW i, NEW m, Owes(conn', i, m) PROVE Owes(conn, i, m) /\ i \notin gone
    BY <1>4, <1>6, <2>2, OwedIsCarried
  <2>3. ASSUME NEW i, NEW m, Owes(conn, i, m), i \notin gone PROVE \E l : Owes(conn', i, l)
    <3>1. i \in Carried(conn)
      BY <1>0, <2>3, OwedIsCarried
    <3>2. i \in Carried(c)
      BY <2>3, <3>1
    <3>3. DOMAIN c.w_q = 1..Len(c.w_q) /\ i # 0 /\ Idle.id = 0
      BY <1>0, <1>4, <2>3, OwedIsCarried, FieldTypes DEF Shaped
    <3>4. CASE i \in Queued(c) \/ i = c.w.id
      <4>1. \E l : Owes(c, i, l)
        BY <3>3, <3>4 DEF Owes, Queued
      <4>2. QED  BY <1>6, <4>1
    <3>5. CASE i = c.w_file.id
      <4>1. c.w_file = conn.w_file
        BY <1>2, <3>3, <3>5
      <4>2. c.w_file.left # 0
        BY <1>0, <2>3, <3>5, <4>1, EmptyNotOwed
      <4>3. Owes(c, i, c.w_file.left)
        BY <3>3, <3>5, <4>2 DEF Owes
      <4>4. QED  BY <1>6, <4>3
    <3>6. QED  BY <3>2, <3>4, <3>5 DEF Carried
  <2> HIDE DEF gone
  <2>4. QED
    BY <1>1, <1>6, <1>8, <2>1, <2>2, <2>3 DEF Ends
<1>17. QED
  BY <1>11, <1>15, <1>16

\* A write takes a part.
LEMMA WriteBlocksStep ==
    ASSUME SlotInv, WriteBlocks
    PROVE  SlotInv' /\ LineKept /\ \E j, k, left : Blocks(j, k, left)
<1> DEFINE j == conn.w.id
           left == conn.w.left
           n == Accepts(left)
           x == [id |-> j, left |-> left - n]
<1>0. /\ Shaped(conn) /\ conn \in Conn /\ InLine(conn, Len(subs)) /\ Unwatched(conn)
      /\ Len(subs) \in Nat /\ j \in Nat /\ left \in Nat /\ conn.w \in Write
      /\ sock # "none" => Covered(conn)
      /\ Idle.left = 0 /\ LifeOK /\ DispOK /\ BufOK /\ SubsOK
  BY SlotFacts, FieldTypes
<1>1. /\ disp.at = "write" /\ sock # "broken" /\ n < left /\ Takes(j, n)
      /\ conn' = [conn EXCEPT !.w.left = @ - n] /\ disp' = [disp EXCEPT !.at = "rest"]
      /\ UNCHANGED <<life, sock, subs>>
  BY DEF WriteBlocks
<1>2. n \in Nat /\ n <= left /\ n <= room
  BY <1>0, AcceptsWithin
<1> HIDE DEF n
<1>3. left > 0 /\ conn.w # Idle /\ j \in Id /\ j # 0
  BY <1>0, <1>1, BoundAssumption DEF DispOK, Write, Id
<1>4. sock # "none"
  BY <1>3 DEF SlotInv, ConnOK, Cleared
<1>5. BufOK' /\ Wired(j, n)
  BY <1>0, <1>1, <1>2, <1>3, WiredTakes
<1>6. x \in Write /\ x.id = j /\ x.left = left - n /\ left - n \in Nat /\ left - n > 0
  <2>1. left - n \in Nat \ {0}
    BY <1>0, <1>1, <1>2
  <2>2. QED
    BY <1>3, <2>1 DEF Write
<1>7. conn' = [conn EXCEPT !.w = x]
  <2>1. [conn.w EXCEPT !.left = @ - n] = x
    BY <1>0, <1>3 DEF Write
  <2>2. conn' = [conn EXCEPT !.w = [conn.w EXCEPT !.left = @ - n]]
    BY <1>1
  <2>3. QED  BY <2>1, <2>2
<1> HIDE DEF x
<1>8. /\ Shaped(conn') /\ conn'.w = x /\ conn'.w_q = conn.w_q /\ conn'.w_file = conn.w_file
      /\ conn'.r_op = conn.r_op /\ conn'.active = conn.active /\ conn'.interest = conn.interest
      /\ InLine(conn', Len(subs))
      /\ \A i, m : Owes(conn', i, m) <=> \/ Owes(conn, i, m) /\ i # j
                                         \/ i # 0 /\ i = x.id /\ m = x.left
      /\ FileOrder(conn) => FileOrder(conn')
      /\ Unwatched(conn) => Unwatched(conn')
  BY <1>0, <1>6, <1>7, WriteReplaced
<1>9. Covered(conn')
  BY <1>0, <1>3, <1>4, <1>8 DEF Covered, Mask
<1>10. LifeOK' /\ DispOK' /\ SubsOK'
  BY <1>0, <1>1 DEF LifeOK, DispOK, SubsOK
<1>11. SlotInv'
  BY <1>0, <1>1, <1>4, <1>5, <1>8, <1>9, <1>10 DEF SlotInv, ConnOK
<1>12. LineKept
  <2>1. \A b : (Marked(conn, b) => Marked(conn', b)) /\ Parted(conn', b)
    BY <1>6, <1>8 DEF Marked, Parted
  <2>2. QED
    BY <1>6, <1>8, <2>1 DEF LineKept, QueueInv, Front
<1>13. Blocks(j, n, left)
  <2>1. Owes(conn, j, left)
    BY <1>3 DEF Owes
  <2>2. Sends(j)
    <3>1. \A b : FileOrder(conn) => Leads(j, b)
      BY <1>0, WriteIsFirst DEF Leads
    <3>2. QED
      BY <1>1, <1>3, <3>1 DEF Sends, Turn
  <2>2a. Kept(conn, conn')
    BY <1>3, <1>6, <1>8, KeptInPlace
  <2> HIDE DEF j, left
  <2>3. \A i, m : Owes(conn', i, m) <=> (i # j /\ Owes(conn, i, m)) \/ (i = j /\ m = left - n)
    BY <1>3, <1>6, <1>8
  <2>4. QED
    BY <1>0, <1>1, <1>2, <1>5, <2>1, <2>2, <2>2a, <2>3 DEF Blocks
<1>14. QED
  BY <1>11, <1>12, <1>13

\* A file body takes a part.
LEMMA FileBlocksStep ==
    ASSUME SlotInv, FileBlocks
    PROVE  SlotInv' /\ LineKept /\ \E j, k, left : Blocks(j, k, left)
<1> DEFINE j == conn.w_file.id
           left == conn.w_file.left
           n == Accepts(left)
           x == [id |-> j, left |-> left - n]
<1>0. /\ Shaped(conn) /\ conn \in Conn /\ InLine(conn, Len(subs)) /\ Unwatched(conn)
      /\ Len(subs) \in Nat /\ j \in Nat /\ left \in Nat /\ conn.w_file \in Transfer
      /\ sock # "none" => Covered(conn)
      /\ Idle.left = 0 /\ LifeOK /\ DispOK /\ BufOK /\ SubsOK
  BY SlotFacts, FieldTypes
<1>1. /\ AtFile /\ FileTurn /\ sock # "broken" /\ n < left /\ Takes(j, n)
      /\ conn' = [conn EXCEPT !.w_file.left = @ - n] /\ disp' = [disp EXCEPT !.at = "read"]
      /\ UNCHANGED <<life, sock, subs>>
  BY DEF FileBlocks
<1>2. n \in Nat /\ n <= left /\ n <= room
  BY <1>0, AcceptsWithin
<1> HIDE DEF n
<1>3. left > 0 /\ conn.w_file # Idle /\ j \in Id /\ j # 0 /\ conn.w.left = 0
  <2>1. left > 0 /\ conn.w_file # Idle /\ conn.w.left = 0
    BY <1>0, <1>1 DEF FileTurn
  <2>2. j # 0
    BY <1>0, <2>1 DEF Shaped
  <2>3. j \in Id
    BY <1>0, <2>2, BoundAssumption DEF Transfer, Id
  <2>4. QED  BY <2>1, <2>2, <2>3
<1>4. sock # "none"
  BY <1>3 DEF SlotInv, ConnOK, Cleared
<1>5. BufOK' /\ Wired(j, n)
  BY <1>0, <1>1, <1>2, <1>3, WiredTakes
<1>6. x \in Transfer /\ x.id = j /\ x.left = left - n /\ left - n \in Nat /\ left - n > 0
  <2>1. left - n \in Nat /\ left - n > 0
    BY <1>0, <1>1, <1>2
  <2>2. QED
    BY <1>3, <2>1 DEF Transfer, Id
<1>7. conn' = [conn EXCEPT !.w_file = x]
  <2>1. [conn.w_file EXCEPT !.left = @ - n] = x
    BY <1>0, <1>3 DEF Transfer
  <2>2. conn' = [conn EXCEPT !.w_file = [conn.w_file EXCEPT !.left = @ - n]]
    BY <1>1
  <2>3. QED  BY <2>1, <2>2
<1> HIDE DEF x
<1>8. /\ Shaped(conn') /\ conn'.w_file = x /\ conn'.w_q = conn.w_q /\ conn'.w = conn.w
      /\ conn'.r_op = conn.r_op /\ conn'.active = conn.active /\ conn'.interest = conn.interest
      /\ InLine(conn', Len(subs))
      /\ \A i, m : Owes(conn', i, m) <=> \/ Owes(conn, i, m) /\ i # j
                                         \/ i # 0 /\ i = x.id /\ m = x.left /\ m # 0
      /\ Unwatched(conn) => Unwatched(conn')
  BY <1>0, <1>3, <1>6, <1>7, FileReplaced
<1>9. Covered(conn')
  BY <1>0, <1>3, <1>4, <1>8 DEF Covered, Mask
<1>10. LifeOK' /\ DispOK' /\ SubsOK'
  BY <1>0, <1>1 DEF LifeOK, DispOK, SubsOK
<1>11. SlotInv'
  BY <1>0, <1>1, <1>4, <1>5, <1>8, <1>9, <1>10 DEF SlotInv, ConnOK
<1>12. LineKept
  <2>1. disp.at = "rest"
    BY <1>1 DEF AtFile
  <2>2. FileOrder(conn) => FileOrder(conn')
    BY <1>3, <1>6, <1>8 DEF FileOrder
  <2>3. \A b : (Marked(conn, b) => Marked(conn', b)) /\ (Parted(conn, b) => Parted(conn', b))
    BY <1>3, <1>6, <1>8 DEF Marked, Parted
  <2>4. QED
    BY <1>3, <1>6, <1>8, <2>1, <2>2, <2>3 DEF LineKept, QueueInv, Front
<1>13. Blocks(j, n, left)
  <2>1. Owes(conn, j, left)
    BY <1>3 DEF Owes
  <2>2. Sends(j)
    <3>1. \A b : Parted(conn, b) => Leads(j, b)
      BY <1>0, <1>3, FileIsFirst DEF Leads
    <3>2. QED
      BY <1>1, <1>3, <3>1 DEF Sends, Turn, AtFile
  <2>2a. Kept(conn, conn')
    BY <1>3, <1>6, <1>8, KeptInPlace
  <2> HIDE DEF j, left
  <2>3. \A i, m : Owes(conn', i, m) <=> (i # j /\ Owes(conn, i, m)) \/ (i = j /\ m = left - n)
    BY <1>3, <1>6, <1>8
  <2>4. QED
    BY <1>0, <1>1, <1>2, <1>5, <2>1, <2>2, <2>2a, <2>3 DEF Blocks
<1>14. QED
  BY <1>11, <1>12, <1>13

\* The cleared slot is in order.
LEMMA ClearedOK ==
    /\ \A n \in Nat : ConnOK(Cleared, n, "none")
    /\ Front(Cleared) /\ FileOrder(Cleared) /\ \A b : Marked(Cleared, b) /\ Parted(Cleared, b)
    /\ \A i, m : ~Owes(Cleared, i, m)
<1>1. Idle \in Write /\ Idle \in Transfer /\ Idle.id = 0 /\ Idle.left = 0
  BY BoundAssumption DEF Idle, Write, Transfer
<1>2. /\ Cleared \in Conn /\ Cleared.w = Idle /\ Cleared.w_q = <<>> /\ Cleared.w_file = Idle
      /\ Cleared.r_op = "none"
  BY <1>1 DEF Cleared, Conn
<1>3. Shaped(Cleared) /\ Unwatched(Cleared) /\ \A n \in Nat : InLine(Cleared, n)
  BY <1>1, <1>2 DEF Shaped, Unwatched, InLine
<1>4. QED
  BY <1>1, <1>2, <1>3 DEF ConnOK, Front, FileOrder, Marked, Parted, Owes

\* dyn_aio_close.
LEMMA CloseStep ==
    ASSUME SlotInv, dyn_aio_close
    PROVE  SlotInv' /\ Closes
<1> DEFINE g(i) == CASE i \in Queued(conn) \cup {conn.w.id} -> [subs[i] EXCEPT !.status = "reset"]
                     [] i = conn.w_file.id -> [subs[i] EXCEPT !.status = "dropped"]
                     [] OTHER -> subs[i]
<1>0. /\ Len(subs) \in Nat /\ DOMAIN subs = 1..Len(subs) /\ LifeOK /\ DispOK /\ BufOK /\ SubsOK
  BY SlotFacts
<1>1. /\ UserRuns /\ sock # "none" /\ conn' = Cleared /\ life' = life + 1 /\ sock' = "none"
      /\ wire' = <<>> /\ room' = Room /\ UNCHANGED disp
      /\ subs' = [i \in DOMAIN subs |-> g(i)]
  BY DEF dyn_aio_close
<1>2. ASSUME NEW i \in 1..Len(subs)
      PROVE  /\ g(i) \in Sub /\ g(i).life = subs[i].life /\ g(i).len = subs[i].len
             /\ g(i).file = subs[i].file
             /\ i \in Carried(conn) => g(i).status \in {"reset", "dropped"}
             /\ i \notin Carried(conn) => g(i) = subs[i]
  <2>1. subs[i] \in Sub /\ "reset" \in Status /\ "dropped" \in Status /\ i # 0
    BY <1>0 DEF SubsOK, Status
  <2>2. CASE i \in Queued(conn) \cup {conn.w.id}
    <3>0. i # conn.w_file.id
      <4>1. /\ InLine(conn, Len(subs)) /\ DOMAIN conn.w_q = 1..Len(conn.w_q)
        BY SlotFacts
      <4>2. QED  BY <2>1, <2>2, <4>1 DEF InLine, Queued
    <3>1. g(i) = [subs[i] EXCEPT !.status = "reset"] /\ i \in Carried(conn)
      BY <2>1, <2>2, <3>0 DEF Carried
    <3> HIDE DEF g
    <3>2. QED  BY <2>1, <3>1 DEF Sub
  <2>3. CASE i \notin Queued(conn) \cup {conn.w.id} /\ i = conn.w_file.id
    <3>1. g(i) = [subs[i] EXCEPT !.status = "dropped"] /\ i \in Carried(conn)
      BY <2>1, <2>3 DEF Carried
    <3> HIDE DEF g
    <3>2. QED  BY <2>1, <3>1 DEF Sub
  <2>4. CASE i \notin Queued(conn) \cup {conn.w.id} /\ i # conn.w_file.id
    <3>1. g(i) = subs[i] /\ i \notin Carried(conn)
      BY <2>4 DEF Carried
    <3> HIDE DEF g
    <3>2. QED  BY <2>1, <3>1
  <2>5. QED  BY <2>2, <2>3, <2>4
<1> HIDE DEF g
<1>3. subs' \in [1..Len(subs) -> Sub]
  BY <1>0, <1>1, <1>2
<1>4. subs' \in Seq(Sub) /\ Len(subs') = Len(subs)
  BY <1>0, <1>3, FunctionIsSeq
<1>5. Closes
  BY <1>0, <1>1, <1>2, <1>4 DEF Closes
<1>6. ConnOK(conn', Len(subs'), sock')
  BY <1>0, <1>1, <1>4, ClearedOK
<1>7. LifeOK'
  BY <1>0, <1>1, BoundAssumption DEF LifeOK
<1>8. DispOK' /\ BufOK' /\ SubsOK'
  <2>1. <<>> \in Seq(Id) /\ Room \in 0..Room
    BY BoundAssumption
  <2>2. QED
    BY <1>0, <1>1, <1>4, <2>1 DEF DispOK, BufOK, SubsOK, UserRuns
<1>9. QED
  BY <1>5, <1>6, <1>7, <1>8 DEF SlotInv

\* The tag of the next submission is one of the tags.
LEMMA NextTag ==
    ASSUME SubsOK, Len(subs) < MaxSub
    PROVE  TagOf[Len(subs) + 1] \in Tag
<1>1. Len(subs) \in Nat /\ Len(subs) + 1 \in Id
  BY BoundAssumption DEF SubsOK, Id
<1>2. QED
  BY <1>1 DEF Tag

\* Every step is one of those above.
LEMMA StepKinds ==
    ASSUME SlotInv, Next
    PROVE  /\ SlotInv'
           /\ \/ Aside \/ Joined \/ JoinedFile \/ Closes
              \/ LineKept /\ \E ids, j, k, status : Ends(ids, j, k, status)
              \/ LineKept /\ \E j, k, left : Blocks(j, k, left)
<1>0. SubsOK
  BY SlotFacts
<1>1. CASE User
  <2>1. CASE Accepted
    BY <2>1, QuietSteps
  <2>2. CASE aio_connect_on \/ dyn_aio_cancel_reader
    BY <2>2, ReaderSteps
  <2>3. ASSUME NEW added \in BOOLEAN, NEW multishot \in BOOLEAN, dyn_aio_recv(multishot, added)
        PROVE  SlotInv' /\ Aside
    BY <2>3, ReaderSteps
  <2>4. ASSUME NEW added \in BOOLEAN, NEW len \in Lens, aio_send_raw(len, TagOf[Len(subs) + 1], added)
        PROVE  SlotInv' /\ Joined
    <3>1. TagOf[Len(subs) + 1] \in Tag
      BY <1>0, <2>4, NextTag, QuotaWithin DEF aio_send_raw
    <3>2. Joined
      BY <2>4, <3>1, SendStep
    <3>3. QED  BY <3>2 DEF Joined
  <2>5. ASSUME NEW added \in BOOLEAN, NEW len \in FileLens,
               dyn_aio_sendfile(len, TagOf[Len(subs) + 1], added)
        PROVE  SlotInv' /\ JoinedFile
    <3>1. TagOf[Len(subs) + 1] \in Tag
      BY <1>0, <2>5, NextTag, QuotaWithin DEF dyn_aio_sendfile
    <3>2. JoinedFile
      BY <2>5, <3>1, FileStep
    <3>3. QED  BY <3>2 DEF JoinedFile
  <2>6. CASE dyn_aio_close
    BY <2>6, CloseStep
  <2>7. ASSUME NEW tag \in Tag, dyn_aio_cancel(tag)
        PROVE  SlotInv' /\ LineKept /\ \E ids, j, k, status : Ends(ids, j, k, status)
    BY <2>7, CancelStep
  <2>8. QED
    BY <1>1, <2>1, <2>2, <2>3, <2>4, <2>5, <2>6, <2>7 DEF User
<1>2. CASE Connected \/ PeerReads \/ PeerResets \/ \E ev \in Events : Dispatch(ev)
  BY <1>2, QuietSteps
<1>3. CASE Stages
  <2>1. CASE WriteReturns \/ OtherOccupant \/ FileSkipped \/ FileReturns \/ ReadSkipped
    BY <2>1, QuietSteps
  <2>2. CASE ConnectDone \/ ReadDone
    BY <2>2, ReaderSteps
  <2>3. CASE WriteDone
    BY <2>3, WriteDoneStep
  <2>4. CASE WriteFails
    BY <2>4, WriteFailsStep
  <2>5. CASE ErrorReturns
    BY <2>5, ErrorReturnsStep
  <2>6. CASE FileDone \/ FileError
    BY <2>6, FileEndsStep
  <2>7. CASE WriteBlocks
    BY <2>7, WriteBlocksStep
  <2>8. CASE FileBlocks
    BY <2>8, FileBlocksStep
  <2>9. QED
    BY <1>3, <2>1, <2>2, <2>3, <2>4, <2>5, <2>6, <2>7, <2>8 DEF Stages
<1>4. QED
  BY <1>1, <1>2, <1>3 DEF Next

-----------------------------------------------------------------------------
(* What is owed is watched for, and the queue moves *)

\* SlotInv holds initially and every step keeps it.
LEMMA SlotAlways == Spec => []SlotInv
<1>1. Init => SlotInv
  <2> SUFFICES ASSUME Init PROVE SlotInv
    OBVIOUS
  <2>1. /\ conn = Cleared /\ life = 0 /\ disp = AtRest /\ sock = "none" /\ room = Room
        /\ wire = <<>> /\ subs = <<>> /\ Len(subs) = 0
    BY DEF Init
  <2>2. ConnOK(conn, Len(subs), sock)
    BY <2>1, ClearedOK
  <2>3. LifeOK /\ DispOK /\ BufOK /\ SubsOK
    BY <2>1, BoundAssumption DEF LifeOK, DispOK, AtRest, BufOK, SubsOK
  <2>4. QED
    BY <2>2, <2>3 DEF SlotInv
<1>2. SlotInv /\ [Next]_vars => SlotInv'
  <2>1. SlotInv /\ UNCHANGED vars => SlotInv'
    BY DEF vars, SlotInv, ConnOK, LifeOK, DispOK, BufOK, SubsOK
  <2>2. QED
    BY <2>1, StepKinds
<1>3. QED
  BY <1>1, <1>2, PTL DEF Spec

\* The slot is well formed in every state, whatever is cancelled and however
\* long file bodies are; what it owes is watched for (aio_apply_interest).
THEOREM SlotSound == Spec => [](TypeOK /\ InterestSound)
<1>1. SlotInv => TypeOK /\ InterestSound
  BY SlotImplies
<1>2. QED
  BY <1>1, SlotAlways, PTL

\* As long as no file body is cancelled, the queue keeps something in front.
LEMMA QueueKept ==
    ASSUME SlotInv, QueueInv, ~FileCancel, [Next]_vars
    PROVE  QueueInv'
<1>1. CASE UNCHANGED vars
  BY <1>1 DEF vars, QueueInv, Front
<1>2. CASE Next
  <2>1. CASE Aside
    <3>1. Front(conn) => Front(conn')
      BY <2>1, OtherFields DEF Aside
    <3>2. QED
      BY <2>1, <3>1 DEF QueueInv, Aside
  <2>2. CASE Joined
    BY <2>2 DEF Joined, Submits, QueueInv
  <2>3. CASE JoinedFile
    BY <2>3 DEF JoinedFile, Submits, QueueInv
  <2>4. CASE Closes
    BY <2>4, ClearedOK DEF Closes, QueueInv
  <2>5. CASE LineKept
    BY <2>5 DEF LineKept
  <2>6. QED
    BY <1>2, <2>1, <2>2, <2>3, <2>4, <2>5, StepKinds
<1>3. QED
  BY <1>1, <1>2

\* Nothing on a descriptor is forgotten: whatever it owes the readiness loop
\* watches for, and a queued send has a write or a file body in front of it
\* whose end will promote it, except inside the error callback that
\* aio_wq_flush follows.  That file bodies are not cancelled is needed:
\* dyn_aio_cancel promotes nothing behind one.
THEOREM NothingIsForgotten ==
    ASSUME ~FileCancel
    PROVE  Spec => []NothingForgotten
<1>1. Init => QueueInv
  BY ClearedOK DEF Init, QueueInv
<1>2. SlotInv /\ QueueInv /\ [Next]_vars => QueueInv'
  BY QueueKept
<1>3. SlotInv /\ QueueInv => NothingForgotten
  BY SlotImplies DEF QueueInv, NothingForgotten, QueueMoves, Front
<1>4. QED
  BY <1>1, <1>2, <1>3, SlotAlways, PTL DEF Spec

-----------------------------------------------------------------------------
(* The ledger *)

\* The number of units of a submission grows by what the socket takes of it.
LEMMA SentGrows ==
    ASSUME BufOK, BufOK', NEW j, NEW k \in Nat, Wired(j, k), NEW i
    PROVE  /\ Sent(wire, i) \in Nat
           /\ Sent(wire', i) = IF i = j THEN Sent(wire, i) + k ELSE Sent(wire, i)
           /\ k = 0 => Sent(wire', i) = Sent(wire, i)
<1> DEFINE n == Len(wire)
           A == {p \in DOMAIN wire : wire[p] = i}
           B == {p \in DOMAIN wire' : wire'[p] = i}
           M == (n + 1)..(n + k)
<1>0. /\ n \in Nat /\ DOMAIN wire = 1..n /\ DOMAIN wire' = 1..(n + k) /\ Len(wire') = n + k
      /\ \A p \in 1..n : wire'[p] = wire[p]
      /\ \A p \in M : wire'[p] = j
  BY DEF BufOK, Wired
<1> HIDE DEF n
<1>1. A \subseteq 1..n /\ IsFiniteSet(1..n)
  BY <1>0, FS_Interval
<1>2. IsFiniteSet(A) /\ Cardinality(A) \in Nat
  BY <1>1, FS_Subset, FS_CardinalityType
<1>3. IsFiniteSet(M) /\ Cardinality(M) = k
  <2>1. n + 1 \in Int /\ n + k \in Int
    BY <1>0
  <2>2. IsFiniteSet(M) /\ Cardinality(M) = IF n + 1 > n + k THEN 0 ELSE (n + k) - (n + 1) + 1
    BY <2>1, FS_Interval
  <2>3. QED  BY <1>0, <2>2
<1>4. \A p \in 1..(n + k) : p \in 1..n \/ p \in M
  BY <1>0
<1>5. 1..n \subseteq 1..(n + k) /\ M \subseteq 1..(n + k) /\ (1..n) \cap M = {}
  BY <1>0
<1>6. CASE i = j
  <2>1. B = A \cup M
    BY <1>0, <1>4, <1>5, <1>6
  <2>2. A \cap M = {}
    BY <1>1, <1>5
  <2> HIDE DEF A, B, M
  <2>3. Cardinality(A \cup M) = Cardinality(A) + Cardinality(M) - Cardinality(A \cap M)
    BY <1>2, <1>3, FS_Union
  <2>4. Cardinality(A \cap M) = 0
    BY <2>2, FS_EmptySet
  <2>5. Cardinality(B) = Cardinality(A) + k
    BY <1>2, <1>3, <2>1, <2>3, <2>4
  <2>6. QED
    BY <1>2, <1>6, <2>5 DEF Sent, A, B
<1>7. CASE i # j
  <2>1. B = A
    BY <1>0, <1>4, <1>5, <1>7
  <2>2. QED
    BY <1>2, <1>7, <2>1 DEF Sent
<1>8. QED
  BY <1>2, <1>6, <1>7 DEF Sent

\* What is not on the wire counts nothing.
LEMMA SentNone ==
    ASSUME NEW i, \A p \in DOMAIN wire : wire[p] # i
    PROVE  Sent(wire, i) = 0
<1>1. {p \in DOMAIN wire : wire[p] = i} = {}
  OBVIOUS
<1>2. QED
  BY <1>1, FS_EmptySet DEF Sent

\* A submission enters the ledger with what was taken of it at once and the
\* rest, if it is pending, owed.
LEMMA LedgerSubmits ==
    ASSUME SlotInv, SlotInv', LedgerInv,
           NEW k, NEW len, NEW status, NEW file, Submits(k, len, status, file)
    PROVE  LedgerInv'
<1> DEFINE N == Len(subs) + 1
<1>0. /\ Shaped(conn) /\ Len(subs) \in Nat /\ DOMAIN subs = 1..Len(subs) /\ BufOK
      /\ LifeOK /\ SubsOK
  BY SlotFacts
<1>1. Shaped(conn') /\ BufOK'
  BY DEF SlotInv, ConnOK
<1>2. /\ k \in Nat /\ len \in Nat /\ Wired(N, k)
      /\ Len(subs') = N /\ \A i \in 1..Len(subs) : subs'[i] = subs[i]
      /\ subs'[N].life = life /\ subs'[N].len = len /\ subs'[N].status = status
      /\ status = "pending" => k <= len /\ (len > 0 => k < len)
      /\ status = "ok" => k = len
      /\ UNCHANGED <<life, disp, sock>>
      /\ \A i, m : Owes(conn', i, m) <=>
            Owes(conn, i, m) \/ (status = "pending" /\ i = N /\ m = len - k /\ m # 0)
  BY DEF Submits
<1>3. /\ DOMAIN subs' = 1..N /\ N \in Nat /\ N \notin 1..Len(subs)
      /\ \A i \in 1..N : i = N \/ i \in 1..Len(subs)
      /\ N \in 1..N /\ 1..Len(subs) \subseteq 1..N
  <2>1. subs' \in Seq(Sub)
    BY DEF SlotInv, SubsOK
  <2>2. QED  BY <1>0, <1>2, <2>1
<1>4. Sent(wire, N) = 0
  BY <1>0, <1>3, SentNone DEF LedgerInv
<1>5. Sent(wire', N) = k /\ \A i \in 1..Len(subs) : Sent(wire', i) = Sent(wire, i)
  BY <1>0, <1>1, <1>2, <1>3, <1>4, SentGrows
<1>6. ASSUME NEW i \in Nat, NEW m \in Nat, Owes(conn', i, m)
      PROVE  /\ i \in DOMAIN subs' /\ subs'[i].status = "pending" /\ subs'[i].life = life'
             /\ Sent(wire', i) + m = subs'[i].len
  <2>1. CASE Owes(conn, i, m)
    <3>1. /\ i \in DOMAIN subs /\ subs[i].status = "pending" /\ subs[i].life = life
          /\ Sent(wire, i) + m = subs[i].len
      BY <2>1 DEF LedgerInv
    <3>2. QED
      BY <1>0, <1>2, <1>3, <1>5, <3>1
  <2>2. CASE status = "pending" /\ i = N /\ m = len - k
    BY <1>2, <1>3, <1>5, <2>2
  <2>3. QED
    BY <1>2, <1>6, <2>1, <2>2
<1>7. ASSUME NEW i \in DOMAIN subs', subs'[i].status = "pending", subs'[i].len > 0
      PROVE  \E m \in Nat : Owes(conn', i, m)
  <2>1. CASE i = N
    <3>1. len - k \in Nat /\ len - k # 0 /\ status = "pending"
      BY <1>2, <1>7, <2>1
    <3>2. Owes(conn', N, len - k)
      BY <1>2, <3>1
    <3>3. QED  BY <2>1, <3>1, <3>2
  <2>2. CASE i \in 1..Len(subs)
    <3>1. PICK m \in Nat : Owes(conn, i, m)
      BY <1>0, <1>2, <1>7, <2>2 DEF LedgerInv
    <3>2. QED  BY <1>2, <3>1
  <2>3. QED  BY <1>3, <2>1, <2>2
<1>8. \A i \in DOMAIN subs' : subs'[i].life <= life'
  BY <1>0, <1>2, <1>3 DEF LedgerInv, LifeOK
<1>9. ASSUME NEW i \in DOMAIN subs', subs'[i].status = "ok", subs'[i].life = life'
      PROVE  Sent(wire', i) = subs'[i].len
  BY <1>0, <1>2, <1>3, <1>5, <1>9 DEF LedgerInv
<1>10. ASSUME NEW p \in DOMAIN wire' PROVE wire'[p] \in DOMAIN subs'
  <2>1. /\ Len(wire) \in Nat /\ DOMAIN wire = 1..Len(wire) /\ DOMAIN wire' = 1..(Len(wire) + k)
    BY <1>0, <1>1, <1>2 DEF BufOK, Wired
  <2>2. CASE p \in 1..Len(wire)
    BY <1>0, <1>2, <1>3, <2>1, <2>2 DEF Wired, LedgerInv
  <2>3. CASE p \in (Len(wire) + 1)..(Len(wire) + k)
    BY <1>2, <1>3, <2>3 DEF Wired
  <2>4. QED  BY <1>2, <2>1, <2>2, <2>3
<1>11. QED
  BY <1>6, <1>7, <1>8, <1>9, <1>10 DEF LedgerInv

\* Submissions leave it: the one that is done with its last units taken, those
\* that failed or were cancelled with nothing more taken.
LEMMA LedgerEnds ==
    ASSUME SlotInv, SlotInv', LedgerInv,
           NEW ids, NEW j, NEW k, NEW status, Ends(ids, j, k, status)
    PROVE  LedgerInv'
<1>0. /\ Shaped(conn) /\ Len(subs) \in Nat /\ DOMAIN subs = 1..Len(subs) /\ BufOK
      /\ conn.w.left \in Nat
  BY SlotFacts
<1>1. /\ Shaped(conn') /\ BufOK' /\ DOMAIN subs' = 1..Len(subs)
  BY DEF SlotInv, ConnOK, SubsOK, Ends
<1>2. /\ k \in Nat /\ Wired(j, k) /\ life' = life
      /\ \A i \in 1..Len(subs) :
            /\ i \in ids => subs'[i].status = status
            /\ i \notin ids => subs'[i] = subs[i]
            /\ subs'[i].life = subs[i].life /\ subs'[i].len = subs[i].len
      /\ \A i, m : Owes(conn', i, m) => Owes(conn, i, m) /\ i \notin ids
      /\ \A i, m : Owes(conn, i, m) /\ i \notin ids => \E l : Owes(conn', i, l)
      /\ status # "pending"
      /\ status = "ok" => ids = {j} /\ Owes(conn, j, k)
      /\ status # "ok" => k = 0
  BY DEF Ends
<1>3. \A i : i \notin ids => Sent(wire', i) = Sent(wire, i)
  BY <1>0, <1>1, <1>2, SentGrows
<1>4. \A i : Sent(wire', i) = IF i = j THEN Sent(wire, i) + k ELSE Sent(wire, i)
  BY <1>0, <1>1, <1>2, SentGrows
<1>5. ASSUME status = "ok"
      PROVE  /\ j \in 1..Len(subs) /\ subs[j].life = life /\ Sent(wire, j) + k = subs[j].len
  <2>1. j \in Nat
    BY <1>0, <1>2, <1>5, OwedIsCarried
  <2>2. QED
    BY <1>0, <1>2, <1>5, <2>1 DEF LedgerInv
<1>6. ASSUME NEW i \in Nat, NEW m \in Nat, Owes(conn', i, m)
      PROVE  /\ i \in DOMAIN subs' /\ subs'[i].status = "pending" /\ subs'[i].life = life'
             /\ Sent(wire', i) + m = subs'[i].len
  <2>1. Owes(conn, i, m) /\ i \notin ids
    BY <1>2, <1>6
  <2>2. /\ i \in DOMAIN subs /\ subs[i].status = "pending" /\ subs[i].life = life
        /\ Sent(wire, i) + m = subs[i].len
    BY <2>1 DEF LedgerInv
  <2>3. QED
    BY <1>0, <1>1, <1>2, <1>3, <2>1, <2>2
<1>7. ASSUME NEW i \in DOMAIN subs', subs'[i].status = "pending", subs'[i].len > 0
      PROVE  \E m \in Nat : Owes(conn', i, m)
  <2>1. i \in 1..Len(subs) /\ i \notin ids /\ subs[i].status = "pending" /\ subs[i].len > 0
    BY <1>1, <1>2, <1>7
  <2>3. PICK m \in Nat : Owes(conn, i, m)
    BY <1>0, <2>1 DEF LedgerInv
  <2>4. PICK l : Owes(conn', i, l)
    BY <1>2, <2>1, <2>3
  <2>5. QED  BY <1>1, <2>4, OwedIsCarried
<1>8. \A i \in DOMAIN subs' : subs'[i].life <= life'
  BY <1>0, <1>1, <1>2 DEF LedgerInv
<1>9. ASSUME NEW i \in DOMAIN subs', subs'[i].status = "ok", subs'[i].life = life'
      PROVE  Sent(wire', i) = subs'[i].len
  <2>1. CASE i \in ids
    <3>1. status = "ok" /\ i = j
      BY <1>1, <1>2, <1>9, <2>1
    <3>2. QED
      BY <1>1, <1>2, <1>4, <1>5, <3>1
  <2>2. CASE i \notin ids
    <3>1. i \in DOMAIN subs /\ subs[i].status = "ok" /\ subs[i].life = life
      BY <1>0, <1>1, <1>2, <1>9, <2>2
    <3>2. Sent(wire, i) = subs[i].len
      BY <3>1 DEF LedgerInv
    <3>3. QED
      BY <1>0, <1>2, <1>3, <2>2, <3>1, <3>2
  <2>3. QED  BY <2>1, <2>2
<1>10. ASSUME NEW p \in DOMAIN wire' PROVE wire'[p] \in DOMAIN subs'
  <2>1. /\ Len(wire) \in Nat /\ DOMAIN wire = 1..Len(wire) /\ DOMAIN wire' = 1..(Len(wire) + k)
    BY <1>0, <1>1, <1>2 DEF BufOK, Wired
  <2>2. CASE p \in 1..Len(wire)
    BY <1>0, <1>1, <1>2, <2>1, <2>2 DEF Wired, LedgerInv
  <2>3. CASE p \in (Len(wire) + 1)..(Len(wire) + k)
    <3>1. k # 0
      BY <1>2, <2>1, <2>3
    <3>2. status = "ok" /\ wire'[p] = j
      BY <1>2, <2>3, <3>1 DEF Wired
    <3>3. QED  BY <1>1, <1>5, <3>2
  <2>4. QED  BY <1>2, <2>1, <2>2, <2>3
<1>11. QED
  BY <1>6, <1>7, <1>8, <1>9, <1>10 DEF LedgerInv

\* A short write moves units from what is owed to what was taken.
LEMMA LedgerBlocks ==
    ASSUME SlotInv, SlotInv', LedgerInv,
           NEW j, NEW k, NEW left, Blocks(j, k, left)
    PROVE  LedgerInv'
<1>0. /\ Shaped(conn) /\ Len(subs) \in Nat /\ DOMAIN subs = 1..Len(subs) /\ BufOK
      /\ conn.w.left \in Nat
  BY SlotFacts
<1>1. Shaped(conn') /\ BufOK'
  BY DEF SlotInv, ConnOK
<1>2. /\ k \in Nat /\ left \in Nat /\ k <= left /\ Wired(j, k) /\ life' = life /\ subs' = subs
      /\ Owes(conn, j, left)
      /\ \A i, m : Owes(conn', i, m) <=> (i # j /\ Owes(conn, i, m)) \/ (i = j /\ m = left - k)
  BY DEF Blocks
<1>3. \A i : /\ Sent(wire, i) \in Nat
             /\ Sent(wire', i) = IF i = j THEN Sent(wire, i) + k ELSE Sent(wire, i)
  BY <1>0, <1>1, <1>2, SentGrows
<1>5. j \in Nat
  BY <1>0, <1>2, OwedIsCarried
<1>6. j \in DOMAIN subs /\ subs[j].status = "pending" /\ subs[j].life = life
      /\ Sent(wire, j) + left = subs[j].len
  BY <1>2, <1>5 DEF LedgerInv
<1>7. ASSUME NEW i \in Nat, NEW m \in Nat, Owes(conn', i, m)
      PROVE  /\ i \in DOMAIN subs' /\ subs'[i].status = "pending" /\ subs'[i].life = life'
             /\ Sent(wire', i) + m = subs'[i].len
  <2>1. CASE i # j /\ Owes(conn, i, m)
    <3>1. /\ i \in DOMAIN subs /\ subs[i].status = "pending" /\ subs[i].life = life
          /\ Sent(wire, i) + m = subs[i].len
      BY <2>1 DEF LedgerInv
    <3>2. QED  BY <1>2, <1>3, <2>1, <3>1
  <2>2. CASE i = j /\ m = left - k
    <3>1. (Sent(wire, j) + k) + (left - k) = Sent(wire, j) + left
      BY <1>2, <1>3
    <3>2. QED  BY <1>2, <1>3, <1>6, <2>2, <3>1
  <2>3. QED  BY <1>2, <1>7, <2>1, <2>2
<1>8. ASSUME NEW i \in DOMAIN subs, subs[i].status = "pending", subs[i].len > 0
      PROVE  \E m \in Nat : Owes(conn', i, m)
  <2>1. PICK m \in Nat : Owes(conn, i, m)
    BY <1>8 DEF LedgerInv
  <2>2. \E l : Owes(conn', i, l)
    BY <1>2, <2>1
  <2>3. QED  BY <1>1, <2>2, OwedIsCarried
<1>9. ASSUME NEW i \in DOMAIN subs, subs[i].status = "ok", subs[i].life = life
      PROVE  Sent(wire', i) = subs[i].len
  BY <1>3, <1>6, <1>9 DEF LedgerInv
<1>10. ASSUME NEW p \in DOMAIN wire' PROVE wire'[p] \in DOMAIN subs
  <2>1. /\ Len(wire) \in Nat /\ DOMAIN wire = 1..Len(wire) /\ DOMAIN wire' = 1..(Len(wire) + k)
    BY <1>0, <1>1, <1>2 DEF BufOK, Wired
  <2>2. CASE p \in 1..Len(wire)
    BY <1>2, <2>1, <2>2 DEF Wired, LedgerInv
  <2>3. CASE p \in (Len(wire) + 1)..(Len(wire) + k)
    BY <1>2, <1>6, <2>3 DEF Wired
  <2>4. QED  BY <1>2, <2>1, <2>2, <2>3
<1>11. QED
  BY <1>2, <1>7, <1>8, <1>9, <1>10 DEF LedgerInv

\* dyn_aio_close ends all that is carried: the next life owes nothing.
LEMMA LedgerCloses ==
    ASSUME SlotInv, SlotInv', LedgerInv, Closes
    PROVE  LedgerInv'
<1>0. /\ Shaped(conn) /\ Len(subs) \in Nat /\ DOMAIN subs = 1..Len(subs) /\ life \in Nat
  BY SlotFacts, BoundAssumption DEF LifeOK
<1>1. DOMAIN subs' = 1..Len(subs)
  BY DEF SlotInv, SubsOK, Closes
<1>2. /\ conn' = Cleared /\ life' = life + 1 /\ wire' = <<>>
      /\ \A i \in 1..Len(subs) :
          /\ i \in Carried(conn) => subs'[i].status \in {"reset", "dropped"}
          /\ i \notin Carried(conn) => subs'[i] = subs[i]
          /\ subs'[i].life = subs[i].life /\ subs'[i].len = subs[i].len
  BY DEF Closes
<1>3. \A i \in 1..Len(subs) : subs'[i].life \in Nat /\ subs'[i].life <= life
  <2>1. \A i \in 1..Len(subs) : subs[i] \in Sub
    BY SlotFacts DEF SubsOK
  <2>2. \A i \in 1..Len(subs) : subs[i].life \in Nat
    BY <2>1, BoundAssumption DEF Sub
  <2>3. QED  BY <1>0, <1>2, <2>2 DEF LedgerInv
<1>4. ASSUME NEW i \in 1..Len(subs), subs'[i].status = "pending", subs'[i].len > 0 PROVE FALSE
  <2>1. i \notin Carried(conn) /\ subs[i].status = "pending" /\ subs[i].len > 0
    BY <1>2, <1>4
  <2>2. \E m : Owes(conn, i, m)
    BY <1>0, <2>1 DEF LedgerInv
  <2>3. QED  BY <1>0, <2>1, <2>2, OwedIsCarried
<1>5. \A i \in 1..Len(subs) : subs'[i].life <= life' /\ subs'[i].life # life'
  BY <1>0, <1>2, <1>3
<1>6. \A i, m : ~Owes(conn', i, m)
  BY <1>2, ClearedOK
<1>7. DOMAIN wire' = {}
  BY <1>2
<1>8. QED
  BY <1>1, <1>4, <1>5, <1>6, <1>7 DEF LedgerInv

\* Every step keeps the ledger.
LEMMA LedgerKept ==
    ASSUME SlotInv, LedgerInv, [Next]_vars
    PROVE  LedgerInv'
<1>1. CASE UNCHANGED vars
  BY <1>1 DEF vars, LedgerInv
<1>2. CASE Next
  <2>0. SlotInv'
    BY <1>2, StepKinds
  <2>1. CASE Aside
    <3>1. /\ conn'.w = conn.w /\ conn'.w_q = conn.w_q /\ conn'.w_file = conn.w_file
          /\ life' = life /\ wire' = wire /\ subs' = subs
      BY <2>1 DEF Aside
    <3>2. \A i, m : Owes(conn', i, m) <=> Owes(conn, i, m)
      BY <3>1, OtherFields
    <3>3. QED
      BY <3>1, <3>2 DEF LedgerInv
  <2>2. CASE Joined \/ JoinedFile
    <3>1. \E k, len, status, file : Submits(k, len, status, file)
      BY <2>2 DEF Joined, JoinedFile
    <3>2. QED  BY <2>0, <3>1, LedgerSubmits
  <2>4. CASE Closes
    BY <2>0, <2>4, LedgerCloses
  <2>5. CASE \E ids, j, k, status : Ends(ids, j, k, status)
    BY <2>0, <2>5, LedgerEnds
  <2>6. CASE \E j, k, left : Blocks(j, k, left)
    BY <2>0, <2>6, LedgerBlocks
  <2>7. QED
    BY <1>2, <2>1, <2>2, <2>4, <2>5, <2>6, StepKinds
<1>3. QED
  BY <1>1, <1>2

\* The ledger is empty at first.
LEMMA LedgerInit == Init => LedgerInv
<1> SUFFICES ASSUME Init PROVE LedgerInv
  OBVIOUS
<1>1. conn = Cleared /\ wire = <<>> /\ subs = <<>>
  BY DEF Init
<1>2. \A i, m : ~Owes(conn, i, m)
  BY <1>1, ClearedOK
<1>3. DOMAIN wire = {} /\ DOMAIN subs = {}
  BY <1>1
<1>4. QED
  BY <1>2, <1>3 DEF LedgerInv

\* A submission reported as done is on the wire to its last unit, however many
\* short writes it took and whatever else was cancelled or failed, and one that
\* has units and is owed is still carried by the descriptor.  (An empty file
\* body behind a write may be pending and not carried: the next one replaces
\* it, for dyn_aio_sendfile takes it for none.)
THEOREM DoneMeansSent == Spec => []OkMeansSent
<1>1. SlotInv /\ LedgerInv /\ [Next]_vars => LedgerInv'
  BY LedgerKept
<1>2. SlotInv /\ LedgerInv => OkMeansSent
  <2> SUFFICES ASSUME SlotInv, LedgerInv PROVE OkMeansSent
    OBVIOUS
  <2>1. \A i \in DOMAIN subs : subs[i].status = "pending" /\ subs[i].len > 0 => i \in Carried(conn)
    BY SlotFacts, OwedIsCarried DEF LedgerInv
  <2>2. QED
    BY <2>1 DEF LedgerInv, OkMeansSent, Sent
<1>3. QED
  BY <1>1, <1>2, LedgerInit, SlotAlways, PTL DEF Spec

-----------------------------------------------------------------------------
(* The order on the wire *)

\* Ahead after a step, of two submissions.
AheadNext(i, j) ==
    \/ i <= j
    \/ /\ subs'[i].file /\ ~subs'[j].file
       /\ \E g \in 1..(j - 1) : /\ subs'[g].file /\ subs'[g].status # "refused"
                                /\ subs'[g].life = subs'[j].life

\* Submissions stay what they are, and none is refused after it was accepted.
SubsStay ==
    \A i \in 1..Len(subs) :
        /\ i \in DOMAIN subs' /\ subs'[i].file = subs[i].file /\ subs'[i].life = subs[i].life
        /\ subs[i].status # "refused" => subs'[i].status # "refused"

\* Every step but the closing one keeps them and the occupant.
LEMMA SubsKept ==
    ASSUME SlotInv, SlotInv',
           \/ \E k, len, status, file : Submits(k, len, status, file)
           \/ \E ids, j, k, status : Ends(ids, j, k, status)
           \/ \E j, k, left : Blocks(j, k, left)
    PROVE  SubsStay /\ life' = life
<1>0. Len(subs) \in Nat /\ DOMAIN subs = 1..Len(subs)
  BY SlotFacts
<1>1. SubsOK'
  BY DEF SlotInv
<1>2. ASSUME NEW k, NEW len, NEW status, NEW file, Submits(k, len, status, file)
      PROVE  SubsStay /\ life' = life
  <2>1. /\ DOMAIN subs' = 1..(Len(subs) + 1) /\ life' = life
        /\ \A i \in 1..Len(subs) : subs'[i] = subs[i]
    BY <1>1, <1>2 DEF Submits, SubsOK
  <2>2. QED  BY <1>0, <2>1 DEF SubsStay
<1>3. ASSUME NEW ids, NEW j, NEW k, NEW status, Ends(ids, j, k, status)
      PROVE  SubsStay /\ life' = life
  <2>1. /\ DOMAIN subs' = 1..Len(subs) /\ life' = life /\ status # "refused"
        /\ \A i \in 1..Len(subs) :
              /\ i \in ids => subs'[i].status = status
              /\ i \notin ids => subs'[i] = subs[i]
              /\ subs'[i].life = subs[i].life /\ subs'[i].file = subs[i].file
    BY <1>1, <1>3 DEF Ends, SubsOK
  <2>2. QED  BY <2>1 DEF SubsStay
<1>4. ASSUME NEW j, NEW k, NEW left, Blocks(j, k, left)
      PROVE  SubsStay /\ life' = life
  BY <1>0, <1>4 DEF Blocks, SubsStay
<1>5. QED
  BY <1>2, <1>3, <1>4

\* So what is ahead stays ahead, and the first file body what it is.
LEMMA AheadStays ==
    ASSUME SlotInv, SlotInv', SubsStay
    PROVE  /\ \A i, j \in DOMAIN subs : Ahead(i, j) => AheadNext(i, j)
           /\ \A b \in Nat : FirstFile(b) /\ life' = life => FirstFile(b)'
<1>0. Len(subs) \in Nat /\ DOMAIN subs = 1..Len(subs)
  BY SlotFacts
<1>1. ASSUME NEW i \in DOMAIN subs, NEW j \in DOMAIN subs, MayPass(i, j)
      PROVE  AheadNext(i, j)
  <2>1. PICK g \in 1..(j - 1) : /\ subs[g].file /\ subs[g].status # "refused"
                               /\ subs[g].life = subs[j].life
    BY <1>1 DEF MayPass, FileBefore
  <2>2. g \in 1..Len(subs)
    BY <1>0, <2>1
  <2>3. /\ subs'[g].file /\ subs'[g].status # "refused" /\ subs'[g].life = subs'[j].life
        /\ subs'[i].file /\ ~subs'[j].file
    BY <1>0, <1>1, <2>1, <2>2 DEF SubsStay, MayPass
  <2>4. QED  BY <2>1, <2>3 DEF AheadNext
<1>2. \A i, j \in DOMAIN subs : Ahead(i, j) => AheadNext(i, j)
  BY <1>1 DEF Ahead, AheadNext
<1>3. \A b \in Nat : FirstFile(b) /\ life' = life => FirstFile(b)'
  BY <1>0 DEF FirstFile, SubsStay
<1>4. QED
  BY <1>2, <1>3

\* A file body may pass the sends that are queued behind b.
LEMMA PassesQueued ==
    ASSUME SlotInv, SlotInv', LedgerInv, KindOK, SubsStay, NEW b \in Nat, FirstFile(b),
           NEW j, subs'[j].file, NEW i, NEW m, Owes(conn, i, m), ~FileIs(conn, i), i > b
    PROVE  AheadNext(j, i)
<1>0. Shaped(conn) /\ Len(subs) \in Nat /\ DOMAIN subs = 1..Len(subs) /\ Len(subs) <= MaxSub /\ MaxSub \in Nat
  BY SlotFacts, BoundAssumption DEF SubsOK
<1>1. i \in Nat /\ m \in Nat
  BY <1>0, OwedIsCarried
<1>2. i \in 1..Len(subs) /\ subs[i].life = life /\ ~subs[i].file
  BY <1>0, <1>1 DEF LedgerInv, KindOK
<1>3. b \in 1..(i - 1) /\ b \in 1..Len(subs) /\ subs[b].file /\ subs[b].status # "refused" /\ subs[b].life = life
  BY <1>0, <1>2 DEF FirstFile
<1>4. QED
  BY <1>2, <1>3 DEF SubsStay, AheadNext

\* What the socket sends from is ahead of what is owed.
LEMMA LeadIsAhead ==
    ASSUME SlotInv, SlotInv', LedgerInv, OrderInv, SubsStay, NEW j, NEW l, Owes(conn, j, l), Sends(j),
           NEW i, NEW m, Owes(conn, i, m)
    PROVE  AheadNext(j, i)
<1>0. Shaped(conn) /\ Len(subs) \in Nat /\ DOMAIN subs = 1..Len(subs)
  BY SlotFacts
<1>1. PICK b \in Nat : LineInv(b)
  BY DEF OrderInv
<1>2. Leads(j, b) /\ FirstFile(b) /\ KindOK
  BY <1>1 DEF OrderInv, LineInv, Sends
<1>3. CASE j <= i
  BY <1>3 DEF AheadNext
<1>4. CASE FileIs(conn, j) /\ ~FileIs(conn, i) /\ i > b
  <2>1. j \in Nat /\ l \in Nat
    BY <1>0, OwedIsCarried
  <2>2. j \in 1..Len(subs) /\ subs[j].file
    BY <1>0, <1>2, <1>4, <2>1 DEF LedgerInv, KindOK
  <2>3. subs'[j].file
    BY <2>2 DEF SubsStay
  <2>4. QED
    BY <1>2, <1>4, <2>3, PassesQueued
<1>5. QED
  BY <1>2, <1>3, <1>4 DEF Leads

\* What is on the wire after the socket took k units of a submission that what
\* is there is ahead of, and that is there only at the end.
LEMMA WireGrows ==
    ASSUME SlotInv, SlotInv', LedgerInv, WireOrder, SubsStay, NEW j, NEW k \in Nat, Wired(j, k),
           k > 0 => /\ j \in Nat
                    /\ \A p \in DOMAIN wire :
                          /\ AheadNext(wire[p], j)
                          /\ wire[p] = j => \A q \in DOMAIN wire : p < q => wire[q] = j
    PROVE  /\ \A p, q \in DOMAIN wire' : p < q => AheadNext(wire'[p], wire'[q])
           /\ \A p, q, r \in DOMAIN wire' :
                 p < q /\ q < r /\ wire'[p] = wire'[r] => wire'[q] = wire'[p]
           /\ \A p \in DOMAIN wire' : \/ p \in DOMAIN wire /\ wire'[p] = wire[p]
                                      \/ k > 0 /\ p > Len(wire) /\ wire'[p] = j
           /\ \A p \in DOMAIN wire, q \in DOMAIN wire' : q < p => q \in DOMAIN wire
<1>0. BufOK /\ BufOK'
  BY DEF SlotInv
<1>1. /\ Len(wire) \in Nat /\ DOMAIN wire = 1..Len(wire) /\ DOMAIN wire' = 1..(Len(wire) + k)
  BY <1>0 DEF BufOK, Wired
<1>2. /\ \A p \in 1..Len(wire) : wire'[p] = wire[p]
      /\ \A p \in (Len(wire) + 1)..(Len(wire) + k) : wire'[p] = j
  BY DEF Wired
<1>3. ASSUME NEW p \in DOMAIN wire'
      PROVE  \/ p \in DOMAIN wire /\ wire'[p] = wire[p]
             \/ k > 0 /\ p > Len(wire) /\ wire'[p] = j
  <2>1. CASE p \in 1..Len(wire)
    BY <1>1, <1>2, <2>1
  <2>2. CASE p \in (Len(wire) + 1)..(Len(wire) + k)
    BY <1>1, <1>2, <2>2
  <2>3. QED  BY <1>1, <2>1, <2>2
<1>4. \A p \in DOMAIN wire, q \in DOMAIN wire' : q < p => q \in DOMAIN wire
  BY <1>1
<1>5. \A p, q \in DOMAIN wire : p < q => AheadNext(wire[p], wire[q])
  BY AheadStays DEF LedgerInv, WireOrder
<1>6. ASSUME NEW p \in DOMAIN wire', NEW q \in DOMAIN wire', p < q
      PROVE  AheadNext(wire'[p], wire'[q])
  <2>1. CASE q \in DOMAIN wire
    <3>1. p \in DOMAIN wire
      BY <1>4, <1>6, <2>1
    <3>2. QED  BY <1>1, <1>2, <1>5, <1>6, <2>1, <3>1
  <2>2. CASE k > 0 /\ wire'[q] = j
    <3>1. j <= j
      BY <2>2
    <3>2. QED  BY <1>3, <2>2, <3>1 DEF AheadNext
  <2>3. QED  BY <1>3, <2>1, <2>2
<1>7. ASSUME NEW p \in DOMAIN wire', NEW q \in DOMAIN wire', NEW r \in DOMAIN wire',
             p < q, q < r, wire'[p] = wire'[r]
      PROVE  wire'[q] = wire'[p]
  <2>1. CASE r \in DOMAIN wire
    <3>1. q \in DOMAIN wire /\ p \in DOMAIN wire
      BY <1>1, <1>7, <2>1
    <3>2. wire'[p] = wire[p] /\ wire'[q] = wire[q] /\ wire'[r] = wire[r]
      BY <1>1, <1>2, <2>1, <3>1
    <3>3. QED  BY <1>7, <2>1, <3>1, <3>2 DEF WireOrder
  <2>2. CASE k > 0 /\ wire'[r] = j
    <3>1. CASE q \in DOMAIN wire
      <4>1. p \in DOMAIN wire /\ wire'[p] = wire[p] /\ wire'[q] = wire[q]
        BY <1>1, <1>2, <1>7, <3>1
      <4>2. QED  BY <1>7, <2>2, <3>1, <4>1
    <3>2. CASE wire'[q] = j
      BY <1>7, <2>2, <3>2
    <3>3. QED  BY <1>3, <3>1, <3>2
  <2>3. QED  BY <1>3, <2>1, <2>2
<1>8. QED
  BY <1>3, <1>4, <1>6, <1>7

\* WireOrder after a step, from its parts.
LEMMA WireOrderNext ==
    ASSUME \A p, q \in DOMAIN wire' : p < q => AheadNext(wire'[p], wire'[q]),
           \A p, q, r \in DOMAIN wire' :
              p < q /\ q < r /\ wire'[p] = wire'[r] => wire'[q] = wire'[p],
           \A i, m \in Nat : Owes(conn', i, m) =>
              \A p \in DOMAIN wire' :
                 /\ AheadNext(wire'[p], i)
                 /\ wire'[p] = i => /\ Turn(conn') = i
                                   /\ \A q \in DOMAIN wire' : p < q => wire'[q] = i
    PROVE  WireOrder'
BY DEF WireOrder, AheadNext, Ahead, MayPass, FileBefore

\* A submission leaves the wire in order.
LEMMA OrderSubmits ==
    ASSUME SlotInv, SlotInv', LedgerInv, OrderInv,
           NEW k, NEW len, NEW status, NEW file, Submits(k, len, status, file)
    PROVE  WireOrder' /\ KindOK'
<1> DEFINE N == Len(subs) + 1
<1>0. /\ Shaped(conn) /\ InLine(conn, Len(subs)) /\ Len(subs) \in Nat
      /\ DOMAIN subs = 1..Len(subs) /\ KindOK /\ WireOrder
      /\ conn.w.left \in Nat /\ conn.w_file.left \in Nat /\ conn.w.id \in Nat /\ Idle.id = 0
      /\ conn.w.left = 0 <=> conn.w = Idle
  BY SlotFacts, FieldTypes DEF OrderInv
<1>1. SubsStay
  BY SubsKept
<1>2. /\ k \in Nat /\ len \in Nat /\ Wired(N, k)
      /\ subs'[N].file = file
      /\ status = "pending" => k <= len
      /\ k > 0 => /\ sock = "up" /\ conn.w.left = 0 /\ conn.w_file.left = 0
                  /\ file \/ conn.w_q = <<>>
      /\ \A i, m : Owes(conn', i, m) <=>
             Owes(conn, i, m) \/ (status = "pending" /\ i = N /\ m = len - k /\ m # 0)
      /\ Kept(conn, conn')
      /\ status = "pending" /\ k < len =>
             /\ FileIs(conn', N) <=> file
             /\ k > 0 => Turn(conn') = N
  BY DEF Submits
<1>3. N \in Nat /\ \A p \in DOMAIN wire : wire[p] \in DOMAIN subs /\ wire[p] < N /\ wire[p] # N
  BY <1>0 DEF LedgerInv
<1>4. \A i, m : Owes(conn, i, m) => i \in Nat /\ m \in Nat /\ i \in DOMAIN subs /\ i # N
  BY <1>0, OwedIsCarried DEF LedgerInv
<1> HIDE DEF N
<1>5. /\ \A p, q \in DOMAIN wire' : p < q => AheadNext(wire'[p], wire'[q])
      /\ \A p, q, r \in DOMAIN wire' :
            p < q /\ q < r /\ wire'[p] = wire'[r] => wire'[q] = wire'[p]
      /\ \A p \in DOMAIN wire' : \/ p \in DOMAIN wire /\ wire'[p] = wire[p]
                                 \/ k > 0 /\ p > Len(wire) /\ wire'[p] = N
      /\ \A p \in DOMAIN wire, q \in DOMAIN wire' : q < p => q \in DOMAIN wire
  <2>1. \A p \in DOMAIN wire : AheadNext(wire[p], N) /\ wire[p] # N
    BY <1>0, <1>3 DEF AheadNext
  <2>2. QED
    BY <1>0, <1>1, <1>2, <1>3, <2>1, WireGrows
<1>6. ASSUME k > 0, NEW i, NEW m, Owes(conn, i, m) PROVE Turn(conn) # i /\ AheadNext(N, i)
  <2>1. Turn(conn) # i
    <3>1. ~Owes(conn, conn.w_file.id, m)
      BY <1>0, <1>2, <1>6, EmptyNotOwed
    <3>2. Turn(conn) = conn.w_file.id
      BY <1>2, <1>6 DEF Turn
    <3>3. QED  BY <1>6, <3>1, <3>2
  <2>2. \E l \in 1..Len(conn.w_q) : conn.w_q[l].id = i
    BY <1>0, <1>2, <1>6 DEF Owes
  <2>3. file
    BY <1>2, <1>6, <2>2
  <2>4. PICK b \in Nat : FirstFile(b) /\ Parted(conn, b)
    BY <1>2, <1>6 DEF OrderInv, LineInv
  <2>5. i > b /\ ~FileIs(conn, i)
    BY <1>2, <1>6, <2>2, <2>4 DEF Parted, FileIs
  <2>6. QED
    BY <1>0, <1>1, <1>2, <1>6, <2>1, <2>3, <2>4, <2>5, PassesQueued
<1>7. ASSUME NEW i \in Nat, NEW m \in Nat, Owes(conn', i, m), NEW p \in DOMAIN wire'
      PROVE  /\ AheadNext(wire'[p], i)
             /\ wire'[p] = i => /\ Turn(conn') = i
                               /\ \A q \in DOMAIN wire' : p < q => wire'[q] = i
  <2>1. CASE Owes(conn, i, m) /\ p \in DOMAIN wire /\ wire'[p] = wire[p]
    <3>1. Ahead(wire[p], i) /\ i \in DOMAIN subs
      BY <1>0, <1>4, <2>1 DEF WireOrder
    <3>2. AheadNext(wire'[p], i)
      BY <1>1, <1>3, <2>1, <3>1, AheadStays
    <3>3. ASSUME wire[p] = i
          PROVE  Turn(conn') = i /\ \A q \in DOMAIN wire' : p < q => wire'[q] = i
      <4>1. Turn(conn) = i /\ \A q \in DOMAIN wire : p < q => wire[q] = i
        BY <1>0, <2>1, <3>3 DEF WireOrder
      <4>2. ~(k > 0)
        BY <1>6, <2>1, <4>1
      <4>3. Turn(conn') = i
        BY <1>2, <1>7, <2>1, <4>1 DEF Kept
      <4>4. QED  BY <1>5, <4>1, <4>2, <4>3
    <3>4. QED  BY <2>1, <3>2, <3>3
  <2>2. CASE Owes(conn, i, m) /\ k > 0 /\ wire'[p] = N
    BY <1>4, <1>6, <2>2
  <2>3. CASE status = "pending" /\ i = N /\ m = len - k /\ m # 0
    <3>1. k < len
      BY <1>2, <2>3
    <3>2. AheadNext(wire'[p], i)
      BY <1>0, <1>3, <1>5, <2>3 DEF AheadNext
    <3>3. ASSUME wire'[p] = i
          PROVE  Turn(conn') = i /\ \A q \in DOMAIN wire' : p < q => wire'[q] = i
      <4>1. k > 0 /\ p \notin DOMAIN wire
        BY <1>3, <1>5, <2>3, <3>3
      <4>2. \A q \in DOMAIN wire' : p < q => wire'[q] = N
        BY <1>5, <4>1
      <4>3. QED  BY <1>2, <2>3, <3>1, <4>1, <4>2
    <3>4. QED  BY <3>2, <3>3
  <2>4. QED
    BY <1>2, <1>5, <1>7, <2>1, <2>2, <2>3
<1>8. WireOrder'
  BY <1>5, <1>7, WireOrderNext
<1>9. ASSUME NEW i \in Nat, NEW m \in Nat, Owes(conn', i, m)
      PROVE  subs'[i].file <=> FileIs(conn', i)
  <2>1. CASE Owes(conn, i, m)
    <3>1. i \in 1..Len(subs) /\ (subs[i].file <=> FileIs(conn, i))
      BY <1>0, <1>4, <1>9, <2>1 DEF KindOK
    <3>2. FileIs(conn', i) <=> FileIs(conn, i)
      BY <1>2, <1>9, <2>1 DEF Kept
    <3>3. QED  BY <1>1, <3>1, <3>2 DEF SubsStay
  <2>2. CASE status = "pending" /\ i = N /\ m = len - k /\ m # 0
    <3>1. k < len
      BY <1>2, <2>2
    <3>2. QED  BY <1>2, <2>2, <3>1
  <2>3. QED  BY <1>2, <1>9, <2>1, <2>2
<1>10. KindOK'
  BY <1>9 DEF KindOK
<1>11. QED
  BY <1>8, <1>10

\* So does the end of one: what the socket takes of it is ahead of the rest.
LEMMA OrderEnds ==
    ASSUME SlotInv, SlotInv', LedgerInv, OrderInv,
           NEW ids, NEW j, NEW k, NEW status, Ends(ids, j, k, status)
    PROVE  WireOrder' /\ KindOK'
<1>0. Shaped(conn) /\ DOMAIN subs = 1..Len(subs) /\ KindOK /\ WireOrder
  BY SlotFacts DEF OrderInv
<1>1. SubsStay
  BY SubsKept
<1>2. /\ k \in Nat /\ Wired(j, k) /\ Kept(conn, conn')
      /\ \A i, m : Owes(conn', i, m) => Owes(conn, i, m) /\ i \notin ids
      /\ k > 0 => Owes(conn, j, k) /\ Sends(j) /\ ids = {j}
  BY DEF Ends
<1>3. \A i, m : Owes(conn, i, m) => i \in Nat /\ m \in Nat /\ i \in DOMAIN subs
  BY <1>0, OwedIsCarried DEF LedgerInv
<1>4. \A p \in DOMAIN wire : wire[p] \in DOMAIN subs
  BY DEF LedgerInv
<1>5. /\ \A p, q \in DOMAIN wire' : p < q => AheadNext(wire'[p], wire'[q])
      /\ \A p, q, r \in DOMAIN wire' :
            p < q /\ q < r /\ wire'[p] = wire'[r] => wire'[q] = wire'[p]
      /\ \A p \in DOMAIN wire' : \/ p \in DOMAIN wire /\ wire'[p] = wire[p]
                                 \/ k > 0 /\ p > Len(wire) /\ wire'[p] = j
  <2>1. ASSUME k > 0
        PROVE  /\ j \in Nat
               /\ \A p \in DOMAIN wire :
                     /\ AheadNext(wire[p], j)
                     /\ wire[p] = j => \A q \in DOMAIN wire : p < q => wire[q] = j
    <3>1. j \in Nat /\ j \in DOMAIN subs /\ Owes(conn, j, k)
      BY <1>2, <1>3, <2>1
    <3>2. \A p \in DOMAIN wire :
             /\ Ahead(wire[p], j)
             /\ wire[p] = j => \A q \in DOMAIN wire : p < q => wire[q] = j
      BY <1>0, <1>2, <3>1 DEF WireOrder
    <3>3. QED
      BY <1>1, <1>4, <3>1, <3>2, AheadStays
  <2>2. QED
    BY <1>0, <1>1, <1>2, <2>1, WireGrows
<1>7. ASSUME NEW i \in Nat, NEW m \in Nat, Owes(conn', i, m), NEW p \in DOMAIN wire'
      PROVE  /\ AheadNext(wire'[p], i)
             /\ wire'[p] = i => /\ Turn(conn') = i
                               /\ \A q \in DOMAIN wire' : p < q => wire'[q] = i
  <2>0. Owes(conn, i, m) /\ i \notin ids /\ i \in DOMAIN subs
    BY <1>2, <1>3, <1>7
  <2>1. CASE p \in DOMAIN wire /\ wire'[p] = wire[p]
    <3>1. Ahead(wire[p], i)
      BY <1>0, <2>0, <2>1 DEF WireOrder
    <3>2. AheadNext(wire'[p], i)
      BY <1>1, <1>4, <2>0, <2>1, <3>1, AheadStays
    <3>3. ASSUME wire[p] = i
          PROVE  Turn(conn') = i /\ \A q \in DOMAIN wire' : p < q => wire'[q] = i
      <4>1. Turn(conn) = i /\ \A q \in DOMAIN wire : p < q => wire[q] = i
        BY <1>0, <2>0, <2>1, <3>3 DEF WireOrder
      <4>2. ~(k > 0)
        BY <1>2, <2>0, <4>1 DEF Sends
      <4>3. Turn(conn') = i
        BY <1>2, <1>7, <2>0, <4>1 DEF Kept
      <4>4. QED  BY <1>5, <4>1, <4>2, <4>3
    <3>4. QED  BY <2>1, <3>2, <3>3
  <2>2. CASE k > 0 /\ wire'[p] = j
    BY <1>1, <1>2, <2>0, <2>2, LeadIsAhead
  <2>3. QED
    BY <1>5, <2>1, <2>2
<1>8. WireOrder'
  BY <1>5, <1>7, WireOrderNext
<1>9. ASSUME NEW i \in Nat, NEW m \in Nat, Owes(conn', i, m)
      PROVE  subs'[i].file <=> FileIs(conn', i)
  <2>1. Owes(conn, i, m) /\ i \in 1..Len(subs)
    BY <1>0, <1>2, <1>3, <1>9
  <2>2. subs[i].file <=> FileIs(conn, i)
    BY <1>0, <2>1 DEF KindOK
  <2>3. FileIs(conn', i) <=> FileIs(conn, i)
    BY <1>2, <1>9, <2>1 DEF Kept
  <2>4. QED  BY <1>1, <2>1, <2>2, <2>3 DEF SubsStay
<1>10. KindOK'
  BY <1>9 DEF KindOK
<1>11. QED
  BY <1>8, <1>10

\* And a short write.
LEMMA OrderBlocks ==
    ASSUME SlotInv, SlotInv', LedgerInv, OrderInv,
           NEW j, NEW k, NEW left, Blocks(j, k, left)
    PROVE  WireOrder' /\ KindOK'
<1>0. Shaped(conn) /\ DOMAIN subs = 1..Len(subs) /\ KindOK /\ WireOrder
  BY SlotFacts DEF OrderInv
<1>1. SubsStay
  BY SubsKept
<1>2. /\ k \in Nat /\ left \in Nat /\ Wired(j, k) /\ Kept(conn, conn') /\ Turn(conn) = j
      /\ \A i, m : Owes(conn', i, m) => (i # j /\ Owes(conn, i, m)) \/ i = j
      /\ Owes(conn, j, left) /\ Sends(j)
  BY DEF Blocks, Sends
<1>3. \A i, m : Owes(conn, i, m) => i \in Nat /\ m \in Nat /\ i \in DOMAIN subs
  BY <1>0, OwedIsCarried DEF LedgerInv
<1>4. \A p \in DOMAIN wire : wire[p] \in DOMAIN subs
  BY DEF LedgerInv
<1>4a. /\ j \in Nat /\ j \in DOMAIN subs
       /\ \A p \in DOMAIN wire :
             /\ AheadNext(wire[p], j)
             /\ wire[p] = j => \A q \in DOMAIN wire : p < q => wire[q] = j
  <2>1. j \in Nat /\ left \in Nat /\ j \in DOMAIN subs
    BY <1>2, <1>3
  <2>2. \A p \in DOMAIN wire :
           /\ Ahead(wire[p], j)
           /\ wire[p] = j => \A q \in DOMAIN wire : p < q => wire[q] = j
    BY <1>0, <1>2, <2>1 DEF WireOrder
  <2>3. QED
    BY <1>1, <1>4, <2>1, <2>2, AheadStays
<1>5. /\ \A p, q \in DOMAIN wire' : p < q => AheadNext(wire'[p], wire'[q])
      /\ \A p, q, r \in DOMAIN wire' :
            p < q /\ q < r /\ wire'[p] = wire'[r] => wire'[q] = wire'[p]
      /\ \A p \in DOMAIN wire' : \/ p \in DOMAIN wire /\ wire'[p] = wire[p]
                                 \/ k > 0 /\ p > Len(wire) /\ wire'[p] = j
      /\ \A p \in DOMAIN wire, q \in DOMAIN wire' : q < p => q \in DOMAIN wire
  BY <1>0, <1>1, <1>2, <1>4a, WireGrows
<1>7. ASSUME NEW i \in Nat, NEW m \in Nat, Owes(conn', i, m), NEW p \in DOMAIN wire'
      PROVE  /\ AheadNext(wire'[p], i)
             /\ wire'[p] = i => /\ Turn(conn') = i
                               /\ \A q \in DOMAIN wire' : p < q => wire'[q] = i
  <2>1. CASE i # j /\ Owes(conn, i, m)
    <3>1. CASE p \in DOMAIN wire /\ wire'[p] = wire[p]
      <4>1. Ahead(wire[p], i) /\ wire[p] # i /\ i \in DOMAIN subs
        BY <1>0, <1>2, <1>3, <2>1, <3>1 DEF WireOrder
      <4>2. QED  BY <1>1, <1>4, <3>1, <4>1, AheadStays
    <3>2. CASE wire'[p] = j
      BY <1>1, <1>2, <2>1, <3>2, LeadIsAhead
    <3>3. QED  BY <1>5, <3>1, <3>2
  <2>2. CASE i = j
    <3>1. AheadNext(wire'[p], j)
      <4>1. AheadNext(j, j)
        BY <1>4a DEF AheadNext
      <4>2. QED  BY <1>4a, <1>5, <4>1
    <3>2. Turn(conn') = j
      BY <1>2, <1>7, <2>2 DEF Kept
    <3>3. ASSUME wire'[p] = j, NEW q \in DOMAIN wire', p < q PROVE wire'[q] = j
      BY <1>4a, <1>5, <3>3
    <3>4. QED  BY <2>2, <3>1, <3>2, <3>3
  <2>3. QED  BY <1>2, <1>7, <2>1, <2>2
<1>8. WireOrder'
  BY <1>5, <1>7, WireOrderNext
<1>9. ASSUME NEW i \in Nat, NEW m \in Nat, Owes(conn', i, m)
      PROVE  subs'[i].file <=> FileIs(conn', i)
  <2>1. PICK l \in Nat : Owes(conn, i, l)
    BY <1>2, <1>9
  <2>2. i \in 1..Len(subs) /\ (subs[i].file <=> FileIs(conn, i))
    BY <1>0, <1>3, <2>1 DEF KindOK
  <2>3. FileIs(conn', i) <=> FileIs(conn, i)
    BY <1>2, <1>9, <2>1 DEF Kept
  <2>4. QED  BY <1>1, <2>2, <2>3 DEF SubsStay
<1>10. KindOK'
  BY <1>9 DEF KindOK
<1>11. QED
  BY <1>8, <1>10

\* Every step keeps the order.
LEMMA OrderKept ==
    ASSUME SlotInv, LedgerInv, OrderInv, [Next]_vars
    PROVE  OrderInv'
<1>1. CASE UNCHANGED vars
  BY <1>1 DEF vars, OrderInv, WireOrder, KindOK, LineInv, FirstFile, Ahead, MayPass, FileBefore
<1>2. CASE Next
  <2>0. SlotInv' /\ FileOrder(conn)
    BY <1>2, StepKinds DEF OrderInv
  <2>b. PICK b \in Nat : LineInv(b)
    BY DEF OrderInv
  <2>1. CASE Aside
    <3>1. /\ conn'.w = conn.w /\ conn'.w_q = conn.w_q /\ conn'.w_file = conn.w_file
          /\ wire' = wire /\ subs' = subs /\ life' = life
          /\ disp.at = "ecb" => disp'.at = "ecb" /\ (sock = "broken" => sock' = "broken")
      BY <2>1 DEF Aside
    <3>2. /\ \A i, m : Owes(conn', i, m) <=> Owes(conn, i, m)
          /\ FileOrder(conn') /\ Marked(conn', b) /\ (Parted(conn, b) => Parted(conn', b))
      BY <2>0, <2>b, <3>1, OtherFields DEF LineInv
    <3>3. Turn(conn') = Turn(conn) /\ \A i : FileIs(conn', i) <=> FileIs(conn, i)
      BY <3>1 DEF Turn, FileIs
    <3>4. KindOK'
      BY <3>1, <3>2, <3>3 DEF OrderInv, KindOK
    <3>5. WireOrder'
      BY <3>1, <3>2, <3>3 DEF OrderInv, WireOrder, Ahead, MayPass, FileBefore
    <3>6. LineInv(b)'
      BY <2>b, <3>1, <3>2 DEF LineInv, FirstFile
    <3>7. QED
      BY <3>2, <3>4, <3>5, <3>6 DEF OrderInv
  <2>2. CASE Joined
    <3>1. PICK k, len, status : Submits(k, len, status, FALSE)
      BY <2>2 DEF Joined
    <3>2. WireOrder' /\ KindOK'
      BY <2>0, <3>1, OrderSubmits
    <3>3. disp' = disp /\ sock' = sock /\ FirstFile(b)'
      BY <2>0, <2>b, <3>1, SubsKept, AheadStays DEF Submits, LineInv
    <3>4. LineInv(b)'
      BY <2>2, <2>b, <3>3 DEF LineInv, Joined
    <3>5. QED
      BY <2>0, <2>2, <3>2, <3>4 DEF OrderInv, Joined
  <2>3. CASE JoinedFile
    <3>1. PICK k, len, status :
             /\ Submits(k, len, status, TRUE)
             /\ \E e : /\ e = b \/ (e = Len(subs) + 1 /\ status = "pending")
                      /\ Marked(conn', e) /\ (Parted(conn, b) => Parted(conn', e))
      BY <2>3, <2>b DEF JoinedFile, LineInv
    <3>2. PICK e : /\ e = b \/ (e = Len(subs) + 1 /\ status = "pending")
                   /\ Marked(conn', e) /\ (Parted(conn, b) => Parted(conn', e))
      BY <3>1
    <3>3. WireOrder' /\ KindOK'
      BY <2>0, <3>1, OrderSubmits
    <3>4. disp' = disp /\ sock' = sock /\ FirstFile(b)'
      BY <2>0, <2>b, <3>1, SubsKept, AheadStays DEF Submits, LineInv
    <3>5. e \in Nat /\ FirstFile(e)'
      <4>1. CASE e = b
        BY <3>4, <4>1
      <4>2. CASE e = Len(subs) + 1 /\ status = "pending"
        <5>1. /\ SubsOK' /\ Len(subs') = e /\ e \in Nat /\ Len(subs) \in Nat
              /\ subs'[e].file /\ subs'[e].status = "pending" /\ subs'[e].life = life'
          BY <2>0, <3>1, <4>2, SlotFacts DEF Submits, SlotInv
        <5>2. e \in DOMAIN subs'
          BY <4>2, <5>1 DEF SubsOK
        <5>3. QED  BY <5>1, <5>2 DEF FirstFile
      <4>3. QED  BY <3>2, <4>1, <4>2
    <3>6. LineInv(e)'
      BY <2>b, <3>2, <3>4, <3>5 DEF LineInv
    <3>7. QED
      BY <2>0, <2>3, <3>3, <3>5, <3>6 DEF OrderInv, JoinedFile
  <2>4. CASE Closes
    <3>1. conn' = Cleared /\ wire' = <<>>
      BY <2>4 DEF Closes
    <3>2. /\ FileOrder(conn') /\ \A e : Marked(conn', e) /\ Parted(conn', e)
          /\ \A i, m : ~Owes(conn', i, m)
      BY <3>1, ClearedOK
    <3>3. DOMAIN wire' = {}
      BY <3>1
    <3>4. MaxSub + 1 \in Nat /\ LineInv(MaxSub + 1)'
      BY <3>2, BoundAssumption DEF LineInv, FirstFile
    <3>5. QED
      BY <3>2, <3>3, <3>4 DEF OrderInv, WireOrder, KindOK
  <2>5. CASE LineKept /\ \E ids, j, k, status : Ends(ids, j, k, status)
    <3>1. WireOrder' /\ KindOK'
      BY <2>0, <2>5, OrderEnds
    <3>2. FirstFile(b)'
      BY <2>0, <2>5, <2>b, SubsKept, AheadStays DEF LineInv
    <3>3. QED
      BY <2>0, <2>5, <2>b, <3>1, <3>2 DEF OrderInv, LineInv, LineKept
  <2>6. CASE LineKept /\ \E j, k, left : Blocks(j, k, left)
    <3>1. WireOrder' /\ KindOK'
      BY <2>0, <2>6, OrderBlocks
    <3>2. FirstFile(b)'
      BY <2>0, <2>6, <2>b, SubsKept, AheadStays DEF LineInv
    <3>3. QED
      BY <2>0, <2>6, <2>b, <3>1, <3>2 DEF OrderInv, LineInv, LineKept
  <2>7. QED
    BY <1>2, <2>1, <2>2, <2>3, <2>4, <2>5, <2>6, StepKinds
<1>3. QED
  BY <1>1, <1>2

\* What the peer sees of a connection's submissions is each in one piece and in
\* the order in which they were made, also against those still owed, but for
\* this: a file body may pass a send that was made after an earlier file body.
\* So it is for every number of submissions and file bodies, every length, empty
\* ones too, and whatever fails, blocks or is cancelled.  A send that follows a
\* file body carries after_file and waits until there is none; one bit cannot
\* say which body it waits for (aio_wq_promote).
THEOREM SubmissionsInOrder == Spec => []SentInTurn
<1>1. Init => OrderInv
  <2> SUFFICES ASSUME Init PROVE OrderInv
    OBVIOUS
  <2>1. conn = Cleared /\ DOMAIN wire = {}
    BY DEF Init
  <2>2. /\ FileOrder(conn) /\ \A e : Marked(conn, e) /\ Parted(conn, e)
        /\ \A i, m : ~Owes(conn, i, m)
    BY <2>1, ClearedOK
  <2>3. MaxSub + 1 \in Nat /\ LineInv(MaxSub + 1)
    BY <2>2, BoundAssumption DEF LineInv, FirstFile
  <2>4. QED
    BY <2>1, <2>2, <2>3 DEF OrderInv, WireOrder, KindOK
<1>2. SlotInv /\ LedgerInv /\ OrderInv /\ [Next]_vars => LedgerInv' /\ OrderInv'
  BY LedgerKept, OrderKept
<1>3. SlotInv /\ LedgerInv /\ OrderInv => SentInTurn
  <2> SUFFICES ASSUME SlotInv, LedgerInv, OrderInv PROVE SentInTurn
    OBVIOUS
  <2>1. ASSUME NEW p \in DOMAIN wire, NEW i \in DOMAIN subs, subs[i].status = "pending",
               subs[i].len > 0
        PROVE  Ahead(wire[p], i)
    <3>1. i \in Nat
      BY SlotFacts
    <3>2. PICK m \in Nat : Owes(conn, i, m)
      BY <2>1, <3>1 DEF LedgerInv
    <3>3. QED  BY <3>1, <3>2 DEF OrderInv, WireOrder
  <2>2. QED
    BY <2>1 DEF SentInTurn, OrderInv, WireOrder
<1>4. QED
  BY <1>1, <1>2, <1>3, LedgerInit, SlotAlways, PTL DEF Spec

=============================================================================
