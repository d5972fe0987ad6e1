----------------------------- MODULE TimerHeap ------------------------------
(***************************************************************************)
(* The timers of core/dyn-timer.c: a binary heap ordered by deadline and   *)
(* then by age, and a table of slots that gives every armed timer an id of *)
(* a slot index and a generation.  A slot remembers where its timer is in  *)
(* the heap, so that cancelling needs no search; freed slots form a list   *)
(* and are used again with the next generation.                            *)
(*                                                                         *)
(* Positions and slot indices start at 1, and 0 is NO_POS.  The storage    *)
(* behind h and slots grows by doubling, which changes neither.            *)
(***************************************************************************)
EXTENDS Integers, Sequences, FiniteSets

CONSTANTS
    Delay,     \* the delays callers ask for
    MaxSlots,  \* DYN_TIMER_MAX_SLOTS
    GenMod,    \* 2^32, the range of a generation
    TimeMax,   \* UINT64_MAX
    MaxClock,  \* bound: the clock stops here
    MaxTimers, \* bound: timers created before the clock moves
    MaxLate    \* bound: timers ever created if the clock moves

ASSUME DelayAssumption == Delay \subseteq Nat
ASSUME BoundAssumption ==
    /\ {MaxSlots, GenMod, TimeMax, MaxTimers, MaxLate} \subseteq Nat \ {0}
    /\ MaxClock \in 0..TimeMax

NO_POS == 0
NotRunning == -1

VARIABLES
    h,          \* t->h[0 .. n-1]
    slots,      \* t->slots[0 .. nslots-1]
    free_head,  \* t->free_head
    seq,        \* t->seq
    clock,      \* dyn_timer_now_ms
    run_now,    \* dyn_timer_run's argument while one of its callbacks runs
    ids,        \* history: the id returned for each timer, by number
    fired,      \* history: the timers whose callback was called
    cancelled   \* history: the timers whose cancellation was confirmed

heapVars == <<h, slots, free_head, seq>>
vars == <<heapVars, clock, run_now, ids, fired, cancelled>>

Id == [idx : 1..MaxSlots, gen : 0..(GenMod - 1)]
Node == [deadline : 0..TimeMax, seq : Nat, id : Id]
Slot == [pos : Nat, gen : 0..(GenMod - 1), next_free : 0..MaxSlots]

TypeOK ==
    /\ h \in Seq(Node)
    /\ slots \in Seq(Slot)
    /\ Len(h) <= Len(slots)
    /\ Len(slots) <= MaxSlots
    /\ free_head \in 0..Len(slots)
    /\ seq = Len(ids)
    /\ clock \in 0..TimeMax
    /\ run_now \in -1..TimeMax
    /\ ids \in Seq(Id)
    /\ fired \subseteq 0..(seq - 1)
    /\ cancelled \subseteq 0..(seq - 1)

-----------------------------------------------------------------------------
(* The heap *)

node_less(a, b) ==
    \/ a.deadline < b.deadline
    \/ a.deadline = b.deadline /\ a.seq < b.seq

\* place, for every position of the set path: the heap t with the positions
\* written back to the slots of the timers now there.
Place(t, path) ==
    [heap |-> t.heap,
     slots |-> [s \in DOMAIN t.slots |->
        LET here == {i \in path : t.heap[i].id.idx = s}
        IN  IF here = {} THEN t.slots[s]
            ELSE [t.slots[s] EXCEPT !.pos = CHOOSE i \in here : TRUE]]]

\* The positions that a loop visits from a on, going from a to nx[a] until it
\* stays.
Trails(nx) ==
    LET trail[a \in DOMAIN nx] == IF nx[a] = a THEN {a} ELSE {a} \cup trail[nx[a]]
    IN  trail

\* Both loops move the timer at i along a trail: each timer on it moves one
\* step back, and the one from i takes the place where the loop stays.
Sift(t, nx, i) ==
    LET path == Trails(nx)[i]
    IN  Place([t EXCEPT !.heap = [a \in DOMAIN t.heap |->
                 IF a \notin path THEN t.heap[a]
                 ELSE IF nx[a] = a THEN t.heap[i] ELSE t.heap[nx[a]]]],
              path)

\* sift_up goes to the parent while the parent comes after the timer.
Rises(g, v) == [a \in DOMAIN g |-> IF a > 1 /\ node_less(v, g[a \div 2]) THEN a \div 2 ELSE a]
sift_up(t, i) == Sift(t, Rises(t.heap, t.heap[i]), i)

\* The child that takes the place of the timer v sinking at i, or i itself.
MinChild(g, i, v) ==
    LET l == 2 * i
        r == 2 * i + 1
        m == IF l <= Len(g) /\ node_less(g[l], v) THEN l ELSE i
    IN  IF r <= Len(g) /\ node_less(g[r], IF m = i THEN v ELSE g[l]) THEN r ELSE m

Sinks(g, v) == [a \in DOMAIN g |-> MinChild(g, a, v)]
sift_down(t, i) == Sift(t, Sinks(t.heap, t.heap[i]), i)

\* slot_release
Released(s) ==
    [slots EXCEPT ![s] = [pos |-> NO_POS, gen |-> (@.gen + 1) % GenMod, next_free |-> free_head]]

\* Mutant: the timer moved into the gap sinks but never rises.
RemovedNoRise(i) ==
    LET n == Len(h) - 1
        rel == Released(h[i].id.idx)
        gap == [heap |-> [SubSeq(h, 1, n) EXCEPT ![i] = h[n + 1]], slots |-> rel]
    IN  IF i = n + 1
        THEN [heap |-> SubSeq(h, 1, n), slots |-> rel]
        ELSE sift_down(Place(gap, {i}), i)

\* heap_remove_at, but for the free list's head.
Removed(i) ==
    LET n == Len(h) - 1
        rel == Released(h[i].id.idx)
        gap == [heap |-> [SubSeq(h, 1, n) EXCEPT ![i] = h[n + 1]], slots |-> rel]
        down == sift_down(Place(gap, {i}), i)
    IN  IF i = n + 1
        THEN [heap |-> SubSeq(h, 1, n), slots |-> rel]
        ELSE IF down.slots[down.heap[i].id.idx].pos = i THEN sift_up(down, i) ELSE down

heap_remove_at(i) ==
    LET t == Removed(i) IN
    /\ h' = t.heap
    /\ slots' = t.slots
    /\ free_head' = h[i].id.idx

-----------------------------------------------------------------------------
(* The operations *)

Deadline(delay) == IF clock + delay > TimeMax THEN TimeMax ELSE clock + delay

SlotAvailable == free_head # NO_POS \/ Len(slots) < MaxSlots

\* slot_alloc and the rest of dyn_timer_add.  A full table, like a failed
\* allocation, returns DYN_TIMER_NONE and leaves the timers as they were.
dyn_timer_add(delay) ==
    /\ seq < IF clock = 0 THEN MaxTimers ELSE MaxLate
    /\ SlotAvailable
    /\ LET fresh == free_head = NO_POS
           idx == IF fresh THEN Len(slots) + 1 ELSE free_head
           tbl == IF fresh THEN Append(slots, [pos |-> NO_POS, gen |-> 0, next_free |-> NO_POS])
                  ELSE slots
           v == [deadline |-> Deadline(delay), seq |-> seq,
                 id |-> [idx |-> idx, gen |-> tbl[idx].gen]]
           n == Len(h) + 1
           t == sift_up(Place([heap |-> Append(h, v), slots |-> tbl], {n}), n)
       IN  /\ h' = t.heap
           /\ slots' = t.slots
           /\ free_head' = tbl[idx].next_free
           /\ ids' = Append(ids, v.id)
    /\ seq' = seq + 1
    /\ UNCHANGED <<clock, run_now, fired, cancelled>>

\* Mutant: a slot in use is taken to be the one the id was made for.
ValidAnyGen(id) == id.idx <= Len(slots) /\ slots[id.idx].pos # NO_POS

\* The checks of dyn_timer_cancel.
Valid(id) ==
    /\ id.idx <= Len(slots)
    /\ slots[id.idx].pos # NO_POS
    /\ slots[id.idx].gen = id.gen

\* dyn_timer_cancel with the id of the k-th timer, which its caller may have
\* kept long after the timer was gone; an id refused changes nothing.
dyn_timer_cancel(k) ==
    /\ Valid(ids[k])
    /\ heap_remove_at(slots[ids[k].idx].pos)
    /\ cancelled' = cancelled \cup {k - 1}
    /\ UNCHANGED <<seq, clock, run_now, ids, fired>>

\* dyn_timer_run up to a callback: the earliest timer leaves the heap first,
\* so its callback may add and cancel timers, its own stale id included.
Due(now) == h # <<>> /\ h[1].deadline <= now

Pop ==
    /\ heap_remove_at(1)
    /\ fired' = fired \cup {h[1].seq}
    /\ UNCHANGED <<seq, clock, ids, cancelled>>

RunBegin ==
    /\ run_now = NotRunning
    /\ Due(clock)
    /\ run_now' = clock
    /\ Pop

RunNext ==
    /\ run_now # NotRunning
    /\ Due(run_now)
    /\ UNCHANGED run_now
    /\ Pop

RunEnd ==
    /\ run_now # NotRunning
    /\ ~Due(run_now)
    /\ run_now' = NotRunning
    /\ UNCHANGED <<heapVars, clock, ids, fired, cancelled>>

Tick ==
    /\ clock < MaxClock /\ seq <= MaxLate
    /\ clock' = clock + 1
    /\ UNCHANGED <<heapVars, run_now, ids, fired, cancelled>>

\* dyn_timers_new
Init ==
    /\ h = <<>>
    /\ slots = <<>>
    /\ free_head = NO_POS
    /\ seq = 0
    /\ clock = 0
    /\ run_now = NotRunning
    /\ ids = <<>>
    /\ fired = {}
    /\ cancelled = {}

Next ==
    \/ \E d \in Delay : dyn_timer_add(d)
    \/ \E k \in DOMAIN ids : dyn_timer_cancel(k)
    \/ RunBegin \/ RunNext \/ RunEnd
    \/ Tick

Spec == Init /\ [][Next]_vars

-----------------------------------------------------------------------------
(* Properties *)

\* No timer comes before its parent, after any mixture of adds, removals from
\* the middle and pops: only then is h[0] the next timer to fire.
HeapOrdered == \A i \in 2..Len(h) : ~node_less(h[i], h[i \div 2])

\* The slot of every armed timer knows its position and carries its
\* generation, and the other slots are exactly the free list, without a
\* cycle: a wrong position would make a cancellation remove another timer.
FreeSlots == {s \in DOMAIN slots : slots[s].pos = NO_POS}
FreeWalk ==
    LET walk[k \in 0..Len(slots)] ==
          IF k = 0 THEN free_head
          ELSE IF walk[k - 1] = NO_POS THEN NO_POS ELSE slots[walk[k - 1]].next_free
    IN  walk
FreeList == {FreeWalk[k] : k \in DOMAIN FreeWalk}

SlotsCoherent ==
    /\ \A i \in DOMAIN h : slots[h[i].id.idx].pos = i /\ slots[h[i].id.idx].gen = h[i].id.gen
    /\ Cardinality(FreeSlots) = Len(slots) - Len(h)
    /\ FreeList = FreeSlots \cup {NO_POS}

\* The heap and the slots are both as they should be, and agree.
HeapSound == HeapOrdered /\ SlotsCoherent

armedBar == {[deadline |-> h[i].deadline, seq |-> h[i].seq] : i \in DOMAIN h}

Service == INSTANCE TimerService WITH armed <- armedBar

\* The heap, the slots and the generations implement TimerService: each timer
\* fires at most once, in order, never early, and a stale id never cancels
\* the timer that took over its slot.
ImplementsTimerService == Service!Spec
=============================================================================
