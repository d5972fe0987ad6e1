------------------------------- MODULE EvLoop -------------------------------
(***************************************************************************)
(* The readiness loop of dyna-evloop.c over epoll: a table of              *)
(* registrations indexed by descriptor, and dyn_evloop_poll, which         *)
(* harvests a batch of events and dispatches them one by one.  A callback  *)
(* may add, change and delete registrations, and close and open            *)
(* descriptors, so an event still in the batch may speak of a file that is *)
(* gone and whose number another file has taken over.  The generation that *)
(* the kernel hands back with each event tells them apart.                 *)
(*                                                                         *)
(* A callback and its udata are known by the file they were registered     *)
(* for.  Generations do not wrap here: 2^32 changes of one registration do *)
(* not fit between a harvest and the end of its batch.                     *)
(***************************************************************************)
EXTENDS Integers, Sequences, FiniteSets

CONSTANTS
    Fd,       \* descriptor numbers
    MaxOpen,  \* bound: files ever opened
    MaxGen,   \* bound: the highest generation
    NULL

ASSUME FdAssumption == IsFiniteSet(Fd) /\ NULL \notin Fd
ASSUME BoundAssumption == MaxOpen \in Nat /\ MaxGen \in Nat

READ == "read"
WRITE == "write"
Interest == SUBSET {READ, WRITE}
File == 1..MaxOpen
NoFile == 0
TimerFile == -1

VARIABLES
    regs,         \* lp->regs[fd]
    nreg,         \* lp->nreg
    timer_fd,     \* lp->timer_fd
    timer_fired,  \* lp->timer_fired
    batch,        \* evs[i .. n-1] of the poll under way
    running,      \* the callback that runs, and the event it is given
    file,         \* which open file a descriptor number stands for
    opened,       \* files opened so far
    ready,        \* what an open file is ready for
    kern          \* epoll's own table: the mask and the data given for an fd

loopVars == <<regs, nreg, timer_fd, timer_fired, batch, running>>
worldVars == <<file, opened, ready, kern>>
vars == <<loopVars, worldVars>>

Reg == [cb : 0..MaxOpen, interest : Interest, gen : Nat]
Event == [fd : Fd, tag : Nat, file : -1..MaxOpen]

TypeOK ==
    /\ regs \in [Fd -> Reg]
    /\ nreg \in Nat
    /\ timer_fd \in Fd \cup {NULL}
    /\ timer_fired \in BOOLEAN
    /\ batch \in Seq(Event)
    /\ running \in [event : Event, owner : 0..MaxOpen] \cup {NULL}
    /\ file \in [Fd -> 0..MaxOpen]
    /\ opened \in 0..MaxOpen
    /\ ready \in [Fd -> Interest]
    /\ kern \in [Fd -> [tag : Nat, mask : Interest] \cup {NULL}]

\* Code other than the loop's runs inside a callback, and between two polls.
OutsideLoop == running # NULL \/ batch = <<>>

-----------------------------------------------------------------------------
(* The kernel and the owners of descriptors: external *)

Open(fd) ==
    /\ OutsideLoop
    /\ file[fd] = NoFile /\ timer_fd # fd
    /\ opened < MaxOpen
    /\ opened' = opened + 1
    /\ file' = [file EXCEPT ![fd] = opened + 1]
    /\ UNCHANGED <<loopVars, ready, kern>>

\* Whoever closes a descriptor deletes its registration first.
Close(fd) ==
    /\ OutsideLoop
    /\ file[fd] # NoFile
    /\ regs[fd].interest = {}
    /\ file' = [file EXCEPT ![fd] = NoFile]
    /\ ready' = [ready EXCEPT ![fd] = {}]
    /\ kern' = [kern EXCEPT ![fd] = NULL]
    /\ UNCHANGED <<loopVars, opened>>

\* A file becomes ready, or stops being so because somebody reads or writes.
Readiness(fd, r) ==
    /\ file[fd] # NoFile
    /\ ready[fd] # r
    /\ ready' = [ready EXCEPT ![fd] = r]
    /\ UNCHANGED <<loopVars, file, opened, kern>>

-----------------------------------------------------------------------------
(* Registrations *)

Toggles(old, neu) == (old = {}) # (neu = {})
Bump(gen, old, neu) == IF Toggles(old, neu) THEN gen + 1 ELSE gen

\* epoll_ctl as backend_apply calls it: the new mask, with the generation.
Applied(fd, neu, gen) ==
    kern' = [kern EXCEPT ![fd] = IF neu = {} THEN NULL ELSE [tag |-> gen, mask |-> neu]]

Counted(old, neu) ==
    nreg' = CASE old = {} /\ neu # {} -> nreg + 1
              [] old # {} /\ neu = {} -> nreg - 1
              [] OTHER -> nreg

\* Mutant: the failed call leaves another generation than the kernel's.
RefusedBumps(fd, r, neu) ==
    /\ regs' = [regs EXCEPT ![fd] = [r EXCEPT !.gen = @ + 1]]
    /\ UNCHANGED <<nreg, kern>>

\* What is left when epoll_ctl fails: the old interest, a generation advanced
\* twice if the call was to make or to end the registration, the new owner.
Refused(fd, r, neu) ==
    /\ regs' = [regs EXCEPT ![fd] =
                  [r EXCEPT !.gen = Bump(Bump(@, r.interest, neu), r.interest, neu)]]
    /\ UNCHANGED <<nreg, kern>>

Accepted(fd, r, neu) ==
    LET gen == Bump(r.gen, r.interest, neu) IN
    /\ regs' = [regs EXCEPT ![fd] = [r EXCEPT !.interest = neu, !.gen = gen]]
    /\ Applied(fd, neu, gen)
    /\ Counted(r.interest, neu)

\* epoll_ctl may fail to add or to change an entry (memory, the watch limit,
\* a file that cannot be polled); deleting an entry of an open file works.
Change(fd, r, neu) ==
    /\ r.gen + 2 <= MaxGen
    /\ \/ Accepted(fd, r, neu)
       \/ neu # {} /\ Refused(fd, r, neu)
    /\ UNCHANGED <<timer_fd, timer_fired, batch, running, file, opened, ready>>

dyn_evloop_add(fd, neu) ==
    /\ OutsideLoop
    /\ file[fd] # NoFile
    /\ Change(fd, [regs[fd] EXCEPT !.cb = file[fd]], neu)

\* Only its owner changes a registration that exists or was made with mask 0.
dyn_evloop_mod(fd, neu) ==
    /\ OutsideLoop
    /\ file[fd] # NoFile /\ regs[fd].cb = file[fd]
    /\ neu # {}
    /\ Change(fd, regs[fd], neu)

\* dyn_evloop_del, and dyn_evloop_mod with mask 0.
dyn_evloop_del(fd) ==
    /\ OutsideLoop
    /\ file[fd] # NoFile
    /\ regs[fd].interest # {}
    /\ Change(fd, regs[fd], {})

\* dyn_evloop_set_timer: the timerfd takes and gives back a number.
set_timer_on(fd) ==
    /\ OutsideLoop
    /\ timer_fd = NULL
    /\ file[fd] = NoFile
    /\ timer_fd' = fd
    /\ UNCHANGED <<regs, nreg, timer_fired, batch, running, worldVars>>

set_timer_off ==
    /\ OutsideLoop
    /\ timer_fd # NULL
    /\ timer_fd' = NULL
    /\ UNCHANGED <<regs, nreg, timer_fired, batch, running, worldVars>>

-----------------------------------------------------------------------------
(* dyn_evloop_poll *)

\* The events epoll_wait may report: the registered files that are ready for
\* something they are watched for, and the timer, whose entry carries an
\* uninitialized upper half where the others have a generation.
FileEvents ==
    {[fd |-> fd, tag |-> kern[fd].tag, file |-> file[fd]] :
        fd \in {f \in Fd : kern[f] # NULL /\ ready[f] \cap kern[f].mask # {}}}
TimerEvents ==
    {[fd |-> fd, tag |-> t, file |-> TimerFile] : fd \in {timer_fd} \ {NULL}, t \in 0..MaxGen}

Orders(S) == {s \in [1..Cardinality(S) -> S] : \A i, j \in DOMAIN s : s[i] = s[j] => i = j}

Poll(timer) ==
    /\ running = NULL /\ batch = <<>>
    /\ FileEvents \cup timer # {}
    /\ batch' \in Orders(FileEvents \cup timer)
    /\ timer_fired' = FALSE
    /\ UNCHANGED <<regs, nreg, timer_fd, running, worldVars>>

\* Mutant: events are matched by descriptor alone.
IsForFd(e) == regs[e.fd].interest # {}

\* The test before r->cb(...): a live registration, of the event's time.
IsFor(e) ==
    /\ regs[e.fd].interest # {}
    /\ regs[e.fd].cb # NoFile
    /\ regs[e.fd].gen = e.tag

DispatchTimer ==
    /\ running = NULL /\ batch # <<>>
    /\ Head(batch).fd = timer_fd
    /\ timer_fired' = TRUE
    /\ batch' = Tail(batch)
    /\ UNCHANGED <<regs, nreg, timer_fd, running, worldVars>>

Dispatch ==
    /\ running = NULL /\ batch # <<>>
    /\ Head(batch).fd # timer_fd
    /\ running' = IF IsFor(Head(batch))
                  THEN [event |-> Head(batch), owner |-> regs[Head(batch).fd].cb]
                  ELSE NULL
    /\ batch' = Tail(batch)
    /\ UNCHANGED <<regs, nreg, timer_fd, timer_fired, worldVars>>

CallbackReturns ==
    /\ running # NULL
    /\ running' = NULL
    /\ UNCHANGED <<regs, nreg, timer_fd, timer_fired, batch, worldVars>>

-----------------------------------------------------------------------------
Init ==
    /\ regs = [fd \in Fd |-> [cb |-> NoFile, interest |-> {}, gen |-> 0]]
    /\ nreg = 0
    /\ timer_fd = NULL
    /\ timer_fired = FALSE
    /\ batch = <<>>
    /\ running = NULL
    /\ file = [fd \in Fd |-> NoFile]
    /\ opened = 0
    /\ ready = [fd \in Fd |-> {}]
    /\ kern = [fd \in Fd |-> NULL]

UserStep ==
    \/ \E fd \in Fd : Open(fd) \/ Close(fd) \/ dyn_evloop_del(fd) \/ set_timer_on(fd)
    \/ \E fd \in Fd, m \in Interest :
         dyn_evloop_add(fd, m) \/ dyn_evloop_mod(fd, m) \/ Readiness(fd, m)
    \/ set_timer_off

PollStep == Poll({}) \/ \E e \in TimerEvents : Poll({e})
LoopStep == DispatchTimer \/ Dispatch \/ CallbackReturns

Next == UserStep \/ PollStep \/ LoopStep

Spec == Init /\ [][Next]_vars

-----------------------------------------------------------------------------
(* Properties *)

\* The kernel's table is the loop's: what is registered is watched with the
\* mask and the generation of its slot, also after a refused call.  A
\* registration whose generation is not the kernel's never hears of an event.
KernelAgrees ==
    \A fd \in Fd :
        kern[fd] = IF regs[fd].interest = {} THEN NULL
                   ELSE [tag |-> regs[fd].gen, mask |-> regs[fd].interest]

\* nreg counts the live registrations, through refused calls, masks of zero
\* and repeated deletions.
CountExact == nreg = Cardinality({fd \in Fd : regs[fd].interest # {}})

\* An event reaches only the owner it was harvested for, also when callbacks
\* earlier in the batch closed the file and gave its number to another.  The
\* timer's event is the exception: its tag is indeterminate, so once the
\* timerfd is closed it can pass for an event of the file that took its number.
NoStaleDelivery ==
    running # NULL /\ running.event.file # TimerFile
        => running.owner = running.event.file

\* Being level-triggered, the loop loses nothing by dropping a stale event:
\* a registered file that stays ready has its callback run.
Wanting(fd) == ready[fd] \cap regs[fd].interest # {}
Serves(fd) == running # NULL /\ running.event.fd = fd
ReadyIsServed == \A fd \in Fd : Wanting(fd) ~> (Serves(fd) \/ ~Wanting(fd))

\* What makes NoStaleDelivery inductive: a live registration belongs to the
\* file open now, and an event in the batch is as old as its registration or
\* older; one as old was harvested for the registration's owner.
OwnersAgree ==
    \A fd \in Fd :
        regs[fd].interest # {} => file[fd] # NoFile /\ regs[fd].cb = file[fd]

BatchAges ==
    \A i \in DOMAIN batch :
        LET e == batch[i]
            r == regs[e.fd] IN
        e.file # TimerFile =>
            /\ e.tag <= r.gen
            /\ r.interest # {} /\ e.tag = r.gen => e.file = r.cb

\* The inductive invariant behind EvLoopProofs.
EvInv == TypeOK /\ KernelAgrees /\ CountExact /\ OwnersAgree /\ BatchAges /\ NoStaleDelivery

\* The loop is polled for ever and callbacks return.
FairSpec == Spec /\ WF_vars(PollStep) /\ WF_vars(LoopStep)
=============================================================================
