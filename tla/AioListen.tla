----------------------------- MODULE AioListen -----------------------------
(***************************************************************************)
(* Listening descriptors of the portable reactor, dyna-aio.c, and the one  *)
(* periodic timer of its readiness loop, which two parties share: the      *)
(* sweep that retries paused listeners, and the hook that idle sweeps and  *)
(* query deadlines set with dyn_aio_set_timer.  A listener whose accept    *)
(* runs out of descriptors or memory is paused, that is, not watched, and  *)
(* only the sweep takes it up again.                                       *)
(*                                                                         *)
(* User code runs between the steps of a sweep as well, in the callbacks   *)
(* of accepted connections.                                                *)
(***************************************************************************)
EXTENDS Integers

CONSTANTS
    NFd,          \* descriptors 1..NFd may listen
    MaxListen,    \* bound: n_listen
    TimerFails,   \* may the loop's timer be refused (timerfd_create)
    AddFails      \* may a registration be refused (epoll_ctl)

Fd == 1..NFd

VARIABLES
    listening,    \* fds[fd].r_op = AIO_OP_ACCEPT
    paused,       \* fds[fd].accept_paused
    watched,      \* the readiness loop has READ for fd
    n_listen, timer_armed, hook_timer,
    ticking,      \* the loop's periodic timer is set
    sweep         \* aio_listeners_sweep: the descriptor it has come to, 0 if none

vars == <<listening, paused, watched, n_listen, timer_armed, hook_timer, ticking, sweep>>

TypeOK ==
    /\ listening \in [Fd -> BOOLEAN]
    /\ paused \in [Fd -> BOOLEAN]
    /\ watched \in [Fd -> BOOLEAN]
    /\ n_listen \in 0..MaxListen
    /\ timer_armed \in BOOLEAN
    /\ hook_timer \in BOOLEAN
    /\ ticking \in BOOLEAN
    /\ sweep \in 0..NFd

Init ==
    /\ listening = [fd \in Fd |-> FALSE]
    /\ paused = [fd \in Fd |-> FALSE]
    /\ watched = [fd \in Fd |-> FALSE]
    /\ n_listen = 0 /\ timer_armed = FALSE /\ hook_timer = FALSE
    /\ ticking = FALSE /\ sweep = 0

-----------------------------------------------------------------------------
\* dyn_evloop_set_timer with a period; a timer that is set can be set again.
TimerResult == IF TimerFails /\ ~ticking THEN BOOLEAN ELSE {TRUE}

AddResult == IF AddFails THEN BOOLEAN ELSE {TRUE}

\* The first listener sets the timer, unless a listener has before.
Arms(ok) ==
    IF n_listen = 0 /\ ~timer_armed
    THEN /\ ticking' = (ticking \/ ok)
         /\ timer_armed' = ok
    ELSE UNCHANGED <<ticking, timer_armed>>

dyn_aio_accept(fd, ok, added) ==
    /\ ~listening[fd] /\ n_listen < MaxListen
    /\ Arms(ok)
    /\ IF added
       THEN /\ listening' = [listening EXCEPT ![fd] = TRUE]
            /\ watched' = [watched EXCEPT ![fd] = TRUE]
            /\ n_listen' = n_listen + 1
       ELSE UNCHANGED <<listening, watched, n_listen>>
    /\ UNCHANGED <<paused, hook_timer, sweep>>

\* Mutant: the last listener stops the timer for everybody.
DisarmsForAll ==
    IF n_listen <= 1 /\ timer_armed
    THEN /\ ticking' = FALSE
         /\ timer_armed' = FALSE
    ELSE UNCHANGED <<ticking, timer_armed>>

\* The last listener stops the timer, unless the hook needs it.
Disarms ==
    IF n_listen <= 1 /\ timer_armed
    THEN /\ ticking' = (ticking /\ hook_timer)
         /\ timer_armed' = FALSE
    ELSE UNCHANGED <<ticking, timer_armed>>

dyn_aio_close(fd) ==
    /\ listening[fd]
    /\ Disarms
    /\ n_listen' = n_listen - 1
    /\ listening' = [listening EXCEPT ![fd] = FALSE]
    /\ paused' = [paused EXCEPT ![fd] = FALSE]
    /\ watched' = [watched EXCEPT ![fd] = FALSE]
    /\ UNCHANGED <<hook_timer, sweep>>

\* Cancelling the accept leaves n_listen as it is, and accept_paused too.
dyn_aio_cancel(fd) ==
    /\ listening[fd]
    /\ listening' = [listening EXCEPT ![fd] = FALSE]
    /\ watched' = [watched EXCEPT ![fd] = FALSE]
    /\ UNCHANGED <<paused, n_listen, timer_armed, hook_timer, ticking, sweep>>

\* A cancelled listener is closed like any other descriptor.
CloseCancelled(fd) ==
    /\ ~listening[fd] /\ paused[fd]
    /\ paused' = [paused EXCEPT ![fd] = FALSE]
    /\ UNCHANGED <<listening, watched, n_listen, timer_armed, hook_timer, ticking, sweep>>

\* No caller in the repository stops the hook.
HookStops == ticking' = (ticking /\ n_listen > 0)

dyn_aio_set_timer(on, ok) ==
    /\ hook_timer' = on
    /\ IF on THEN ticking' = (ticking \/ ok) ELSE HookStops
    /\ UNCHANGED <<listening, paused, watched, n_listen, timer_armed, sweep>>

-----------------------------------------------------------------------------
\* aio_accept_drain ends with EMFILE and the like: the listener is paused.
Exhausted(fd) ==
    /\ paused' = [paused EXCEPT ![fd] = TRUE]
    /\ watched' = [watched EXCEPT ![fd] = FALSE]

\* aio_dispatch of a listener; its other endings change nothing here.
DispatchAccept(fd) ==
    /\ listening[fd] /\ watched[fd] /\ ~paused[fd]
    /\ Exhausted(fd)
    /\ UNCHANGED <<listening, n_listen, timer_armed, hook_timer, ticking, sweep>>

\* dyn_aio_drain and dyn_aio_run after a poll in which the timer fired.
SweepStarts ==
    /\ sweep = 0 /\ ticking /\ n_listen > 0
    /\ sweep' = 1
    /\ UNCHANGED <<listening, paused, watched, n_listen, timer_armed, hook_timer, ticking>>

SweepNext == sweep' = IF sweep < NFd THEN sweep + 1 ELSE 0

\* Mutant: the sweep drains a paused listener and leaves it paused.
SweepLeavesPaused ==
    /\ sweep # 0 /\ listening[sweep]
    /\ SweepNext
    /\ UNCHANGED <<listening, paused, watched, n_listen, timer_armed, hook_timer, ticking>>

\* A paused listener is watched again and drained: it may be paused at once.
SweepRetries ==
    /\ sweep # 0 /\ listening[sweep]
    /\ paused' = [paused EXCEPT ![sweep] = FALSE]
    /\ watched' = [watched EXCEPT ![sweep] = TRUE]
    /\ SweepNext
    /\ UNCHANGED <<listening, n_listen, timer_armed, hook_timer, ticking>>

SweepSkips ==
    /\ sweep # 0 /\ ~listening[sweep]
    /\ SweepNext
    /\ UNCHANGED <<listening, paused, watched, n_listen, timer_armed, hook_timer, ticking>>

-----------------------------------------------------------------------------
Sweep == SweepRetries \/ SweepSkips

Listeners ==
    \/ \E fd \in Fd, ok \in TimerResult, added \in AddResult : dyn_aio_accept(fd, ok, added)
    \/ \E fd \in Fd : dyn_aio_close(fd) \/ dyn_aio_cancel(fd) \/ CloseCancelled(fd)

-----------------------------------------------------------------------------
(* Properties *)

\* A listener that is not watched is paused and counted, and the timer that is
\* to take it up again, once set for listeners, runs: whatever listeners come
\* and go, and whatever hooks use the same timer.
PausedHasTimer ==
    /\ timer_armed => ticking
    /\ \A fd \in Fd : listening[fd] /\ ~watched[fd] => paused[fd] /\ n_listen > 0

\* A paused listener is tried again, or closed, as long as there is a tick.
PausedIsRetried ==
    \A fd \in Fd : paused[fd] /\ listening[fd] ~> ~paused[fd] \/ ~listening[fd] \/ ~ticking

=============================================================================
