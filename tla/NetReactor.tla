----------------------------- MODULE NetReactor -----------------------------
(***************************************************************************)
(* The reactor that the network classes of one thread share, dyna-net.c:   *)
(* it is created by the first that acquires it, freed after the last       *)
(* release, kept by weak holds, never freed inside a drain, and it runs    *)
(* the drain hooks that deadlines and idle sweeps are made of.  Below it   *)
(* are the listeners and the timer of module AioListen.                    *)
(*                                                                         *)
(* Hooks belong to users of the reactor, which hold a reference while they *)
(* are hooked, and to the pool of idle HTTP connections, which may hold it *)
(* weakly only; a disposed UDP socket leaves a hook of no user behind that *)
(* needs no tick (dyn_net_on_drain_notick).  User code runs in callbacks   *)
(* and hooks as well as outside, and may drain again from there.  A hook   *)
(* that releases its reference and then leaves (dyn_http_async_reap) does  *)
(* both inside one drain, so the order makes no difference and the model   *)
(* has the hook leave first.                                               *)
(***************************************************************************)
EXTENDS Integers, Sequences, FiniteSets

CONSTANTS
    User,       \* objects that acquire the reactor: clients, servers, resolvers
    POOL,       \* the hook of the HTTP client: idle connections, jobs, handshakes
    GRAVE,      \* the hook that buries disposed UDP sockets
    MaxDepth,   \* bound: drains inside drains
    Notick,     \* are UDP sockets disposed in their own callbacks
    NFd, MaxListen, TimerFails, AddFails   \* of AioListen

ASSUME NetAssumption ==
    /\ IsFiniteSet(User) /\ POOL \notin User /\ GRAVE \notin User \cup {POOL}
    /\ MaxDepth \in Nat /\ Notick \in BOOLEAN
    /\ NFd \in Nat \ {0} /\ MaxListen \in Nat
    /\ TimerFails \in BOOLEAN /\ AddFails \in BOOLEAN

VARIABLES
    listening, paused, watched, n_listen, timer_armed, hook_timer, ticking, sweep,
    net_aio,               \* the reactor exists
    net_aio_refs, net_weak_holds, net_release_deferred,
    io_reactor_weak,       \* the JS loop does not wait for the reactor
    net_hooks,             \* net_hooks[0 .. net_n_hooks - 1], by their owners
    drains,                \* the drains under way: the hook each has come to
    held,                  \* users with a reference
    due                    \* owners whose hook a drain has still to run

aioVars == <<listening, paused, watched, n_listen, timer_armed, hook_timer, ticking, sweep>>
refVars == <<net_aio, net_aio_refs, net_weak_holds, net_release_deferred, io_reactor_weak>>
vars == <<aioVars, refVars, net_hooks, drains, held, due>>

Aio == INSTANCE AioListen

Owner == User \cup {POOL}
Hooks == {net_hooks[k] : k \in DOMAIN net_hooks}
net_draining == Len(drains)

TypeOK ==
    /\ Aio!TypeOK
    /\ net_aio \in BOOLEAN
    /\ net_aio_refs \in 0..Cardinality(User)
    /\ net_weak_holds \in 0..1
    /\ net_release_deferred \in BOOLEAN
    /\ io_reactor_weak \in BOOLEAN
    /\ net_hooks \in Seq(Owner \cup {GRAVE}) /\ Len(net_hooks) = Cardinality(Hooks)
    /\ drains \in Seq(Nat) /\ Len(drains) <= MaxDepth
    /\ held \in SUBSET User
    /\ due \in SUBSET Owner

Init ==
    /\ Aio!Init
    /\ net_aio = FALSE /\ net_aio_refs = 0 /\ net_weak_holds = 0
    /\ net_release_deferred = FALSE /\ io_reactor_weak = FALSE
    /\ net_hooks = <<>> /\ drains = <<>> /\ held = {} /\ due = {}

-----------------------------------------------------------------------------
(* The reactor's life *)

\* dyn_aio_free takes the listeners and the timer with it.
AioGone ==
    /\ listening' = [fd \in Aio!Fd |-> FALSE]
    /\ paused' = [fd \in Aio!Fd |-> FALSE]
    /\ watched' = [fd \in Aio!Fd |-> FALSE]
    /\ n_listen' = 0 /\ timer_armed' = FALSE /\ hook_timer' = FALSE
    /\ ticking' = FALSE /\ sweep' = 0

net_reactor_free ==
    /\ AioGone
    /\ net_aio' = FALSE /\ net_aio_refs' = 0 /\ net_release_deferred' = FALSE
    /\ net_weak_holds' = 0
    /\ io_reactor_weak' = FALSE
    /\ net_hooks' = <<>>
    /\ due' = {}

dyn_net_reactor_acquire(u) ==
    /\ u \notin held
    /\ net_aio' = TRUE
    /\ net_aio_refs' = net_aio_refs + 1
    /\ net_release_deferred' = FALSE
    /\ io_reactor_weak' = FALSE
    /\ held' = held \cup {u}
    /\ UNCHANGED <<aioVars, net_weak_holds, net_hooks, drains, due>>

\* Mutant: a release does not mind the drain it runs in.
DeferredNever == FALSE

\* The last reference goes inside a drain: the drain frees the reactor.
Deferred == net_draining > 0

\* Nobody is left: the reactor goes now, or when the drain ends.
LastGoes ==
    IF Deferred
    THEN /\ net_release_deferred' = TRUE
         /\ net_aio_refs' = 0 /\ net_weak_holds' = 0
         /\ UNCHANGED <<aioVars, net_aio, io_reactor_weak, net_hooks, due>>
    ELSE net_reactor_free

\* Mutant: the last user leaves the loop waiting for the idle pool.
LoopWeakNever == io_reactor_weak' = io_reactor_weak

\* The loop no longer waits for a reactor that only the idle pool holds.
LoopWeak == io_reactor_weak' = TRUE

\* A user, or the HTTP client with its last job, takes its hook away before it
\* releases the reactor.
dyn_net_reactor_release(u) ==
    /\ u \in held /\ u \notin Hooks
    /\ held' = held \ {u}
    /\ \/ /\ net_aio_refs > 1
          /\ net_aio_refs' = net_aio_refs - 1
          /\ UNCHANGED <<aioVars, net_aio, net_weak_holds, net_release_deferred, io_reactor_weak, net_hooks, due>>
       \/ /\ net_aio_refs <= 1 /\ net_weak_holds > 0
          /\ net_aio_refs' = 0
          /\ LoopWeak
          /\ UNCHANGED <<aioVars, net_aio, net_weak_holds, net_release_deferred, net_hooks, due>>
       \/ /\ net_aio_refs <= 1 /\ net_weak_holds = 0 /\ POOL \notin Hooks
          /\ LastGoes
    /\ UNCHANGED drains

\* The pool of idle client connections holds the reactor weakly.
dyn_net_reactor_weak_hold ==
    /\ net_aio /\ net_weak_holds = 0 /\ held # {}
    /\ net_weak_holds' = 1
    /\ UNCHANGED <<aioVars, net_aio, net_aio_refs, net_release_deferred, io_reactor_weak, net_hooks, drains, held, due>>

dyn_net_reactor_weak_drop ==
    /\ net_weak_holds = 1
    /\ IF net_aio_refs > 0
       THEN /\ net_weak_holds' = 0
            /\ UNCHANGED <<aioVars, net_aio, net_aio_refs, net_release_deferred, io_reactor_weak, net_hooks, due>>
       ELSE LastGoes
    /\ UNCHANGED <<drains, held>>

-----------------------------------------------------------------------------
(* Hooks *)

FirstHook == net_hooks = <<>>

\* The first hook sets the reactor's timer; if that is refused there is no hook.
dyn_net_on_drain(u, ok) ==
    /\ u \in held \/ (u = POOL /\ (held # {} \/ net_weak_holds > 0))
    /\ u \notin Hooks
    /\ IF FirstHook
       THEN Aio!dyn_aio_set_timer(TRUE, ok)
       ELSE UNCHANGED aioVars
    /\ IF FirstHook /\ ~ok
       THEN UNCHANGED <<net_hooks, due>>
       ELSE /\ net_hooks' = Append(net_hooks, u)
            /\ due' = due \cup {u}
    /\ UNCHANGED <<refVars, drains, held>>

dyn_net_on_drain_notick ==
    /\ Notick /\ net_aio /\ GRAVE \notin Hooks
    /\ net_hooks' = Append(net_hooks, GRAVE)
    /\ UNCHANGED <<aioVars, refVars, drains, held, due>>

\* The last hook takes the place of the one that goes.
Without(u) ==
    LET n == Len(net_hooks)
        k == CHOOSE i \in DOMAIN net_hooks : net_hooks[i] = u
    IN SubSeq([net_hooks EXCEPT ![k] = net_hooks[n]], 1, n - 1)

dyn_net_off_drain(u) ==
    /\ u \in Hooks \ {GRAVE}
    /\ net_hooks' = Without(u)
    /\ due' = due \ {u}
    /\ UNCHANGED <<aioVars, refVars, drains, held>>

-----------------------------------------------------------------------------
(* dyn_net_drain and dyn_net_wait *)

\* The outermost drain sweeps the listeners if the timer has fired.
DrainStarts(fired) ==
    /\ net_aio /\ net_draining < MaxDepth
    /\ drains' = Append(drains, 0)
    /\ due' = due \cup (Hooks \ {GRAVE})
    /\ IF fired /\ drains = <<>> /\ n_listen > 0
       THEN Aio!SweepStarts
       ELSE UNCHANGED aioVars
    /\ UNCHANGED <<refVars, net_hooks, held>>

\* dyn_aio_drain is under way, in this drain or in one around it.
InAioDrain == drains # <<>> /\ drains[1] = 0

Outer == SubSeq(drains, 1, net_draining - 1)
At == drains[net_draining]

\* Mutant: the place a hook left is skipped for good, and so is the next.
HookStepWide == At + 2

HookStep == At + 1

\* The next hook runs.
RunsHook ==
    /\ drains # <<>> /\ At < Len(net_hooks)
    /\ net_draining = 1 => sweep = 0
    /\ drains' = Append(Outer, HookStep)
    /\ due' = due \ {net_hooks[At + 1]}
    /\ UNCHANGED <<aioVars, refVars, net_hooks, held>>

\* The release that was put off still stands.
Released == net_release_deferred /\ net_aio_refs <= 0 /\ net_weak_holds = 0

DrainEnds ==
    /\ drains # <<>> /\ At >= Len(net_hooks)
    /\ net_draining = 1 => sweep = 0
    /\ drains' = Outer
    /\ IF Outer = <<>> /\ Released
       THEN net_reactor_free
       ELSE UNCHANGED <<aioVars, refVars, net_hooks, due>>
    /\ UNCHANGED held

-----------------------------------------------------------------------------
\* What dyn_aio_drain does to listeners, and users do on behalf of servers.
Dispatch == InAioDrain /\ \E fd \in Aio!Fd : Aio!DispatchAccept(fd)
Sweeps == InAioDrain /\ Aio!Sweep
Servers == held # {} /\ Aio!Listeners

Listening ==
    /\ Dispatch \/ Sweeps \/ Servers
    /\ UNCHANGED <<refVars, net_hooks, drains, held, due>>

Users ==
    \/ \E u \in User : dyn_net_reactor_acquire(u) \/ dyn_net_reactor_release(u)
    \/ \E u \in Owner :
          \/ \E ok \in Aio!TimerResult : dyn_net_on_drain(u, ok)
          \/ dyn_net_off_drain(u)
    \/ dyn_net_reactor_weak_hold
    \/ dyn_net_reactor_weak_drop
    \/ dyn_net_on_drain_notick

Fired == IF ticking THEN BOOLEAN ELSE {FALSE}

Next ==
    \/ Users
    \/ Listening
    \/ \E fired \in Fired : DrainStarts(fired)
    \/ RunsHook
    \/ DrainEnds

\* The timer is readable again within 250 ms, and every outermost drain begins
\* with a poll that reports it; a drain goes to its end, and the callbacks that
\* drain inside it return.
Fairness ==
    /\ SF_vars(ticking /\ net_draining = 0 /\ DrainStarts(TRUE))
    /\ WF_vars(Sweeps /\ UNCHANGED <<refVars, net_hooks, drains, held, due>>)
    /\ WF_vars(RunsHook \/ DrainEnds)
    /\ SF_vars(net_draining = 1 /\ (RunsHook \/ DrainEnds))

Spec == Init /\ [][Next]_vars
FairSpec == Spec /\ Fairness

-----------------------------------------------------------------------------
(* Properties *)

\* The reactor lives exactly as long as it is needed: it is never freed under a
\* drain that goes on using it, nor under a user or the idle pool that holds it,
\* and a release that a drain had to put off is not forgotten.
AliveIffNeeded == net_aio <=> drains # <<>> \/ held # {} \/ net_weak_holds > 0

\* Between drains, the JS loop waits for the reactor exactly as long as a user
\* holds it: a program ends although idle connections are pooled, and goes on
\* when one of them is taken for a new request.
LoopWaitsForUsers ==
    drains = <<>> => (net_aio /\ ~io_reactor_weak <=> held # {})

\* As long as a deadline or a sweep is hooked, the reactor's timer is set:
\* listeners that close, hooks that go and come, and weak holds do not stop it.
HookTicks == Hooks \cap Owner # {} => ticking

\* HookTicks, unless a hook that needs no tick was there first.
HookTicksWithoutGrave == GRAVE \notin Hooks => HookTicks

\* Every hook has its turn after a drain began, although hooks that leave move
\* others to places the drain has passed.
HooksHaveTheirTurn == \A u \in Owner : u \in due ~> u \notin due \/ ~ticking

\* The one timer of the reactor serves hooks and paused listeners alike:
\* neither party stops it while the other needs it (see AioListen).
TimerServesBoth == HookTicksWithoutGrave /\ Aio!PausedHasTimer

\* A listener that ran out of descriptors is taken up again (see AioListen).
PausedIsRetried == Aio!PausedIsRetried

=============================================================================
