------------------------------ MODULE AioPark ------------------------------
(***************************************************************************)
(* The reactor's way to the worker pool, dyna-aio.c: a job goes to the     *)
(* reactor's channel if the channel has room and nothing waits, and is     *)
(* parked on the reactor otherwise; each drain of the channel is followed  *)
(* by a flush of the parked jobs.  Nothing but a completion wakes the      *)
(* reactor, so a parked job must never be left with no job in flight.      *)
(*                                                                         *)
(* The channel is the one of module ThreadPool: it holds at most Cap jobs, *)
(* counts them until they are reported, and raises its wake descriptor     *)
(* when a completion arrives.  Whether the pool has room for CPU work      *)
(* depends on the other channels as well, and is free here.  The channel   *)
(* exists from the start; memory does not run out.                         *)
(***************************************************************************)
EXTENDS Integers, Sequences, FiniteSets

CONSTANTS
    MaxJob,   \* bound: jobs ever submitted
    Cap,      \* p->cap, jobs a channel holds
    ParkMax   \* AIO_PARK_MAX

ASSUME ParkAssumption == MaxJob \in Nat /\ Cap \in Nat \ {0} /\ ParkMax \in Nat \ {0}

Job == 1..MaxJob
Parked == [id : Job, cpu : BOOLEAN]

VARIABLES
    park,      \* a->park
    pool,      \* jobs of the channel that are queued or running
    cdone,     \* completions of the channel not yet reported
    wake,      \* the channel's wake descriptor is readable
    pc,        \* what the loop thread does
    budget,    \* completions left to this drain
    next,      \* the next job's name
    last       \* the last job that left the reactor, for the pool or to run here

vars == <<park, pool, cdone, wake, pc, budget, next, last>>

TypeOK ==
    /\ park \in Seq(Parked) /\ Len(park) <= ParkMax
    /\ pool \in SUBSET Job
    /\ cdone \in Seq(Job)
    /\ wake \in BOOLEAN
    /\ pc \in {"idle", "drain", "dcb", "flush", "fcb", "freed"}
    /\ budget \in Nat
    /\ next \in 1..MaxJob + 1
    /\ last \in 0..MaxJob

Init ==
    /\ park = <<>> /\ pool = {} /\ cdone = <<>> /\ wake = FALSE
    /\ pc = "idle" /\ budget = 0 /\ next = 1 /\ last = 0

inflight == Cardinality(pool) + Len(cdone)

\* User code: outside the reactor, and in the callbacks of a drain or flush.
UserRuns == pc \in {"idle", "dcb", "fcb"}

-----------------------------------------------------------------------------
(* The pool, as ThreadPool has it: external *)

HasRoom == inflight < Cap

Complete(j) ==
    /\ j \in pool /\ pc # "freed"
    /\ pool' = pool \ {j}
    /\ cdone' = Append(cdone, j)
    /\ wake' = TRUE
    /\ UNCHANGED <<park, pc, budget, next, last>>

-----------------------------------------------------------------------------
(* aio_pool_submit_class *)

\* Mutant: a job is tried on the pool whatever is parked.
DirectAlways == TRUE

Direct == park = <<>>

ParkFull == Len(park) >= ParkMax

ToPool(cpu, cpu_room) ==
    /\ Direct /\ HasRoom /\ (cpu => cpu_room)
    /\ pool' = pool \cup {next}
    /\ last' = next
    /\ UNCHANGED <<park>>

\* The pool's threads are held by blocking work: the caller gets -1.
CrowdedOut(cpu, cpu_room) ==
    /\ cpu /\ ~cpu_room
    /\ Direct => HasRoom
    /\ UNCHANGED <<park, pool, last>>

MustPark(cpu, cpu_room) == IF Direct THEN ~HasRoom ELSE cpu => cpu_room

ToPark(cpu, cpu_room) ==
    /\ MustPark(cpu, cpu_room) /\ ~ParkFull
    /\ park' = Append(park, [id |-> next, cpu |-> cpu])
    /\ UNCHANGED <<pool, last>>

\* aio_disk_submit and dyn_aio_offload run what was refused on the spot;
\* dyn_aio_offload_cpu leaves that to its caller.
ParkRefuses(cpu, cpu_room) ==
    /\ MustPark(cpu, cpu_room) /\ ParkFull
    /\ UNCHANGED <<park, pool, last>>

aio_pool_submit_class(cpu, cpu_room) ==
    /\ UserRuns /\ next <= MaxJob
    /\ next' = next + 1
    /\ \/ ToPool(cpu, cpu_room)
       \/ CrowdedOut(cpu, cpu_room)
       \/ ToPark(cpu, cpu_room)
       \/ ParkRefuses(cpu, cpu_room)
    /\ UNCHANGED <<cdone, wake, pc, budget>>

-----------------------------------------------------------------------------
(* aio_disk_wake: dyn_pool_drain, then aio_park_flush *)

\* The loop saw the wake descriptor, or dyn_aio_drain and dyn_aio_disk_drain
\* come round without it.
DrainStarts ==
    /\ pc = "idle"
    /\ wake \/ cdone # <<>> \/ park # <<>>
    /\ pc' = "drain"
    /\ wake' = FALSE
    /\ budget' = Len(cdone)
    /\ UNCHANGED <<park, pool, cdone, next, last>>

DrainOne ==
    /\ pc = "drain" /\ budget > 0
    /\ pc' = "dcb"
    /\ budget' = budget - 1
    /\ cdone' = Tail(cdone)
    /\ UNCHANGED <<park, pool, wake, next, last>>

DoneReturns ==
    /\ pc = "dcb"
    /\ pc' = "drain"
    /\ UNCHANGED <<park, pool, cdone, wake, budget, next, last>>

\* Mutant: what the time slice cut off is left without a wake.
LeftoverSilent == wake' = wake

\* chan_signal_locked for the completions the time slice has cut off.
Leftover == wake' = (wake \/ cdone # <<>>)

\* Mutant: the drain of old, which let the parked jobs be.
AfterDrainIdle == "idle"

AfterDrain == "flush"

\* The budget is used up, or the time slice is, which is looked at after each
\* report.
DrainEnds ==
    /\ pc = "dcb" \/ (pc = "drain" /\ budget = 0)
    /\ pc' = AfterDrain
    /\ Leftover
    /\ budget' = 0
    /\ UNCHANGED <<park, pool, cdone, next, last>>

FlushSubmits ==
    /\ pc = "flush" /\ park # <<>> /\ HasRoom
    /\ pool' = pool \cup {Head(park).id}
    /\ last' = Head(park).id
    /\ park' = Tail(park)
    /\ UNCHANGED <<cdone, wake, pc, budget, next>>

\* EBUSY: a CPU job whose class is crowded out runs here, callback and all.
FlushInline ==
    /\ pc = "flush" /\ park # <<>> /\ HasRoom /\ Head(park).cpu
    /\ last' = Head(park).id
    /\ park' = Tail(park)
    /\ pc' = "fcb"
    /\ UNCHANGED <<pool, cdone, wake, budget, next>>

InlineReturns ==
    /\ pc = "fcb"
    /\ pc' = "flush"
    /\ UNCHANGED <<park, pool, cdone, wake, budget, next, last>>

FlushEnds ==
    /\ pc = "flush"
    /\ park = <<>> \/ ~HasRoom
    /\ pc' = "idle"
    /\ UNCHANGED <<park, pool, cdone, wake, budget, next, last>>

\* dyn_aio_free drops the parked jobs; dyn_pool_chan_free waits for the others
\* and drops their completions.
dyn_aio_free ==
    /\ pc = "idle"
    /\ pc' = "freed"
    /\ park' = <<>> /\ pool' = {} /\ cdone' = <<>> /\ wake' = FALSE
    /\ UNCHANGED <<budget, next, last>>

-----------------------------------------------------------------------------
Loop ==
    \/ DrainStarts \/ DrainOne \/ DoneReturns \/ DrainEnds
    \/ FlushSubmits \/ FlushInline \/ InlineReturns \/ FlushEnds

Next ==
    \/ \E cpu, cpu_room \in BOOLEAN : aio_pool_submit_class(cpu, cpu_room)
    \/ \E j \in Job : Complete(j)
    \/ Loop
    \/ dyn_aio_free

\* The loop answers a raised wake descriptor; workers finish their jobs.
WakeStarts == wake /\ DrainStarts

Fairness ==
    /\ WF_vars(WakeStarts)
    /\ WF_vars(DrainOne \/ DoneReturns \/ DrainEnds)
    /\ WF_vars(FlushSubmits \/ FlushInline \/ InlineReturns \/ FlushEnds)
    /\ \A j \in Job : WF_vars(Complete(j))

Spec == Init /\ [][Next]_vars
FairSpec == Spec /\ Fairness

-----------------------------------------------------------------------------
(* Properties *)

\* Whenever the loop is back at waiting with jobs parked, the channel is full:
\* a completion, and with it a wake and a flush, is still to come.
ParkedHasWake == pc = "idle" /\ park # <<>> => inflight = Cap

\* A completion that waits to be reported has raised the wake descriptor, or
\* a drain is under way that will see to it.
CompletionHasWake == pc = "idle" /\ cdone # <<>> => wake

\* Jobs reach the pool in the order the reactor accepted them: a parked job is
\* younger than every job that went before, and the park is in order.
ParkInOrder ==
    \A k \in DOMAIN park :
        /\ park[k].id > last
        /\ \A m \in 1..k - 1 : park[m].id < park[k].id

\* Every parked job leaves the park, unless the reactor is freed.
ParkEmpties ==
    \A j \in Job : (\E k \in DOMAIN park : park[k].id = j)
                       ~> ~(\E k \in DOMAIN park : park[k].id = j)

=============================================================================
