------------------------------- MODULE Async --------------------------------
(***************************************************************************)
(* dyna:async, dyna-async.js.inc.c: Semaphore, Channel, Pool, pmap, retry, *)
(* debounce and throttle, and withTimeout around what Semaphore and        *)
(* Channel return.  All of it runs on one thread: an action is what runs   *)
(* between two turns of the job queue, and user code may call anything     *)
(* at any time.                                                            *)
(*                                                                         *)
(* micro is the queue of promise jobs, served in order; timers fire when   *)
(* it is empty.  A value that is sent, a job, an item and a call of a      *)
(* debounced or throttled function are numbered in the order in which user *)
(* code hands them over.                                                   *)
(***************************************************************************)
EXTENDS Integers, Sequences, FiniteSets

CONSTANTS
    Task,         \* those who acquire the semaphore, once each
    Permits,      \* the n of Semaphore
    Cap,          \* the cap of Channel
    Slots,        \* the n of Pool
    Concurrency,  \* of pmap
    Items,        \* the number of items of pmap
    Retries,      \* of retry
    Window,       \* the ms of debounce and throttle
    MaxSends,     \* bound: values sent
    MaxJobs,      \* bound: jobs submitted
    MaxCalls,     \* bound: calls of the debounced or throttled function
    MaxClock,     \* bound: the clock stops here
    Scripts       \* bound: the sets of facilities that a script uses together

ASSUME AsyncAssumption ==
    /\ IsFiniteSet(Task)
    /\ {Permits, Cap, Slots, Concurrency} \subseteq Nat \ {0}
    /\ {Items, Retries, Window, MaxSends, MaxJobs, MaxCalls, MaxClock} \subseteq Nat
    /\ Scripts \subseteq
           SUBSET {"sem", "chan", "pool", "pmap", "retry", "debounce", "throttle", "timeout"}

VARIABLES
    uses,   \* what the script uses
    micro,  \* the queue of promise jobs
    sem,    \* a Semaphore
    chan,   \* a Channel
    pool,   \* a Pool
    pm,     \* a pmap under way
    rt,     \* a retry under way
    rate    \* a debounced or throttled function

vars == <<uses, micro, sem, chan, pool, pm, rt, rate>>

Least(a, b) == IF a < b THEN a ELSE b

\* A promise job: a reaction of op on its subject x, fulfilled or not.
Reaction(op, x, ok) == [op |-> op, x |-> x, ok |-> ok]
Next_(op) == micro # <<>> /\ Head(micro).op = op
Subject == Head(micro).x

-----------------------------------------------------------------------------
(* Semaphore *)

\* The permit goes to t: its promise is resolved, and if nobody waits for the
\* promise any more nobody will release it.
Given(s, t) ==
    [s EXCEPT !.st[t] = IF @ = "gone" THEN "leaked" ELSE "granted",
              !.given = Append(@, t)]
Resolves(t) == micro' = IF sem.st[t] = "gone" THEN micro
                        ELSE Append(micro, Reaction("grant", t, TRUE))

\* acquire, and the first half of run.
acquire(t) ==
    /\ "sem" \in uses /\ sem.st[t] = "idle"
    /\ LET s == [sem EXCEPT !.asked = Append(@, t)]
       IN \/ /\ sem.n > 0
             /\ sem' = Given([s EXCEPT !.n = @ - 1], t)
             /\ Resolves(t)
          \/ /\ sem.n <= 0
             /\ sem' = [s EXCEPT !.waiters = Append(@, t), !.st[t] = "waiting"]
             /\ UNCHANGED micro
    /\ UNCHANGED <<uses, chan, pool, pm, rt, rate>>

Granted ==
    /\ Next_("grant")
    /\ sem' = [sem EXCEPT !.st[Subject] = "holding"]
    /\ micro' = Tail(micro)
    /\ UNCHANGED <<uses, chan, pool, pm, rt, rate>>

\* Mutant: the release function works every time it is called.
OnceAgain(t) == sem.st[t] \in {"holding", "released"}

\* _dynOnce: a second call of the release function does nothing.
Once(t) == sem.st[t] = "holding"

\* _release, by the holder or at the end of run.
Release(t) ==
    /\ Once(t)
    /\ LET s == [sem EXCEPT !.st[t] = "released"]
       IN \/ /\ sem.waiters # <<>>
             /\ sem' = Given([s EXCEPT !.waiters = Tail(@)], Head(sem.waiters))
             /\ Resolves(Head(sem.waiters))
          \/ /\ sem.waiters = <<>>
             /\ sem' = [s EXCEPT !.n = @ + 1]
             /\ UNCHANGED micro
    /\ UNCHANGED <<uses, chan, pool, pm, rt, rate>>

\* withTimeout(acquire(), ms) gives up; the waiter stays in the queue.
AcquireTimesOut(t) ==
    /\ "timeout" \in uses /\ micro = <<>> /\ sem.st[t] = "waiting"
    /\ sem' = [sem EXCEPT !.st[t] = "gone"]
    /\ UNCHANGED <<uses, micro, chan, pool, pm, rt, rate>>

-----------------------------------------------------------------------------
(* Channel *)

\* A value leaves the channel, to a consumer or to one that has given up.
Delivered(c, v) ==
    [c EXCEPT !.out = Append(@, v),
              !.lost = IF c.receiver = "gone" THEN @ \cup {v} ELSE @,
              !.receiver = "none"]

send ==
    LET v == chan.sends + 1
        c == [chan EXCEPT !.sends = v]
    IN /\ "chan" \in uses /\ chan.sends < MaxSends
       /\ \/ /\ chan.closed
             /\ chan' = [c EXCEPT !.rejected = @ \cup {v}]
          \/ /\ ~chan.closed /\ chan.receiver # "none"
             /\ chan' = Delivered(c, v)
          \/ /\ ~chan.closed /\ chan.receiver = "none" /\ Len(chan.q) < Cap
             /\ chan' = [c EXCEPT !.q = Append(@, v)]
          \/ /\ ~chan.closed /\ chan.receiver = "none" /\ Len(chan.q) >= Cap
             /\ chan' = [c EXCEPT !.blocked = Append(@, v)]
       /\ UNCHANGED <<uses, micro, sem, pool, pm, rt, rate>>

\* Mutant: nobody is let in.
AdmitNone(c) == c

\* _admit
Admit(c) ==
    LET k == Least(Cap - Len(c.q), Len(c.blocked))
    IN [c EXCEPT !.q = @ \o SubSeq(c.blocked, 1, k),
                 !.blocked = SubSeq(@, k + 1, Len(@))]

\* recv, also as the next of a for-await; a second one while one is pending is
\* refused.
recv ==
    /\ "chan" \in uses /\ chan.receiver = "none"
    /\ \/ /\ chan.q # <<>>
          /\ chan' = Admit(Delivered([chan EXCEPT !.q = Tail(@)], Head(chan.q)))
       \/ /\ chan.q = <<>> /\ chan.closed
          /\ chan' = [chan EXCEPT !.iterating = FALSE]
       \/ /\ chan.q = <<>> /\ ~chan.closed
          /\ chan' = [chan EXCEPT !.receiver = "waiting"]
    /\ UNCHANGED <<uses, micro, sem, pool, pm, rt, rate>>

\* A channel may be closed again.
close ==
    /\ "chan" \in uses
    /\ chan' = [chan EXCEPT !.closed = TRUE, !.iterating = FALSE, !.receiver = "none",
                            !.rejected = @ \cup {chan.blocked[i] : i \in DOMAIN chan.blocked},
                            !.blocked = <<>>]
    /\ UNCHANGED <<uses, micro, sem, pool, pm, rt, rate>>

\* [Symbol.asyncIterator], refused while another for-await is under way, and
\* the return of its iterator.
IteratorStarts ==
    /\ "chan" \in uses /\ ~chan.iterating
    /\ chan' = [chan EXCEPT !.iterating = TRUE]
    /\ UNCHANGED <<uses, micro, sem, pool, pm, rt, rate>>

IteratorReturns ==
    /\ "chan" \in uses /\ chan.iterating
    /\ chan' = [chan EXCEPT !.iterating = FALSE]
    /\ UNCHANGED <<uses, micro, sem, pool, pm, rt, rate>>

\* withTimeout(recv(), ms) gives up; the receiver stays registered.
RecvTimesOut ==
    /\ "timeout" \in uses /\ micro = <<>> /\ chan.receiver = "waiting"
    /\ chan' = [chan EXCEPT !.receiver = "gone"]
    /\ UNCHANGED <<uses, micro, sem, pool, pm, rt, rate>>

-----------------------------------------------------------------------------
(* Pool *)

\* _pump starts as many jobs as there are free slots.  Its closures share one
\* variable, job: frames[f] is what the variable of the f-th such call holds
\* in the end, and every reaction it made refers to f.  The result is the
\* Pool and the reactions.
_pump(p) ==
    LET k == Least(Slots - p.active, Len(p.q))
    IN IF k <= 0 THEN [pool |-> p, jobs |-> <<>>]
       ELSE [pool |-> [p EXCEPT !.active = @ + k,
                                !.frames = Append(@, p.q[k]),
                                !.running = Append(@, 0),
                                !.q = SubSeq(@, k + 1, Len(@))],
             jobs |-> [i \in 1..k |-> Reaction("call", Len(p.frames) + 1, TRUE)]]

submit ==
    LET j == pool.submitted + 1
        r == _pump([pool EXCEPT !.submitted = j, !.q = Append(@, j)])
    IN /\ "pool" \in uses /\ pool.submitted < MaxJobs
       /\ pool' = r.pool
       /\ micro' = micro \o r.jobs
       /\ UNCHANGED <<uses, sem, chan, pm, rt, rate>>

\* The job of the frame is called, and settles some time later.
PoolCalls ==
    /\ Next_("call")
    /\ pool' = [pool EXCEPT !.calls[pool.frames[Subject]] = @ + 1, !.running[Subject] = @ + 1]
    /\ micro' = Tail(micro)
    /\ UNCHANGED <<uses, sem, chan, pm, rt, rate>>

JobSettles(f, ok) ==
    /\ pool.running[f] > 0
    /\ pool' = [pool EXCEPT !.running[f] = @ - 1]
    /\ micro' = Append(micro, Reaction("settled", f, ok))
    /\ UNCHANGED <<uses, sem, chan, pm, rt, rate>>

\* Mutant: a job that fails frees its slot, but no job takes its place.
PoolEndedQuietly(p, f, ok) ==
    LET e == [p EXCEPT !.active = @ - 1, !.settled[p.frames[f]] = @ + 1]
    IN IF ok THEN _pump(e) ELSE [pool |-> e, jobs |-> <<>>]

\* Both reactions free the slot, settle what submit returned and pump.
PoolEnded(p, f, ok) ==
    _pump([p EXCEPT !.active = @ - 1, !.settled[p.frames[f]] = @ + 1])

PoolSettles ==
    LET r == PoolEnded(pool, Subject, Head(micro).ok)
    IN /\ Next_("settled")
       /\ pool' = r.pool
       /\ micro' = Tail(micro) \o r.jobs
       /\ UNCHANGED <<uses, sem, chan, pm, rt, rate>>

-----------------------------------------------------------------------------
(* pmap *)

\* launch, with the reactions that call fn.
launch(p) ==
    LET k == Least(Concurrency - p.inFlight, Items - p.next)
    IN IF p.failed \/ k <= 0 THEN [pm |-> p, jobs |-> <<>>]
       ELSE [pm |-> [p EXCEPT !.next = @ + k, !.inFlight = @ + k],
             jobs |-> [i \in 1..k |-> Reaction("item", p.next + i, TRUE)]]

pmap ==
    LET r == launch(pm)
    IN /\ "pmap" \in uses /\ pm.pc = "idle"
       /\ pm' = [r.pm EXCEPT !.pc = IF Items = 0 THEN "resolved" ELSE "pending"]
       /\ micro' = micro \o r.jobs
       /\ UNCHANGED <<uses, sem, chan, pool, rt, rate>>

ItemCalls ==
    /\ Next_("item")
    /\ pm' = [pm EXCEPT !.calls[Subject] = @ + 1, !.running = @ \cup {Subject}]
    /\ micro' = Tail(micro)
    /\ UNCHANGED <<uses, sem, chan, pool, rt, rate>>

ItemSettles(i, ok) ==
    /\ i \in pm.running
    /\ pm' = [pm EXCEPT !.running = @ \ {i}]
    /\ micro' = Append(micro, Reaction("mapped", i, ok))
    /\ UNCHANGED <<uses, sem, chan, pool, rt, rate>>

\* Mutant: an item that settles does not launch the next.
MappedIdle(p, ok) ==
    IF ~ok THEN [pm |-> [p EXCEPT !.failed = TRUE, !.pc = "rejected"], jobs |-> <<>>]
    ELSE [pm |-> [p EXCEPT !.settledCount = @ + 1,
                           !.pc = IF p.settledCount + 1 = Items THEN "resolved" ELSE @],
          jobs |-> <<>>]

\* What the two reactions of an item do to a pmap that has not failed.
Mapped(p, ok) ==
    IF ~ok THEN [pm |-> [p EXCEPT !.failed = TRUE, !.pc = "rejected"], jobs |-> <<>>]
    ELSE IF p.settledCount + 1 = Items
    THEN [pm |-> [p EXCEPT !.settledCount = @ + 1, !.pc = "resolved"], jobs |-> <<>>]
    ELSE launch([p EXCEPT !.settledCount = @ + 1])

PmapSettles ==
    LET p == [pm EXCEPT !.inFlight = @ - 1]
        r == IF p.failed THEN [pm |-> p, jobs |-> <<>>] ELSE Mapped(p, Head(micro).ok)
    IN /\ Next_("mapped")
       /\ pm' = r.pm
       /\ micro' = Tail(micro) \o r.jobs
       /\ UNCHANGED <<uses, sem, chan, pool, rt, rate>>

-----------------------------------------------------------------------------
(* retry *)

Attempts == micro' = Append(micro, Reaction("attempt", 0, TRUE))

retry ==
    /\ "retry" \in uses /\ rt.pc = "idle"
    /\ rt' = [rt EXCEPT !.pc = "pending"]
    /\ Attempts
    /\ UNCHANGED <<uses, sem, chan, pool, pm, rate>>

RetryRuns ==
    /\ Next_("run")
    /\ micro' = Append(Tail(micro), Reaction("attempt", 0, TRUE))
    /\ UNCHANGED <<uses, sem, chan, pool, pm, rt, rate>>

RetryCalls ==
    /\ Next_("attempt")
    /\ rt' = [rt EXCEPT !.pc = "running", !.calls = @ + 1]
    /\ micro' = Tail(micro)
    /\ UNCHANGED <<uses, sem, chan, pool, pm, rate>>

AttemptSettles(ok) ==
    /\ rt.pc = "running"
    /\ rt' = [rt EXCEPT !.pc = "settling"]
    /\ micro' = Append(micro, Reaction("tried", 0, ok))
    /\ UNCHANGED <<uses, sem, chan, pool, pm, rate>>

\* After a failure: the last one, or onRetry throws, or the next attempt comes
\* at once or after the backoff.
RetrySettles ==
    /\ Next_("tried")
    /\ LET more == rt.attempt < Retries
           n == [rt EXCEPT !.attempt = @ + 1]
       IN \/ /\ Head(micro).ok
             /\ rt' = [rt EXCEPT !.pc = "resolved"]
             /\ micro' = Tail(micro)
          \/ /\ ~Head(micro).ok /\ ~more
             /\ rt' = [rt EXCEPT !.pc = "rejected"]
             /\ micro' = Tail(micro)
          \/ /\ ~Head(micro).ok /\ more
             /\ rt' \in {[n EXCEPT !.pc = "rejected"], [n EXCEPT !.pc = "backoff"]}
             /\ micro' = Tail(micro)
          \/ /\ ~Head(micro).ok /\ more
             /\ rt' = [n EXCEPT !.pc = "pending"]
             /\ micro' = Append(Tail(micro), Reaction("run", 0, TRUE))
    /\ UNCHANGED <<uses, sem, chan, pool, pm, rate>>

BackoffEnds ==
    /\ micro = <<>> /\ rt.pc = "backoff"
    /\ rt' = [rt EXCEPT !.pc = "pending"]
    /\ Attempts
    /\ UNCHANGED <<uses, sem, chan, pool, pm, rate>>

-----------------------------------------------------------------------------
(* debounce and throttle *)

SetTimeout(r, ms) == [r EXCEPT !.t = r.calls, !.due = r.clock + ms]
\* The bounds on the calls: every timer can still fire before the clock stops.
CallsAgain == rate.calls < MaxCalls /\ rate.clock + Window <= MaxClock

Ran(r, c) == [r EXCEPT !.ran = Append(@, c)]

\* The timer of the call before is cleared.
debounce ==
    /\ "debounce" \in uses /\ CallsAgain
    /\ rate' = SetTimeout([rate EXCEPT !.calls = @ + 1], Window)
    /\ UNCHANGED <<uses, micro, sem, chan, pool, pm, rt>>

\* A call outside the window runs at once and leaves a timer alone that is due
\* but has not fired yet.
throttle ==
    LET r == [rate EXCEPT !.calls = @ + 1]
        remain == Window - (rate.clock - rate.last)
    IN /\ "throttle" \in uses /\ CallsAgain
       /\ \/ /\ remain <= 0
             /\ rate' = Ran([r EXCEPT !.last = rate.clock], r.calls)
          \/ /\ remain > 0
             /\ rate' = SetTimeout(r, remain)
       /\ UNCHANGED <<uses, micro, sem, chan, pool, pm, rt>>

\* A timer that fires is no longer there to be cleared.
Fires(r) == [r EXCEPT !.t = 0, !.last = r.clock]

RateFires ==
    /\ micro = <<>> /\ rate.t # 0 /\ rate.due <= rate.clock
    /\ rate' = Ran(Fires(rate), rate.t)
    /\ UNCHANGED <<uses, micro, sem, chan, pool, pm, rt>>

cancel ==
    /\ rate.t # 0
    /\ rate' = [rate EXCEPT !.t = 0, !.dropped = rate.t]
    /\ UNCHANGED <<uses, micro, sem, chan, pool, pm, rt>>

Tick ==
    /\ {"debounce", "throttle"} \cap uses # {} /\ rate.clock < MaxClock
    /\ rate' = [rate EXCEPT !.clock = @ + 1]
    /\ UNCHANGED <<uses, micro, sem, chan, pool, pm, rt>>

-----------------------------------------------------------------------------
Init ==
    /\ uses \in Scripts
    /\ micro = <<>>
    /\ sem = [n |-> Permits, waiters |-> <<>>, st |-> [t \in Task |-> "idle"],
              asked |-> <<>>, given |-> <<>>]
    /\ chan = [q |-> <<>>, blocked |-> <<>>, receiver |-> "none", closed |-> FALSE,
               iterating |-> FALSE, sends |-> 0, out |-> <<>>, lost |-> {}, rejected |-> {}]
    /\ pool = [active |-> 0, q |-> <<>>, submitted |-> 0, frames |-> <<>>, running |-> <<>>,
               calls |-> [j \in 1..MaxJobs |-> 0], settled |-> [j \in 1..MaxJobs |-> 0]]
    /\ pm = [pc |-> "idle", next |-> 0, inFlight |-> 0, settledCount |-> 0, failed |-> FALSE,
             running |-> {}, calls |-> [i \in 1..Items |-> 0]]
    /\ rt = [pc |-> "idle", attempt |-> 0, calls |-> 0]
    /\ rate = [last |-> -Window, t |-> 0, due |-> 0, clock |-> 0, calls |-> 0, ran |-> <<>>,
               dropped |-> 0]

Reactions == Granted \/ PoolCalls \/ PoolSettles \/ ItemCalls \/ PmapSettles
             \/ RetryRuns \/ RetryCalls \/ RetrySettles

Next ==
    \/ Reactions
    \/ \E t \in Task : acquire(t) \/ Release(t) \/ AcquireTimesOut(t)
    \/ send \/ recv \/ close \/ IteratorStarts \/ IteratorReturns \/ RecvTimesOut
    \/ submit \/ \E f \in DOMAIN pool.frames, ok \in BOOLEAN : JobSettles(f, ok)
    \/ pmap \/ \E i \in pm.running, ok \in BOOLEAN : ItemSettles(i, ok)
    \/ retry \/ (\E ok \in BOOLEAN : AttemptSettles(ok)) \/ BackoffEnds
    \/ debounce \/ throttle \/ RateFires \/ cancel \/ Tick

Spec == Init /\ [][Next]_vars

\* Promise jobs and timers have their turn, time passes, and what user code
\* is waited for comes to an end: holders release, functions settle, and the
\* consumer goes on receiving.
Fairness ==
    /\ WF_vars(Reactions)
    /\ \A t \in Task : WF_vars(Release(t))
    /\ WF_vars(recv)
    /\ \A f \in 1..MaxJobs : WF_vars(f \in DOMAIN pool.frames /\ \E ok \in BOOLEAN : JobSettles(f, ok))
    /\ \A i \in 1..Items : WF_vars(\E ok \in BOOLEAN : ItemSettles(i, ok))
    /\ WF_vars(\E ok \in BOOLEAN : AttemptSettles(ok)) /\ WF_vars(BackoffEnds)
    /\ WF_vars(RateFires) /\ WF_vars(Tick)

FairSpec == Spec /\ Fairness

-----------------------------------------------------------------------------
(* Properties *)

\* Every variable has the shape of what it stands for.
TypeOK ==
    /\ uses \in Scripts
    /\ sem.n \in 0..Permits /\ sem.waiters \in Seq(Task)
    /\ sem.st \in [Task -> {"idle", "waiting", "gone", "granted", "holding", "released", "leaked"}]
    /\ chan.receiver \in {"none", "waiting", "gone"} /\ chan.sends \in 0..MaxSends
    /\ pool.active \in 0..Slots /\ pm.inFlight \in 0..Concurrency

\* Permits are handed over in the order in which they were asked for ("direct
\* hand-off, no queue jumping"), nobody waits beside a free one, and none is
\* ever made or destroyed, whoever gives up and however often a release
\* function is called.
Holders == {t \in Task : sem.st[t] \in {"granted", "holding", "leaked"}}

NoQueueJumping ==
    /\ sem.asked = sem.given \o sem.waiters
    /\ sem.waiters # <<>> => sem.n = 0
    /\ sem.n + Cardinality(Holders) = Permits

\* What left the channel, what it buffers and what waits for room are, in this
\* order, the values sent, in the order they were sent, and the others were
\* refused: nothing is skipped, doubled or overtaken, and a value is lost only to a
\* receiver that gave up.
InOrder(s) == \A i \in DOMAIN s : s[i] = i

ChannelInOrder ==
    LET line == chan.out \o chan.q \o chan.blocked
    IN /\ InOrder(line)
       /\ chan.rejected = (Len(line) + 1)..chan.sends
       /\ chan.receiver # "none" => chan.q = <<>> /\ ~chan.closed
       /\ chan.blocked # <<>> => Len(chan.q) = Cap
       /\ "timeout" \notin uses => chan.lost = {}

\* Who hands a function over has it called as often as promised: a job of the
\* Pool and an item of pmap once, although _pump's closures share their job,
\* and never more at a time than there are slots; retry at most Retries + 1
\* times.  pmap resolves when every item has settled.  The last call of a
\* debounced or throttled function has run, waits for its timer, or was
\* cancelled, and none runs twice.
CallsAsPromised ==
    /\ \A j \in 1..MaxJobs : pool.settled[j] <= pool.calls[j] /\ pool.calls[j] <= 1
    /\ pool.active <= Slots
    /\ \A i \in 1..Items : pm.calls[i] <= 1
    /\ Cardinality(pm.running) <= pm.inFlight /\ pm.inFlight <= Concurrency
    /\ pm.pc = "resolved" => \A i \in 1..Items : pm.calls[i] = 1
    /\ rt.calls <= Retries + 1
    /\ rate.calls = 0 \/ rate.calls \in {rate.t, rate.dropped}
          \/ \E i \in DOMAIN rate.ran : rate.ran[i] = rate.calls
    /\ \A i, k \in DOMAIN rate.ran : rate.ran[i] = rate.ran[k] => i = k

\* Everybody is served in the end: who acquires gets the permit, unless a permit went
\* to somebody who had given up; a send that waits for room settles; every
\* job submitted settles; pmap and retry settle; a pending call runs.
AsyncSettles ==
    /\ \A t \in Task : (sem.st[t] = "waiting")
           ~> (sem.st[t] # "waiting" \/ \E u \in Task : sem.st[u] = "leaked")
    /\ (chan.blocked # <<>> /\ "timeout" \notin uses) ~> (chan.blocked = <<>>)
    /\ \A j \in 1..MaxJobs : (pool.submitted >= j) ~> (pool.settled[j] = 1)
    /\ (pm.pc = "pending") ~> (pm.pc \in {"resolved", "rejected"})
    /\ (rt.pc # "idle") ~> (rt.pc \in {"resolved", "rejected"})
    /\ \A c \in 1..MaxCalls : (rate.t = c) ~> (rate.t # c)
=============================================================================
