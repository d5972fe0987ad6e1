----------------------------- MODULE ThreadPool -----------------------------
(***************************************************************************)
(* The shared worker pool of core/dyn-pool.c: a fixed set of threads, one  *)
(* channel per event loop, two job classes (blocking IO and CPU), and an   *)
(* eventfd per channel that tells the owning loop to drain completions.    *)
(*                                                                         *)
(* Every action is one critical section of pool->mu.  The two condition    *)
(* variables are wait sets: a worker in "wait" sleeps on pool->cv, an      *)
(* owner in "cwait" sleeps on pool->quiesce, and both may wake spuriously. *)
(* The ring buffers are sequences; RingsFit shows they never overflow.     *)
(***************************************************************************)
EXTENDS Integers, Sequences, SequencesExt, FiniteSets

CONSTANTS
    Worker,  \* the pool's threads
    Chan,    \* channel addresses; malloc may hand a freed one out again
    JobId,   \* job identities; one is reused once its job is finished with
    Cap,     \* pool->cap, the size of every ring
    NULL     \* the null pointer

ASSUME WorkerAssumption == IsFiniteSet(Worker) /\ Worker # {}
ASSUME CapAssumption == Cap \in Nat \ {0}
ASSUME NULLAssumption == NULL \notin Chan

IO == 0
CPU == 1
NoClass == 2
Class == {IO, CPU}
Job == [id : JobId, ch : Chan, cls : Class]

NThreads == Cardinality(Worker)
IoLimit == IF NThreads > 1 THEN NThreads - 1 ELSE 1

VARIABLES
    chans,         \* pool->chans, the linked list, head first
    queue,         \* ch->queue[cls] with qhead/qcount
    cdone,         \* ch->cdone with chead/ctail/ccount
    wake_pending,  \* ch->wake_pending
    wakefd,        \* the eventfd's counter
    inflight,      \* ch->inflight
    running,       \* ch->running
    closing,       \* ch->closing
    queued,        \* pool->queued[cls]
    io_running,    \* pool->io_running
    load,          \* pool->io_load and pool->cpu_load, by class
    picks,         \* pool->picks & 1
    turn,          \* pool->turn[cls]
    pinflight,     \* pool->inflight
    stopping,      \* pool->stopping
    freed,         \* dyn_pool_free has returned
    wpc, wjob,     \* per worker: where it is, and the job it runs
    opc, ojob,     \* per channel: where its owner is, and the job it reports
    budget         \* per channel: dyn_pool_drain's budget

chanVars == <<queue, cdone, wake_pending, wakefd, inflight, running, closing>>
poolVars == <<chans, queued, io_running, load, picks, turn, pinflight,
              stopping, freed>>
workerVars == <<wpc, wjob>>
ownerVars == <<opc, ojob, budget>>
vars == <<chanVars, poolVars, workerVars, ownerVars>>

TypeOK ==
    /\ chans \in Seq(Chan)
    /\ queue \in [Chan -> [Class -> Seq(Job)]]
    /\ cdone \in [Chan -> Seq(Job)]
    /\ wake_pending \in [Chan -> BOOLEAN]
    /\ wakefd \in [Chan -> Nat]
    /\ inflight \in [Chan -> Int]
    /\ running \in [Chan -> Int]
    /\ closing \in [Chan -> BOOLEAN]
    /\ queued \in [Class -> Int]
    /\ io_running \in Int
    /\ load \in [Class -> Int]
    /\ picks \in {0, 1}
    /\ turn \in [Class -> Chan \cup {NULL}]
    /\ pinflight \in Int
    /\ stopping \in BOOLEAN
    /\ freed \in BOOLEAN
    /\ wpc \in [Worker -> {"awake", "wait", "work", "exit"}]
    /\ wjob \in [Worker -> Job \cup {NULL}]
    /\ \A w \in Worker : wpc[w] = "work" => wjob[w] \in Job
    /\ opc \in [Chan -> {"none", "idle", "done", "cwait", "cready"}]
    /\ ojob \in [Chan -> Job \cup {NULL}]
    /\ budget \in [Chan -> Nat]

-----------------------------------------------------------------------------
(* The scheduler *)

\* What pool_pick_class_locked may serve.
IoOk == queued[IO] > 0 /\ (io_running < IoLimit \/ stopping)
CpuOk == queued[CPU] > 0

\* Mutant: CPU wins whenever both classes are ready.
PickClassCpuFirst == IF CpuOk THEN CPU ELSE IF IoOk THEN IO ELSE NoClass

PickClass ==
    CASE IoOk /\ CpuOk -> IF picks = 1 THEN IO ELSE CPU
      [] CpuOk /\ ~IoOk -> CPU
      [] IoOk /\ ~CpuOk -> IO
      [] OTHER -> NoClass

\* Channel ch comes next for class k: the walk starts at turn[k], or at the
\* head of the list, and stops at the first channel with such a job.
Position(ch) == CHOOSE i \in DOMAIN chans : chans[i] = ch
WalkStart(k) == IF turn[k] = NULL THEN 1 ELSE Position(turn[k])
WalkDistance(k, i) == (i + Len(chans) - WalkStart(k)) % Len(chans)
IsNextChan(k, i) ==
    /\ queue[chans[i]][k] # <<>>
    /\ \A m \in DOMAIN chans :
         queue[chans[m]][k] # <<>> => WalkDistance(k, i) <= WalkDistance(k, m)

\* ch->next of the channel at position i.
Next_(i) == IF i < Len(chans) THEN chans[i + 1] ELSE NULL

CpuRoom == NThreads > 1 \/ load[IO] = 0

-----------------------------------------------------------------------------
(* Condition variables and the wake descriptor *)

\* Mutant: a submission wakes nobody.
SignalCvMissing == UNCHANGED wpc

\* pthread_cond_signal(&p->cv): one sleeper, if there is any.
SignalCv ==
    IF \E w \in Worker : wpc[w] = "wait"
    THEN \E w \in Worker : wpc[w] = "wait" /\ wpc' = [wpc EXCEPT ![w] = "awake"]
    ELSE UNCHANGED wpc

\* pthread_cond_broadcast(&p->cv), seen from a table of worker states.
Awakened(pc) == [w \in Worker |-> IF pc[w] = "wait" THEN "awake" ELSE pc[w]]

\* pthread_cond_broadcast(&p->quiesce)
BroadcastQuiesce == opc' = [c \in Chan |-> IF opc[c] = "cwait" THEN "cready" ELSE opc[c]]

\* chan_signal_locked: the eventfd is written only when no wake is pending.
SignalChan(c) ==
    /\ wakefd' = [wakefd EXCEPT ![c] = IF wake_pending[c] THEN @ ELSE @ + 1]
    /\ wake_pending' = [wake_pending EXCEPT ![c] = TRUE]

-----------------------------------------------------------------------------
(* pool_worker *)

\* Pick a class, a channel and its oldest job, and go off to run it.
Take(w) ==
    /\ wpc[w] = "awake"
    /\ PickClass # NoClass
    /\ \E i \in DOMAIN chans :
         LET k == PickClass
             c == chans[i] IN
         /\ IsNextChan(k, i)
         /\ turn' = [turn EXCEPT ![k] = Next_(i)]
         /\ queue' = [queue EXCEPT ![c][k] = Tail(@)]
         /\ wjob' = [wjob EXCEPT ![w] = Head(queue[c][k])]
         /\ queued' = [queued EXCEPT ![k] = @ - 1]
         /\ io_running' = IF k = IO THEN io_running + 1 ELSE io_running
         /\ running' = [running EXCEPT ![c] = @ + 1]
    /\ picks' = IF IoOk /\ CpuOk THEN 1 - picks ELSE picks
    /\ wpc' = [wpc EXCEPT ![w] = "work"]
    /\ UNCHANGED <<chans, cdone, wake_pending, wakefd, inflight, closing, load,
                   pinflight, stopping, freed, ownerVars>>

Sleep(w) ==
    /\ wpc[w] = "awake"
    /\ PickClass = NoClass
    /\ ~stopping
    /\ wpc' = [wpc EXCEPT ![w] = "wait"]
    /\ UNCHANGED <<chanVars, poolVars, wjob, ownerVars>>

SpuriousWake(w) ==
    /\ wpc[w] = "wait"
    /\ wpc' = [wpc EXCEPT ![w] = "awake"]
    /\ UNCHANGED <<chanVars, poolVars, wjob, ownerVars>>

\* Mutant: a thread leaves as soon as it sees the pool stopping.
ExitAtOnce(w) ==
    /\ wpc[w] = "awake"
    /\ stopping
    /\ wpc' = [wpc EXCEPT ![w] = "exit"]
    /\ UNCHANGED <<chanVars, poolVars, wjob, ownerVars>>

Exit(w) ==
    /\ wpc[w] = "awake"
    /\ PickClass = NoClass
    /\ stopping
    /\ wpc' = [wpc EXCEPT ![w] = "exit"]
    /\ UNCHANGED <<chanVars, poolVars, wjob, ownerVars>>

\* Mutants of the closing branch: the channel's count, or the broadcast, is
\* forgotten; or the completion is kept for a drain that will not come.
FinishClosingUncounted(c) ==
    /\ pinflight' = pinflight - 1
    /\ BroadcastQuiesce
    /\ UNCHANGED <<inflight, cdone, wake_pending, wakefd>>

FinishClosingSilent(c) ==
    /\ inflight' = [inflight EXCEPT ![c] = @ - 1]
    /\ pinflight' = pinflight - 1
    /\ UNCHANGED <<opc, cdone, wake_pending, wakefd>>

FinishClosingKept(c) ==
    /\ \E w \in Worker :
         /\ wpc[w] = "work" /\ wjob[w].ch = c /\ wjob'[w] = NULL
         /\ cdone' = [cdone EXCEPT ![c] = Append(@, wjob[w])]
    /\ SignalChan(c)
    /\ BroadcastQuiesce
    /\ UNCHANGED <<inflight, pinflight>>

\* The section after j.work(j.arg): account for the job, then hand it to its
\* channel, or drop it when the channel is being closed.
FinishClosing(c) ==
    /\ inflight' = [inflight EXCEPT ![c] = @ - 1]
    /\ pinflight' = pinflight - 1
    /\ BroadcastQuiesce
    /\ UNCHANGED <<cdone, wake_pending, wakefd>>

FinishOpen(c, j) ==
    /\ cdone' = [cdone EXCEPT ![c] = Append(@, j)]
    /\ SignalChan(c)
    /\ UNCHANGED <<inflight, pinflight, opc>>

Finish(w) ==
    LET j == wjob[w]
        back == [wpc EXCEPT ![w] = "awake"] IN
    /\ wpc[w] = "work"
    /\ load' = [load EXCEPT ![j.cls] = @ - 1]
    /\ io_running' = IF j.cls = IO THEN io_running - 1 ELSE io_running
    /\ wpc' = IF j.cls = IO /\ queued[IO] > 0 THEN Awakened(back) ELSE back
    /\ wjob' = [wjob EXCEPT ![w] = NULL]
    /\ running' = [running EXCEPT ![j.ch] = @ - 1]
    /\ \/ closing[j.ch] /\ FinishClosing(j.ch)
       \/ ~closing[j.ch] /\ FinishOpen(j.ch, j)
    /\ UNCHANGED <<chans, queue, closing, queued, picks, turn, stopping, freed,
                   ojob, budget>>

-----------------------------------------------------------------------------
(* The owners of the channels *)

\* dyn_pool_chan_new: a fresh channel becomes the head of the list.
ChanNew(c) ==
    /\ ~freed
    /\ opc[c] = "none"
    /\ opc' = [opc EXCEPT ![c] = "idle"]
    /\ chans' = <<c>> \o chans
    /\ UNCHANGED <<chanVars, queued, io_running, load, picks, turn, pinflight,
                   stopping, freed, workerVars, ojob, budget>>

InFlight(id) ==
    \/ \E c \in Chan, k \in Class : \E i \in DOMAIN queue[c][k] : queue[c][k][i].id = id
    \/ \E c \in Chan : \E i \in DOMAIN cdone[c] : cdone[c][i].id = id
    \/ \E w \in Worker : wpc[w] = "work" /\ wjob[w].id = id
    \/ \E c \in Chan : opc[c] = "done" /\ ojob[c].id = id

\* Mutant: the bound on inflight is off by one.
SubmitOneMore(c, id, k) ==
    /\ opc[c] \in {"idle", "done"}
    /\ ~InFlight(id)
    /\ ~stopping /\ ~closing[c] /\ inflight[c] <= Cap
    /\ k = CPU => CpuRoom
    /\ load' = [load EXCEPT ![k] = @ + 1]
    /\ queue' = [queue EXCEPT ![c][k] = Append(@, [id |-> id, ch |-> c, cls |-> k])]
    /\ queued' = [queued EXCEPT ![k] = @ + 1]
    /\ pinflight' = pinflight + 1
    /\ inflight' = [inflight EXCEPT ![c] = @ + 1]
    /\ SignalCv
    /\ UNCHANGED <<chans, cdone, wake_pending, wakefd, running, closing,
                   io_running, picks, turn, stopping, freed, wjob, ownerVars>>

\* pool_submit, from the loop or from a done callback.  A refused submission
\* (EAGAIN, EBUSY) changes nothing.
Submit(c, id, k) ==
    /\ opc[c] \in {"idle", "done"}
    /\ ~InFlight(id)
    /\ ~stopping /\ ~closing[c] /\ inflight[c] < Cap
    /\ k = CPU => CpuRoom
    /\ load' = [load EXCEPT ![k] = @ + 1]
    /\ queue' = [queue EXCEPT ![c][k] = Append(@, [id |-> id, ch |-> c, cls |-> k])]
    /\ queued' = [queued EXCEPT ![k] = @ + 1]
    /\ pinflight' = pinflight + 1
    /\ inflight' = [inflight EXCEPT ![c] = @ + 1]
    /\ SignalCv
    /\ UNCHANGED <<chans, cdone, wake_pending, wakefd, running, closing,
                   io_running, picks, turn, stopping, freed, wjob, ownerVars>>

\* dyn_pool_drain up to the first unlock: the wake is consumed, the budget is
\* what is complete now, and the first completion is popped.
PopDone(c) ==
    /\ ojob' = [ojob EXCEPT ![c] = Head(cdone[c])]
    /\ cdone' = [cdone EXCEPT ![c] = Tail(@)]
    /\ inflight' = [inflight EXCEPT ![c] = @ - 1]
    /\ pinflight' = pinflight - 1
    /\ opc' = [opc EXCEPT ![c] = "done"]

DrainBegin(c) ==
    /\ opc[c] = "idle"
    /\ wakefd' = [wakefd EXCEPT ![c] = IF wake_pending[c] THEN 0 ELSE @]
    /\ wake_pending' = [wake_pending EXCEPT ![c] = FALSE]
    /\ \/ /\ cdone[c] = <<>>
          /\ UNCHANGED <<cdone, inflight, pinflight, ownerVars>>
       \/ /\ cdone[c] # <<>>
          /\ PopDone(c)
          /\ budget' = [budget EXCEPT ![c] = Len(cdone[c]) - 1]
    /\ UNCHANGED <<queue, running, closing, chans, queued, io_running, load,
                   picks, turn, stopping, freed, workerVars>>

\* The callback returned within the time slice: on to the next completion.
DrainNext(c) ==
    /\ opc[c] = "done"
    /\ budget[c] > 0
    /\ cdone[c] # <<>>
    /\ PopDone(c)
    /\ budget' = [budget EXCEPT ![c] = @ - 1]
    /\ UNCHANGED <<queue, wake_pending, wakefd, running, closing, chans, queued,
                   io_running, load, picks, turn, stopping, freed, workerVars>>

\* Mutant: what the slice left over is not announced again.
DrainEndSilent(c) ==
    /\ opc[c] = "done"
    /\ opc' = [opc EXCEPT ![c] = "idle"]
    /\ ojob' = [ojob EXCEPT ![c] = NULL]
    /\ budget' = [budget EXCEPT ![c] = 0]
    /\ UNCHANGED <<chanVars, poolVars, workerVars>>

\* The callback returned and the slice is over, or there is nothing left of
\* the budget: what remains complete is announced again.  (The clock is not
\* modelled, so the slice may end after any callback.)
DrainEnd(c) ==
    /\ opc[c] = "done"
    /\ opc' = [opc EXCEPT ![c] = "idle"]
    /\ ojob' = [ojob EXCEPT ![c] = NULL]
    /\ budget' = [budget EXCEPT ![c] = 0]
    /\ \/ cdone[c] # <<>> /\ SignalChan(c)
       \/ cdone[c] = <<>> /\ UNCHANGED <<wake_pending, wakefd>>
    /\ UNCHANGED <<queue, cdone, inflight, running, closing, poolVars, workerVars>>

\* dyn_pool_chan_free.  The owner waits until no job of the channel is queued
\* or running, then unlinks the channel; completions never drained are lost.
Busy(c) == running[c] > 0 \/ inflight[c] > Len(cdone[c])

\* The list, the cursors and the pool's count when the channel at i goes.
\* Mutants: a cursor keeps pointing at it; its undrained jobs stay counted.
UnlinkStaleTurn(i) ==
    /\ chans' = RemoveAt(chans, i)
    /\ pinflight' = pinflight - inflight[chans[i]]
    /\ UNCHANGED turn

UnlinkUncounted(i) ==
    /\ chans' = RemoveAt(chans, i)
    /\ turn' = [k \in Class |-> IF turn[k] = chans[i] THEN Next_(i) ELSE turn[k]]
    /\ UNCHANGED pinflight

UnlinkAt(i) ==
    /\ chans' = RemoveAt(chans, i)
    /\ turn' = [k \in Class |-> IF turn[k] = chans[i] THEN Next_(i) ELSE turn[k]]
    /\ pinflight' = pinflight - inflight[chans[i]]

Unlink(c) ==
    /\ \E i \in DOMAIN chans : chans[i] = c /\ UnlinkAt(i)
    /\ queue' = [queue EXCEPT ![c] = [k \in Class |-> <<>>]]
    /\ cdone' = [cdone EXCEPT ![c] = <<>>]
    /\ wake_pending' = [wake_pending EXCEPT ![c] = FALSE]
    /\ wakefd' = [wakefd EXCEPT ![c] = 0]
    /\ inflight' = [inflight EXCEPT ![c] = 0]
    /\ running' = [running EXCEPT ![c] = 0]
    /\ closing' = [closing EXCEPT ![c] = FALSE]
    /\ opc' = [opc EXCEPT ![c] = "none"]
    /\ UNCHANGED <<queued, io_running, load, picks, stopping, freed, workerVars,
                   ojob, budget>>

CloseBegin(c) ==
    /\ opc[c] = "idle"
    /\ ~Busy(c)
    /\ Unlink(c)

CloseWait(c) ==
    /\ opc[c] = "idle"
    /\ Busy(c)
    /\ closing' = [closing EXCEPT ![c] = TRUE]
    /\ opc' = [opc EXCEPT ![c] = "cwait"]
    /\ UNCHANGED <<queue, cdone, wake_pending, wakefd, inflight, running,
                   poolVars, workerVars, ojob, budget>>

CloseRecheck(c) ==
    /\ opc[c] = "cready"
    /\ \/ ~Busy(c) /\ Unlink(c)
       \/ /\ Busy(c)
          /\ opc' = [opc EXCEPT ![c] = "cwait"]
          /\ UNCHANGED <<chanVars, poolVars, workerVars, ojob, budget>>

SpuriousQuiesce(c) ==
    /\ opc[c] = "cwait"
    /\ opc' = [opc EXCEPT ![c] = "cready"]
    /\ UNCHANGED <<chanVars, poolVars, workerVars, ojob, budget>>

-----------------------------------------------------------------------------
(* dyn_pool_free *)

Stop ==
    /\ ~stopping
    /\ stopping' = TRUE
    /\ wpc' = Awakened(wpc)
    /\ UNCHANGED <<chanVars, chans, queued, io_running, load, picks, turn,
                   pinflight, freed, wjob, ownerVars>>

\* Every thread is joined; the channels still linked are freed with the pool.
\* No owner may be inside a call then: that is the caller's obligation.
PoolFree ==
    /\ stopping /\ ~freed
    /\ \A w \in Worker : wpc[w] = "exit"
    /\ \A c \in Chan : opc[c] \in {"none", "idle"}
    /\ freed' = TRUE
    /\ chans' = <<>>
    /\ turn' = [k \in Class |-> NULL]
    /\ queue' = [c \in Chan |-> [k \in Class |-> <<>>]]
    /\ cdone' = [c \in Chan |-> <<>>]
    /\ wake_pending' = [c \in Chan |-> FALSE]
    /\ wakefd' = [c \in Chan |-> 0]
    /\ inflight' = [c \in Chan |-> 0]
    /\ pinflight' = 0
    /\ opc' = [c \in Chan |-> "none"]
    /\ UNCHANGED <<running, closing, queued, io_running, load, picks, stopping,
                   workerVars, ojob, budget>>

\* Nothing happens to a pool that is freed.
Terminated == freed /\ UNCHANGED vars

-----------------------------------------------------------------------------
\* dyn_pool_new: the threads start, and there is no channel yet.
Init ==
    /\ chans = <<>>
    /\ queue = [c \in Chan |-> [k \in Class |-> <<>>]]
    /\ cdone = [c \in Chan |-> <<>>]
    /\ wake_pending = [c \in Chan |-> FALSE]
    /\ wakefd = [c \in Chan |-> 0]
    /\ inflight = [c \in Chan |-> 0]
    /\ running = [c \in Chan |-> 0]
    /\ closing = [c \in Chan |-> FALSE]
    /\ queued = [k \in Class |-> 0]
    /\ io_running = 0
    /\ load = [k \in Class |-> 0]
    /\ picks = 0
    /\ turn = [k \in Class |-> NULL]
    /\ pinflight = 0
    /\ stopping = FALSE
    /\ freed = FALSE
    /\ wpc = [w \in Worker |-> "awake"]
    /\ wjob = [w \in Worker |-> NULL]
    /\ opc = [c \in Chan |-> "none"]
    /\ ojob = [c \in Chan |-> NULL]
    /\ budget = [c \in Chan |-> 0]

WorkerStep(w) ==
    Take(w) \/ Sleep(w) \/ SpuriousWake(w) \/ Exit(w) \/ Finish(w)

OwnerStep(c) ==
    \/ ChanNew(c)
    \/ \E id \in JobId, k \in Class : Submit(c, id, k)
    \/ DrainBegin(c) \/ DrainNext(c) \/ DrainEnd(c)
    \/ CloseBegin(c) \/ CloseWait(c) \/ CloseRecheck(c) \/ SpuriousQuiesce(c)

Next ==
    \/ \E w \in Worker : WorkerStep(w)
    \/ \E c \in Chan : OwnerStep(c)
    \/ Stop
    \/ PoolFree
    \/ Terminated

Spec == Init /\ [][Next]_vars

-----------------------------------------------------------------------------
(* Safety *)

Live == {c \in Chan : opc[c] # "none"}
Runners(c) == {w \in Worker : wpc[w] = "work" /\ wjob[w].ch = c}
ClassRunners(k) == {w \in Worker : wpc[w] = "work" /\ wjob[w].cls = k}
Awake == {w \in Worker : wpc[w] = "awake"}

QueueLen(c) == Len(queue[c][IO]) + Len(queue[c][CPU])

\* The channel counters agree with the rings and the threads: running counts
\* the threads inside a job of the channel, and inflight the jobs queued,
\* running or complete.  dyn_pool_chan_free decides on these numbers alone
\* when the memory under the workers may go.
ChanAccounting ==
    \A c \in Chan :
        /\ running[c] = Cardinality(Runners(c))
        /\ inflight[c] = QueueLen(c) + running[c] + Len(cdone[c])

\* What makes the channel invariants inductive: a queue holds jobs of its own
\* channel and class, the closing flag is set exactly while the owner is in
\* dyn_pool_chan_free, and an absent channel is as calloc leaves it.
QueuesOwn ==
    \A c \in Chan, k \in Class : \A i \in DOMAIN queue[c][k] :
        queue[c][k][i].ch = c /\ queue[c][k][i].cls = k

DoorsAgree ==
    \A c \in Chan :
        /\ closing[c] <=> opc[c] \in {"cwait", "cready"}
        /\ opc[c] = "none" => inflight[c] = 0 /\ cdone[c] = <<>> /\ wakefd[c] = 0

QueueLens(k) == [c \in Chan |-> Len(queue[c][k])]

\* The pool counters agree with the channels across creation, close and drain:
\* queued promises pool_next_chan_locked that its walk ends, load and
\* io_running gate admission, and no unsigned subtraction goes below zero.
PoolAccounting ==
    /\ \A k \in Class :
         /\ queued[k] = SumFunctionOnSet(QueueLens(k), Live)
         /\ load[k] = queued[k] + Cardinality(ClassRunners(k))
    /\ io_running = Cardinality(ClassRunners(IO))
    /\ pinflight = SumFunctionOnSet(inflight, Live)

\* The index arithmetic modulo cap never overwrites a job: the bound on
\* inflight that pool_submit checks covers all three rings of a channel.
RingsFit ==
    \A c \in Chan :
        /\ inflight[c] \in 0..Cap
        /\ QueueLen(c) + Len(cdone[c]) <= Cap

\* No pointer outlives its channel: the job a worker is running belongs to a
\* linked channel, the round-robin cursors point into the list, and the list
\* holds each live channel once.
NoDanglingChan ==
    /\ \A w \in Worker : wpc[w] = "work" => wjob[w].ch \in Live
    /\ \A k \in Class : turn[k] # NULL => turn[k] \in Live
    /\ \A c \in Live : \E i \in DOMAIN chans : chans[i] = c
    /\ \A i, m \in DOMAIN chans : chans[i] \in Live /\ (chans[i] = chans[m] => i = m)

\* No completion is stranded: whenever the owner is back in its loop and
\* completions wait, the eventfd is readable and marked so.
WakeNotLost ==
    \A c \in Chan :
        /\ wake_pending[c] <=> wakefd[c] = 1
        /\ opc[c] = "idle" /\ cdone[c] # <<>> => wake_pending[c]

\* The jobs that pool_pick_class_locked would hand out now.
Eligible ==
    LET io == IF stopping \/ queued[IO] <= IoLimit - io_running
              THEN queued[IO]
              ELSE IoLimit - io_running
    IN  queued[CPU] + io

\* No thread sleeps while there is work for it: a thread sleeps on cv only if
\* the threads already awake are enough for every job that may run.  One
\* signal per submission is enough because a finishing thread looks again.
WorkConserving ==
    (\E w \in Worker : wpc[w] = "wait") => Eligible <= Cardinality(Awake)

\* An owner asleep in dyn_pool_chan_free still has a job queued or running,
\* and so a quiesce broadcast to come.
CloseNotStuck == \A c \in Chan : opc[c] = "cwait" => Busy(c)

\* dyn_pool_free joins its threads only after every accepted job has run.
StopDrains ==
    (\A w \in Worker : wpc[w] = "exit") => \A c \in Chan, k \in Class : queue[c][k] = <<>>

\* The inductive invariant behind ThreadPoolProofs.
ChanInv ==
    TypeOK /\ QueuesOwn /\ DoorsAgree /\ ChanAccounting /\ RingsFit

-----------------------------------------------------------------------------
(* Liveness *)

\* Threads are scheduled and get the mutex; the loop polls and its callbacks
\* return; a wake-up of a condition variable is acted on.  Nobody is obliged
\* to submit, to drain without a wake, or to close.
SchedulerFairness ==
    /\ \A w \in Worker : WF_vars(Take(w) \/ Sleep(w) \/ Exit(w))
    /\ \A c \in Chan :
         /\ WF_vars(wakefd[c] > 0 /\ DrainBegin(c))
         /\ WF_vars(DrainNext(c) \/ DrainEnd(c))
         /\ WF_vars(CloseRecheck(c))

\* Every job's work function returns.
JobFairness == \A w \in Worker : WF_vars(Finish(w))

FairSpec == Spec /\ SchedulerFairness /\ JobFairness

IsQueued(id, k) == \E c \in Chan : \E i \in DOMAIN queue[c][k] : queue[c][k][i].id = id
IsComplete(id) == \E c \in Chan : \E i \in DOMAIN cdone[c] : cdone[c][i].id = id

\* Every accepted job is run, whatever is submitted after it on this and on
\* the other channels and classes.
JobsRun == \A id \in JobId, k \in Class : IsQueued(id, k) ~> ~IsQueued(id, k)

\* Every completion is reported, or its channel is closed.
JobsReported == \A id \in JobId : IsComplete(id) ~> ~IsComplete(id)

-----------------------------------------------------------------------------
(* The pool implements JobService *)

JobsIn(s) == {s[i] : i \in DOMAIN s}
QueuedJobs == UNION {JobsIn(queue[c][k]) : c \in Chan, k \in Class}
RunningJobs == {wjob[w] : w \in {v \in Worker : wpc[v] = "work"}}
FinishedJobs == UNION {JobsIn(cdone[c]) : c \in Chan}
ReportedJobs == {ojob[c] : c \in {d \in Chan : opc[d] = "done"}}
Has(S, id) == \E j \in S : j.id = id

statusBar == [id \in JobId |->
    CASE Has(QueuedJobs, id) -> "queued"
      [] Has(RunningJobs, id) -> "running"
      [] Has(FinishedJobs, id) -> "finished"
      [] Has(ReportedJobs, id) -> "reporting"
      [] OTHER -> "idle"]
ownerBar == [id \in JobId |->
    LET S == {j \in QueuedJobs \cup RunningJobs \cup FinishedJobs \cup ReportedJobs : j.id = id}
    IN  IF S = {} THEN NULL ELSE (CHOOSE j \in S : TRUE).ch]
doorBar == [c \in Chan |->
    CASE opc[c] = "none" -> "absent"
      [] opc[c] \in {"cwait", "cready"} -> "closing"
      [] OTHER -> "open"]

Service == INSTANCE JobService WITH status <- statusBar, owner <- ownerBar, door <- doorBar

\* Threads, rings, wake-ups and the two-phase close add up to the promise of
\* JobService: run once, report at most once, nothing after close.
ImplementsJobService == Service!Spec
=============================================================================
