-------------------------- MODULE ThreadPoolProofs --------------------------
(***************************************************************************)
(* ThreadPool for every number of threads, channels and jobs.  First type  *)
(* correctness and the exactness of the channel counters (the inductive    *)
(* invariant is ChanInv, its counting part Counted(c)); then what they     *)
(* protect: no pointer outlives its channel, an owner in                   *)
(* dyn_pool_chan_free always has a wake-up to come, and no completion is   *)
(* left without a wake-up.  Then the pool's own counters, which are sums   *)
(* over channels and threads, what dyn_pool_free leaves undone (nothing),  *)
(* and that no thread sleeps beside work it could take.  Last, every job   *)
(* is in one place at a time, from which the pool is shown to implement    *)
(* JobService.                                                             *)
(***************************************************************************)
EXTENDS ThreadPool, TLAPS, FiniteSetTheorems, SequenceTheorems, WellFoundedInduction

\* The two classes differ, and the scheduler picks one of them or none.
LEMMA ClassFacts == IO \in Class /\ CPU \in Class /\ IO # CPU /\ PickClass \in Class \cup {NoClass}
BY DEF IO, CPU, NoClass, Class, PickClass

\* ch->next is a channel or NULL.
LEMMA NextType ==
  ASSUME chans \in Seq(Chan), NEW i \in DOMAIN chans
  PROVE  Next_(i) \in Chan \cup {NULL} /\ chans[i] \in Chan
<1>1. i \in 1..Len(chans)
  OBVIOUS
<1>2. CASE i < Len(chans)
  <2>1. i + 1 \in 1..Len(chans)
    BY <1>1, <1>2
  <2> QED
    BY <1>1, <1>2, <2>1 DEF Next_
<1>3. CASE ~(i < Len(chans))
  BY <1>1, <1>3 DEF Next_
<1> QED
  BY <1>2, <1>3

\* Removing one element of a sequence leaves a sequence of the others.
LEMMA RemoveAtType ==
  ASSUME NEW S, NEW s \in Seq(S), NEW i \in DOMAIN s
  PROVE  RemoveAt(s, i) \in Seq(S)
<1>1. i \in 1..Len(s) /\ Len(s) \in Nat
  OBVIOUS
<1>2. SubSeq(s, 1, i - 1) \in Seq(S) /\ SubSeq(s, i + 1, Len(s)) \in Seq(S)
  BY <1>1, SubSeqProperties
<1> QED
  BY <1>2 DEF RemoveAt

\* pthread_cond_signal starts and stops no job.
LEMMA SignalCvType ==
  ASSUME TypeOK, SignalCv
  PROVE  /\ wpc' \in [Worker -> {"awake", "wait", "work", "exit"}]
         /\ \A w \in Worker : wpc'[w] = "work" <=> wpc[w] = "work"
BY DEF TypeOK, SignalCv

\* pthread_cond_broadcast starts and stops no job.
LEMMA AwakenedType ==
  ASSUME NEW pc \in [Worker -> {"awake", "wait", "work", "exit"}]
  PROVE  /\ Awakened(pc) \in [Worker -> {"awake", "wait", "work", "exit"}]
         /\ \A w \in Worker : Awakened(pc)[w] = "work" <=> pc[w] = "work"
BY DEF Awakened

\* chan_signal_locked keeps the types of the flag and the counter.
LEMMA SignalChanType ==
  ASSUME TypeOK, NEW c \in Chan, SignalChan(c)
  PROVE  wakefd' \in [Chan -> Nat] /\ wake_pending' \in [Chan -> BOOLEAN]
<1>1. wakefd' \in [Chan -> Nat]
  BY DEF TypeOK, SignalChan
<1>2. wake_pending' \in [Chan -> BOOLEAN]
  BY DEF TypeOK, SignalChan
<1> QED
  BY <1>1, <1>2

-----------------------------------------------------------------------------
(* Types *)

\* dyn_pool_new yields a well-typed pool.
LEMMA TypeInit == Init => TypeOK
<1> SUFFICES ASSUME Init PROVE TypeOK
  OBVIOUS
<1>1. chans \in Seq(Chan) /\ cdone \in [Chan -> Seq(Job)]
  BY DEF Init
<1>2. queue \in [Chan -> [Class -> Seq(Job)]]
  BY DEF Init
<1>3. wpc \in [Worker -> {"awake", "wait", "work", "exit"}] /\ \A w \in Worker : wpc[w] # "work"
  BY DEF Init
<1>4. /\ wake_pending \in [Chan -> BOOLEAN] /\ closing \in [Chan -> BOOLEAN]
      /\ stopping \in BOOLEAN /\ freed \in BOOLEAN
  BY Zenon DEF Init
<1>5. /\ wakefd \in [Chan -> Nat] /\ inflight \in [Chan -> Int] /\ running \in [Chan -> Int]
      /\ queued \in [Class -> Int] /\ io_running \in Int /\ load \in [Class -> Int]
      /\ picks \in {0, 1} /\ pinflight \in Int /\ budget \in [Chan -> Nat]
  BY DEF Init
<1>6. /\ turn \in [Class -> Chan \cup {NULL}] /\ wjob \in [Worker -> Job \cup {NULL}]
      /\ ojob \in [Chan -> Job \cup {NULL}]
      /\ opc \in [Chan -> {"none", "idle", "done", "cwait", "cready"}]
  BY DEF Init
<1> QED
  BY Zenon, <1>1, <1>2, <1>3, <1>4, <1>5, <1>6 DEF TypeOK

\* A worker that takes a job.
LEMMA TypeTake ==
  ASSUME TypeOK, NEW w \in Worker, Take(w)
  PROVE  TypeOK'
<1>1. PICK i \in DOMAIN chans :
        LET k == PickClass
            c == chans[i] IN
         /\ IsNextChan(k, i)
         /\ turn' = [turn EXCEPT ![k] = Next_(i)]
         /\ queue' = [queue EXCEPT ![c][k] = Tail(@)]
         /\ wjob' = [wjob EXCEPT ![w] = Head(queue[c][k])]
         /\ queued' = [queued EXCEPT ![k] = @ - 1]
         /\ io_running' = IF k = IO THEN io_running + 1 ELSE io_running
         /\ running' = [running EXCEPT ![c] = @ + 1]
  BY DEF Take
<1> DEFINE k == PickClass
           c == chans[i]
<1>2. k \in Class /\ c \in Chan
  BY ClassFacts DEF Take, TypeOK
<1>3. Next_(i) \in Chan \cup {NULL}
  BY NextType DEF TypeOK
<1>4. queue[c][k] # <<>> /\ queue[c][k] \in Seq(Job)
  BY <1>1, <1>2 DEF IsNextChan, TypeOK
<1>5. Head(queue[c][k]) \in Job /\ Tail(queue[c][k]) \in Seq(Job)
  BY <1>4
<1>6. queue' \in [Chan -> [Class -> Seq(Job)]]
  BY <1>1, <1>2, <1>5 DEF TypeOK
<1>7. turn' \in [Class -> Chan \cup {NULL}]
  BY <1>1, <1>2, <1>3 DEF TypeOK
<1>8. wjob' \in [Worker -> Job \cup {NULL}] /\ wpc' \in [Worker -> {"awake", "wait", "work", "exit"}]
  BY <1>1, <1>5 DEF TypeOK, Take
<1>9. \A v \in Worker : wpc'[v] = "work" => wjob'[v] \in Job
  BY <1>1, <1>5 DEF TypeOK, Take
<1>10. queued' \in [Class -> Int] /\ io_running' \in Int /\ running' \in [Chan -> Int]
  <2>1. queued' \in [Class -> Int] /\ running' \in [Chan -> Int]
    <3>1. queued[k] \in Int /\ running[c] \in Int
      BY <1>2 DEF TypeOK
    <3>2. queued[k] - 1 \in Int /\ running[c] + 1 \in Int
      BY <3>1
    <3> QED
      BY Zenon, <1>1, <1>2, <3>2 DEF TypeOK
  <2>2. io_running + 1 \in Int /\ io_running \in Int
    BY DEF TypeOK
  <2> QED
    BY <1>1, <2>1, <2>2
<1>11. picks' \in {0, 1}
  <2>1. picks \in {0, 1} /\ 1 - picks \in {0, 1}
    BY DEF TypeOK
  <2> QED
    BY Zenon, <2>1 DEF Take
<1> QED
  BY <1>6, <1>7, <1>8, <1>9, <1>10, <1>11 DEF TypeOK, Take, ownerVars

\* The steps of a worker that only move it.
LEMMA TypeMove ==
  ASSUME TypeOK, NEW w \in Worker, Sleep(w) \/ SpuriousWake(w) \/ Exit(w)
  PROVE  TypeOK'
BY DEF TypeOK, Sleep, SpuriousWake, Exit, chanVars, poolVars, ownerVars

\* A worker that has run its job.
LEMMA TypeFinish ==
  ASSUME TypeOK, NEW w \in Worker, Finish(w)
  PROVE  TypeOK'
<1> DEFINE j == wjob[w]
           back == [wpc EXCEPT ![w] = "awake"]
<1>1. j \in Job /\ j.ch \in Chan /\ j.cls \in Class
  BY DEF TypeOK, Finish, Job
<1>2. back \in [Worker -> {"awake", "wait", "work", "exit"}]
  BY DEF TypeOK
<1>3. /\ wpc' \in [Worker -> {"awake", "wait", "work", "exit"}]
      /\ \A v \in Worker : wpc'[v] = "work" => v # w /\ wpc[v] = "work"
  BY <1>2, AwakenedType DEF Finish, TypeOK
<1>4. /\ wjob' \in [Worker -> Job \cup {NULL}]
      /\ \A v \in Worker : wpc'[v] = "work" => wjob'[v] \in Job
  BY <1>3 DEF Finish, TypeOK
<1>5. load' \in [Class -> Int] /\ io_running' \in Int /\ running' \in [Chan -> Int]
  <2>1. load' \in [Class -> Int] /\ running' \in [Chan -> Int]
    <3>1. load[j.cls] - 1 \in Int /\ running[j.ch] - 1 \in Int
      BY <1>1 DEF TypeOK
    <3> QED
      BY Zenon, <1>1, <3>1 DEF Finish, TypeOK
  <2>2. io_running - 1 \in Int /\ io_running \in Int
    BY DEF TypeOK
  <2> QED
    BY <2>1, <2>2 DEF Finish
<1>6. /\ cdone' \in [Chan -> Seq(Job)] /\ wakefd' \in [Chan -> Nat]
      /\ wake_pending' \in [Chan -> BOOLEAN] /\ inflight' \in [Chan -> Int]
      /\ pinflight' \in Int /\ opc' \in [Chan -> {"none", "idle", "done", "cwait", "cready"}]
  <2>1. CASE closing[j.ch] /\ FinishClosing(j.ch)
    BY <1>1, <2>1 DEF FinishClosing, BroadcastQuiesce, TypeOK
  <2>2. CASE ~closing[j.ch] /\ FinishOpen(j.ch, j)
    <3>1. wakefd' \in [Chan -> Nat] /\ wake_pending' \in [Chan -> BOOLEAN]
      BY <1>1, <2>2, SignalChanType DEF FinishOpen
    <3>2. cdone' \in [Chan -> Seq(Job)]
      BY <1>1, <2>2 DEF FinishOpen, TypeOK
    <3> QED
      BY <2>2, <3>1, <3>2 DEF FinishOpen, TypeOK
  <2> QED
    BY <2>1, <2>2 DEF Finish
<1> QED
  BY <1>3, <1>4, <1>5, <1>6 DEF TypeOK, Finish

\* dyn_pool_chan_new keeps the types.
LEMMA TypeChanNew ==
  ASSUME TypeOK, NEW c \in Chan, ChanNew(c)
  PROVE  TypeOK'
<1>1. chans' \in Seq(Chan)
  BY DEF TypeOK, ChanNew
<1> QED
  BY <1>1 DEF TypeOK, ChanNew, chanVars, workerVars

\* pool_submit keeps the types.
LEMMA TypeSubmit ==
  ASSUME TypeOK, NEW c \in Chan, NEW id \in JobId, NEW k \in Class, Submit(c, id, k)
  PROVE  TypeOK'
<1>1. [id |-> id, ch |-> c, cls |-> k] \in Job
  BY DEF Job
<1>2. queue' \in [Chan -> [Class -> Seq(Job)]]
  BY <1>1 DEF TypeOK, Submit
<1>3. load' \in [Class -> Int] /\ queued' \in [Class -> Int] /\ pinflight' \in Int /\ inflight' \in [Chan -> Int]
  BY DEF TypeOK, Submit
<1>4. /\ wpc' \in [Worker -> {"awake", "wait", "work", "exit"}]
      /\ \A w \in Worker : wpc'[w] = "work" <=> wpc[w] = "work"
  BY SignalCvType DEF Submit
<1> QED
  BY <1>2, <1>3, <1>4 DEF TypeOK, Submit, ownerVars

\* Popping a completion keeps the types it touches.
LEMMA PopDoneType ==
  ASSUME TypeOK, NEW c \in Chan, PopDone(c), cdone[c] # <<>>
  PROVE  /\ ojob' \in [Chan -> Job \cup {NULL}] /\ cdone' \in [Chan -> Seq(Job)]
         /\ inflight' \in [Chan -> Int] /\ pinflight' \in Int
         /\ opc' \in [Chan -> {"none", "idle", "done", "cwait", "cready"}]
<1>1. cdone[c] \in Seq(Job)
  BY DEF TypeOK
<1>2. Head(cdone[c]) \in Job /\ Tail(cdone[c]) \in Seq(Job)
  BY <1>1
<1> QED
  BY <1>2 DEF PopDone, TypeOK

\* The first section of dyn_pool_drain keeps the types.
LEMMA TypeDrainBegin ==
  ASSUME TypeOK, NEW c \in Chan, DrainBegin(c)
  PROVE  TypeOK'
<1>1. wakefd' \in [Chan -> Nat] /\ wake_pending' \in [Chan -> BOOLEAN]
  <2>1. wakefd' \in [Chan -> Nat]
    BY DEF TypeOK, DrainBegin
  <2>2. wake_pending' \in [Chan -> BOOLEAN]
    BY DEF TypeOK, DrainBegin
  <2> QED
    BY <2>1, <2>2
<1>2. CASE cdone[c] = <<>>
  BY <1>1, <1>2 DEF TypeOK, DrainBegin, ownerVars, workerVars
<1>3. CASE cdone[c] # <<>>
  <2>1. PopDone(c) /\ budget' = [budget EXCEPT ![c] = Len(cdone[c]) - 1]
    BY <1>3 DEF DrainBegin
  <2>2. Len(cdone[c]) - 1 \in Nat
    BY <1>3 DEF TypeOK
  <2>3. budget' \in [Chan -> Nat]
    BY <2>1, <2>2 DEF TypeOK
  <2> QED
    BY <1>1, <1>3, <2>1, <2>3, PopDoneType DEF TypeOK, DrainBegin, workerVars
<1> QED
  BY <1>2, <1>3

\* The loop of dyn_pool_drain keeps the types; its budget stays natural.
LEMMA TypeDrainNext ==
  ASSUME TypeOK, NEW c \in Chan, DrainNext(c)
  PROVE  TypeOK'
<1>1. budget' \in [Chan -> Nat]
  BY DEF TypeOK, DrainNext
<1> QED
  BY <1>1, PopDoneType DEF TypeOK, DrainNext, workerVars

\* The end of dyn_pool_drain keeps the types.
LEMMA TypeDrainEnd ==
  ASSUME TypeOK, NEW c \in Chan, DrainEnd(c)
  PROVE  TypeOK'
<1>1. wakefd' \in [Chan -> Nat] /\ wake_pending' \in [Chan -> BOOLEAN]
  BY SignalChanType DEF TypeOK, DrainEnd
<1> QED
  BY <1>1 DEF TypeOK, DrainEnd, poolVars, workerVars

\* Unlinking leaves a list, and cursors that are channels or NULL.
LEMMA UnlinkChans ==
  ASSUME TypeOK, NEW c \in Chan, Unlink(c)
  PROVE  /\ chans' \in Seq(Chan) /\ turn' \in [Class -> Chan \cup {NULL}]
         /\ pinflight' = pinflight - inflight[c]
<1>1. PICK i \in DOMAIN chans : chans[i] = c /\ UnlinkAt(i)
  BY DEF Unlink
<1>2. chans' \in Seq(Chan)
  BY <1>1, RemoveAtType DEF UnlinkAt, TypeOK
<1>3. turn' \in [Class -> Chan \cup {NULL}]
  BY <1>1, NextType DEF UnlinkAt, TypeOK
<1> QED
  BY <1>1, <1>2, <1>3 DEF UnlinkAt

\* The last part of dyn_pool_chan_free keeps the types.
LEMMA TypeUnlink ==
  ASSUME TypeOK, NEW c \in Chan, Unlink(c)
  PROVE  TypeOK'
<1>1. queue' \in [Chan -> [Class -> Seq(Job)]] /\ cdone' \in [Chan -> Seq(Job)]
  <2>1. [k \in Class |-> <<>>] \in [Class -> Seq(Job)] /\ <<>> \in Seq(Job)
    OBVIOUS
  <2> QED
    BY Zenon, <2>1 DEF TypeOK, Unlink
<1>2. wake_pending' \in [Chan -> BOOLEAN] /\ closing' \in [Chan -> BOOLEAN]
  BY DEF TypeOK, Unlink
<1>3. pinflight' \in Int /\ chans' \in Seq(Chan) /\ turn' \in [Class -> Chan \cup {NULL}]
  BY UnlinkChans DEF TypeOK
<1>4. /\ wakefd' \in [Chan -> Nat] /\ inflight' \in [Chan -> Int] /\ running' \in [Chan -> Int]
      /\ opc' \in [Chan -> {"none", "idle", "done", "cwait", "cready"}]
  BY DEF TypeOK, Unlink
<1> QED
  BY <1>1, <1>2, <1>3, <1>4 DEF TypeOK, Unlink, workerVars

\* The sections of dyn_pool_chan_free keep the types.
LEMMA TypeClose ==
  ASSUME TypeOK, NEW c \in Chan,
         CloseBegin(c) \/ CloseWait(c) \/ CloseRecheck(c) \/ SpuriousQuiesce(c)
  PROVE  TypeOK'
<1>1. CASE Unlink(c)
  BY <1>1, TypeUnlink
<1>2. CASE CloseWait(c)
  <2>1. closing' \in [Chan -> BOOLEAN]
    BY <1>2 DEF TypeOK, CloseWait
  <2> QED
    BY <1>2, <2>1 DEF TypeOK, CloseWait, poolVars, workerVars
<1>3. CASE opc[c] = "cready" /\ opc' = [opc EXCEPT ![c] = "cwait"]
           /\ UNCHANGED <<chanVars, poolVars, workerVars, ojob, budget>>
  BY <1>3 DEF TypeOK, chanVars, poolVars, workerVars
<1>4. CASE SpuriousQuiesce(c)
  BY <1>4 DEF TypeOK, SpuriousQuiesce, chanVars, poolVars, workerVars
<1> QED
  BY <1>1, <1>2, <1>3, <1>4 DEF CloseBegin, CloseRecheck

\* The first section of dyn_pool_free keeps the types.
LEMMA TypeStop == ASSUME TypeOK, Stop PROVE TypeOK'
<1>1. stopping' \in BOOLEAN
  BY DEF Stop
<1> QED
  BY <1>1, AwakenedType DEF TypeOK, Stop, chanVars, ownerVars

\* The end of dyn_pool_free keeps the types.
LEMMA TypePoolFree == ASSUME TypeOK, PoolFree PROVE TypeOK'
<1>1. queue' \in [Chan -> [Class -> Seq(Job)]] /\ cdone' \in [Chan -> Seq(Job)] /\ chans' \in Seq(Chan)
  BY DEF PoolFree
<1>2. wake_pending' \in [Chan -> BOOLEAN] /\ freed' \in BOOLEAN
  BY Zenon DEF PoolFree
<1>3. /\ turn' \in [Class -> Chan \cup {NULL}] /\ wakefd' \in [Chan -> Nat] /\ inflight' \in [Chan -> Int]
      /\ pinflight' \in Int /\ opc' \in [Chan -> {"none", "idle", "done", "cwait", "cready"}]
  BY DEF PoolFree
<1> QED
  BY <1>1, <1>2, <1>3 DEF TypeOK, PoolFree, workerVars

\* Every step keeps the types.
LEMMA TypeNext == TypeOK /\ [Next]_vars => TypeOK'
<1> SUFFICES ASSUME TypeOK, [Next]_vars PROVE TypeOK'
  OBVIOUS
<1>1. ASSUME NEW w \in Worker, WorkerStep(w) PROVE TypeOK'
  BY <1>1, TypeTake, TypeMove, TypeFinish DEF WorkerStep
<1>2. ASSUME NEW c \in Chan, OwnerStep(c) PROVE TypeOK'
  BY <1>2, TypeChanNew, TypeSubmit, TypeDrainBegin, TypeDrainNext, TypeDrainEnd, TypeClose
     DEF OwnerStep
<1>3. CASE UNCHANGED vars
  BY <1>3 DEF TypeOK, vars, chanVars, poolVars, workerVars, ownerVars
<1> QED
  BY <1>1, <1>2, <1>3, TypeStop, TypePoolFree DEF Next, Terminated

\* Every variable has its type in every reachable state; drain's budget, in
\* particular, never goes below zero.
THEOREM TypeCorrect == Spec => []TypeOK
BY TypeInit, TypeNext, PTL DEF Spec

-----------------------------------------------------------------------------
(* The channel counters: the memory of a channel outlives its jobs *)

\* The threads inside a job of a channel can be counted.
LEMMA RunnersFinite ==
  ASSUME NEW c
  PROVE  IsFiniteSet(Runners(c)) /\ Cardinality(Runners(c)) \in Nat
BY WorkerAssumption, FS_Subset, FS_CardinalityType DEF Runners

\* A step that starts and ends no job leaves every set of runners alone.
LEMMA RunnersSame ==
  ASSUME \A w \in Worker : wpc'[w] = "work" <=> wpc[w] = "work", wjob' = wjob
  PROVE  \A c \in Chan : Runners(c)' = Runners(c)
BY DEF Runners

\* The two channel invariants in one, per channel.
Counted(c) ==
    /\ running[c] = Cardinality(Runners(c))
    /\ inflight[c] = QueueLen(c) + running[c] + Len(cdone[c])
    /\ inflight[c] \in 0..Cap

\* The lengths and counters of a channel are integers.
LEMMA LenTypes ==
  ASSUME TypeOK, NEW c \in Chan
  PROVE  /\ Len(queue[c][IO]) \in Nat /\ Len(queue[c][CPU]) \in Nat
         /\ QueueLen(c) \in Nat /\ Len(cdone[c]) \in Nat
         /\ inflight[c] \in Int /\ running[c] \in Int
<1>1. queue[c][IO] \in Seq(Job) /\ queue[c][CPU] \in Seq(Job) /\ cdone[c] \in Seq(Job)
  BY ClassFacts DEF TypeOK
<1>2. Len(queue[c][IO]) \in Nat /\ Len(queue[c][CPU]) \in Nat /\ Len(cdone[c]) \in Nat
  BY <1>1
<1>3. QueueLen(c) \in Nat
  <2>1. PICK a \in Nat, b \in Nat : a = Len(queue[c][IO]) /\ b = Len(queue[c][CPU])
    BY Zenon, <1>2
  <2>2. QueueLen(c) = a + b
    BY Zenon, <2>1 DEF QueueLen
  <2>3. a + b \in Nat
    OBVIOUS
  <2> QED
    BY <2>2, <2>3
<1> QED
  BY <1>2, <1>3 DEF TypeOK

\* Counted is what the two invariants say of one channel.
LEMMA CountedIsInvariant ==
  TypeOK => (ChanAccounting /\ RingsFit <=> \A c \in Chan : Counted(c))
<1> SUFFICES ASSUME TypeOK
             PROVE  ChanAccounting /\ RingsFit <=> \A c \in Chan : Counted(c)
  OBVIOUS
<1>1. ASSUME NEW c \in Chan, Counted(c)
      PROVE  QueueLen(c) + Len(cdone[c]) <= Cap
  <2>1. running[c] \in Nat
    BY <1>1, RunnersFinite DEF Counted
  <2>2. QueueLen(c) \in Nat /\ Len(cdone[c]) \in Nat
    BY LenTypes
  <2>3. inflight[c] <= Cap /\ Cap \in Nat
        /\ inflight[c] = QueueLen(c) + running[c] + Len(cdone[c])
    BY <1>1, CapAssumption DEF Counted
  <2> QED
    BY <2>1, <2>2, <2>3
<1> QED
  BY <1>1 DEF ChanAccounting, RingsFit, Counted

\* A channel none of whose counters, rings or runners change stays counted.
LEMMA CountedSame ==
  ASSUME NEW c \in Chan, Counted(c), Runners(c)' = Runners(c),
         running'[c] = running[c], inflight'[c] = inflight[c],
         queue'[c] = queue[c], cdone'[c] = cdone[c]
  PROVE  Counted(c)'
BY DEF Counted, QueueLen

\* A worker inside a job keeps the job's channel alive.
LEMMA RunningIsLive ==
  ASSUME ChanInv, NEW w \in Worker, wpc[w] = "work"
  PROVE  /\ wjob[w] \in Job /\ wjob[w].ch \in Live
         /\ running[wjob[w].ch] >= 1 /\ inflight[wjob[w].ch] >= 1
<1>0. wjob[w] \in Job /\ wjob[w].ch \in Chan
  BY DEF ChanInv, TypeOK, Job
<1>1. PICK c \in Chan : c = wjob[w].ch
  BY <1>0
<1>2. w \in Runners(c)
  BY <1>1 DEF Runners
<1>3. Cardinality(Runners(c)) >= 1
  BY <1>2, RunnersFinite, FS_EmptySet
<1>4. Counted(c)
  BY <1>1, CountedIsInvariant DEF ChanInv
<1>5. running[c] >= 1 /\ inflight[c] >= 1
  <2>1. TypeOK
    BY DEF ChanInv
  <2>2. running[c] >= 1
    BY <1>3, <1>4 DEF Counted
  <2>3. QueueLen(c) \in Nat /\ Len(cdone[c]) \in Nat /\ running[c] \in Int
    BY <2>1, LenTypes
  <2>4. inflight[c] = QueueLen(c) + running[c] + Len(cdone[c])
    BY <1>4 DEF Counted
  <2> QED
    BY <2>2, <2>3, <2>4
<1>6. opc[c] # "none"
  BY <1>5 DEF ChanInv, DoorsAgree
<1> QED
  BY <1>0, <1>1, <1>5, <1>6 DEF Live

\* A worker moves a job from a queue to itself.
LEMMA CountedTake ==
  ASSUME ChanInv, NEW w \in Worker, Take(w)
  PROVE  QueuesOwn' /\ \A d \in Chan : Counted(d)'
<1> USE DEF ChanInv
<1>1. PICK i \in DOMAIN chans :
        LET k == PickClass
            c == chans[i] IN
         /\ IsNextChan(k, i)
         /\ queue' = [queue EXCEPT ![c][k] = Tail(@)]
         /\ wjob' = [wjob EXCEPT ![w] = Head(queue[c][k])]
         /\ running' = [running EXCEPT ![c] = @ + 1]
  BY DEF Take
<1>2. PickClass \in Class /\ chans[i] \in Chan
  BY ClassFacts DEF Take, TypeOK
<1>3. PICK k \in Class, c \in Chan : k = PickClass /\ c = chans[i]
  BY <1>2
<1>4. queue[c][k] # <<>> /\ queue[c][k] \in Seq(Job)
  BY <1>1, <1>3 DEF IsNextChan, TypeOK
<1>5. /\ queue' = [queue EXCEPT ![c][k] = Tail(@)]
      /\ wjob' = [wjob EXCEPT ![w] = Head(queue[c][k])]
      /\ running' = [running EXCEPT ![c] = @ + 1]
  BY <1>1, <1>3
<1>6. Head(queue[c][k]) = queue[c][k][1] /\ 1 \in DOMAIN queue[c][k]
  BY <1>4
<1>7. Head(queue[c][k]).ch = c
  BY <1>6 DEF QueuesOwn
<1>8. QueuesOwn'
  <2> SUFFICES ASSUME NEW d \in Chan, NEW l \in Class, NEW m \in DOMAIN queue'[d][l]
               PROVE  queue'[d][l][m].ch = d /\ queue'[d][l][m].cls = l
    BY DEF QueuesOwn
  <2>1. CASE d = c /\ l = k
    <3>1. queue'[d][l] = Tail(queue[c][k])
      BY <1>5, <2>1 DEF TypeOK
    <3>2. m + 1 \in DOMAIN queue[c][k] /\ queue'[d][l][m] = queue[c][k][m + 1]
      BY <1>4, <3>1
    <3> QED
      BY <2>1, <3>2 DEF QueuesOwn
  <2>2. CASE ~(d = c /\ l = k)
    <3>1. queue'[d][l] = queue[d][l]
      BY <1>5, <2>2 DEF TypeOK
    <3> QED
      BY <3>1 DEF QueuesOwn
  <2> QED
    BY <2>1, <2>2
<1>9. ASSUME NEW d \in Chan PROVE Counted(d)'
  <2>0. Counted(d) /\ wpc[w] = "awake" /\ wpc' = [wpc EXCEPT ![w] = "work"]
        /\ inflight' = inflight /\ cdone' = cdone
    BY CountedIsInvariant DEF Take
  <2>1. CASE d = c
    <3>1. Runners(c)' = Runners(c) \cup {w} /\ w \notin Runners(c)
      BY <1>5, <1>7, <2>0 DEF Runners, TypeOK
    <3>2. Cardinality(Runners(c)') = Cardinality(Runners(c)) + 1
      BY <3>1, RunnersFinite, FS_AddElement
    <3>3. running'[c] = running[c] + 1
      BY <1>5 DEF TypeOK
    <3>4. Len(queue'[c][k]) = Len(queue[c][k]) - 1
          /\ \A l \in Class : l # k => queue'[c][l] = queue[c][l]
      BY <1>4, <1>5 DEF TypeOK
    <3>5. QueueLen(c)' = QueueLen(c) - 1
      <4>0. Len(queue[c][IO]) \in Nat /\ Len(queue[c][CPU]) \in Nat
        BY LenTypes
      <4>1. CASE k = IO
        <5>1. Len(queue'[c][IO]) = Len(queue[c][IO]) - 1 /\ Len(queue'[c][CPU]) = Len(queue[c][CPU])
          BY <3>4, <4>1, ClassFacts
        <5> QED
          BY <4>0, <5>1 DEF QueueLen
      <4>2. CASE k = CPU
        <5>1. Len(queue'[c][CPU]) = Len(queue[c][CPU]) - 1 /\ Len(queue'[c][IO]) = Len(queue[c][IO])
          BY <3>4, <4>2, ClassFacts
        <5> QED
          BY <4>0, <5>1 DEF QueueLen
      <4> QED
        BY <4>1, <4>2 DEF Class
    <3>6. inflight'[c] = inflight[c] /\ Len(cdone'[c]) = Len(cdone[c])
      BY <2>0
    <3>7. /\ running[c] = Cardinality(Runners(c)) /\ inflight[c] \in 0..Cap
          /\ inflight[c] = QueueLen(c) + running[c] + Len(cdone[c])
      BY <2>0, <2>1 DEF Counted
    <3>8. inflight'[c] = QueueLen(c)' + running'[c] + Len(cdone'[c])
      <4>1. QueueLen(c) \in Nat /\ Len(cdone[c]) \in Nat /\ running[c] \in Int
        BY LenTypes
      <4> QED
        BY <3>3, <3>5, <3>6, <3>7, <4>1
    <3> QED
      BY <2>1, <3>2, <3>3, <3>6, <3>7, <3>8 DEF Counted
  <2>2. CASE d # c
    <3>1. Runners(d)' = Runners(d)
      BY <1>5, <1>7, <2>0, <2>2 DEF Runners, TypeOK
    <3>2. running'[d] = running[d] /\ queue'[d] = queue[d]
      BY <1>5, <2>2 DEF TypeOK
    <3> QED
      BY <2>0, <3>1, <3>2, CountedSame
  <2> QED
    BY <2>1, <2>2
<1> QED
  BY <1>8, <1>9

\* A step that touches no ring and no job counter.
LEMMA CountedQuiet ==
  ASSUME ChanInv, UNCHANGED <<queue, cdone, inflight, running, wjob>>,
         \A w \in Worker : wpc'[w] = "work" <=> wpc[w] = "work"
  PROVE  QueuesOwn' /\ \A d \in Chan : Counted(d)'
<1>1. QueuesOwn'
  BY DEF ChanInv, QueuesOwn
<1>2. ASSUME NEW d \in Chan PROVE Counted(d)'
  <2>1. Counted(d)
    BY CountedIsInvariant DEF ChanInv
  <2>2. Runners(d)' = Runners(d)
    BY RunnersSame
  <2> QED
    BY <2>1, <2>2, CountedSame
<1> QED
  BY <1>1, <1>2

\* The rings and counters of one channel change together; what happens to the
\* other channels is nothing.
LEMMA CountedElsewhere ==
  ASSUME ChanInv, NEW c \in Chan,
         \A w \in Worker : wpc'[w] = "work" <=> wpc[w] = "work", wjob' = wjob,
         \A d \in Chan : d # c => /\ running'[d] = running[d] /\ inflight'[d] = inflight[d]
                                  /\ queue'[d] = queue[d] /\ cdone'[d] = cdone[d]
  PROVE  \A d \in Chan : d # c => Counted(d)'
<1> SUFFICES ASSUME NEW d \in Chan, d # c PROVE Counted(d)'
  OBVIOUS
<1>1. Counted(d)
  BY CountedIsInvariant DEF ChanInv
<1>2. Runners(d)' = Runners(d)
  BY RunnersSame
<1> QED
  BY <1>1, <1>2, CountedSame

\* A worker hands its job on, or drops it when the channel is closing.
LEMMA CountedFinish ==
  ASSUME ChanInv, NEW w \in Worker, Finish(w)
  PROVE  QueuesOwn' /\ \A d \in Chan : Counted(d)'
<1>0. TypeOK /\ wpc[w] = "work" /\ queue' = queue
  BY DEF ChanInv, Finish
<1>1. wjob[w] \in Job /\ wjob[w].ch \in Chan /\ running[wjob[w].ch] >= 1 /\ inflight[wjob[w].ch] >= 1
  BY <1>0, RunningIsLive DEF Job
<1>2. PICK c \in Chan : c = wjob[w].ch
  BY <1>1
<1>3. QueuesOwn'
  BY <1>0 DEF ChanInv, QueuesOwn
<1>4. \A v \in Worker : wpc'[v] = "work" <=> wpc[v] = "work" /\ v # w
  <2>1. [wpc EXCEPT ![w] = "awake"] \in [Worker -> {"awake", "wait", "work", "exit"}]
    BY <1>0 DEF TypeOK
  <2>2. \A v \in Worker : [wpc EXCEPT ![w] = "awake"][v] = "work" <=> wpc[v] = "work" /\ v # w
    BY <1>0 DEF TypeOK
  <2>3. \/ wpc' = Awakened([wpc EXCEPT ![w] = "awake"])
        \/ wpc' = [wpc EXCEPT ![w] = "awake"]
    BY DEF Finish
  <2> QED
    BY <2>1, <2>2, <2>3, AwakenedType
<1>5. \A v \in Worker : v # w => wjob'[v] = wjob[v]
  BY <1>0 DEF Finish, TypeOK
<1>6. Runners(c)' = Runners(c) \ {w} /\ w \in Runners(c)
  BY <1>0, <1>2, <1>4, <1>5 DEF Runners
<1>7. Cardinality(Runners(c)') = Cardinality(Runners(c)) - 1
  BY <1>6, RunnersFinite, FS_RemoveElement
<1>8. running' = [running EXCEPT ![c] = @ - 1]
  BY <1>2 DEF Finish
<1>9. running'[c] = running[c] - 1
  BY <1>0, <1>8 DEF TypeOK
<1>10. /\ running[c] = Cardinality(Runners(c)) /\ inflight[c] \in 0..Cap
       /\ inflight[c] = QueueLen(c) + running[c] + Len(cdone[c])
  BY <1>0, CountedIsInvariant DEF ChanInv, Counted
<1>11. QueueLen(c)' = QueueLen(c)
  BY <1>0 DEF QueueLen
<1>12. /\ QueueLen(c) \in Nat /\ Len(cdone[c]) \in Nat
       /\ inflight[c] \in Int /\ running[c] \in Int
  BY <1>0, LenTypes
<1>13. Counted(c)'
  <2>1. CASE FinishClosing(c)
    <3>1. inflight'[c] = inflight[c] - 1 /\ cdone' = cdone
      BY <1>0, <2>1 DEF FinishClosing, TypeOK
    <3>2. inflight'[c] \in 0..Cap
      BY <1>1, <1>2, <1>10, <3>1, CapAssumption
    <3>3. inflight'[c] = QueueLen(c)' + running'[c] + Len(cdone'[c])
      BY <1>9, <1>10, <1>11, <1>12, <3>1
    <3> QED
      BY <1>7, <1>9, <1>10, <3>2, <3>3 DEF Counted
  <2>2. CASE FinishOpen(c, wjob[w])
    <3>1. inflight' = inflight /\ Len(cdone'[c]) = Len(cdone[c]) + 1
      BY <1>0, <1>1, <2>2 DEF FinishOpen, TypeOK
    <3>2. inflight'[c] = QueueLen(c)' + running'[c] + Len(cdone'[c])
      BY <1>9, <1>10, <1>11, <1>12, <3>1
    <3> QED
      BY <1>7, <1>9, <1>10, <3>1, <3>2 DEF Counted
  <2> QED
    BY <1>2, <2>1, <2>2 DEF Finish
<1>14. ASSUME NEW d \in Chan, d # c PROVE Counted(d)'
  <2>1. Runners(d)' = Runners(d)
    BY <1>0, <1>2, <1>4, <1>5, <1>14 DEF Runners
  <2>2. running'[d] = running[d] /\ queue'[d] = queue[d]
    BY <1>0, <1>8, <1>14 DEF TypeOK
  <2>3. inflight'[d] = inflight[d] /\ cdone'[d] = cdone[d]
    BY <1>0, <1>2, <1>14 DEF Finish, FinishClosing, FinishOpen, TypeOK
  <2>4. Counted(d)
    BY CountedIsInvariant DEF ChanInv
  <2> QED
    BY <2>1, <2>2, <2>3, <2>4, CountedSame
<1> QED
  BY <1>3, <1>13, <1>14

\* A submission fits, and counts.
LEMMA CountedSubmit ==
  ASSUME ChanInv, NEW c \in Chan, NEW id \in JobId, NEW k \in Class, Submit(c, id, k)
  PROVE  QueuesOwn' /\ \A d \in Chan : Counted(d)'
<1> DEFINE j == [id |-> id, ch |-> c, cls |-> k]
<1>0. TypeOK /\ j \in Job /\ j.ch = c /\ j.cls = k
  BY DEF ChanInv, Job
<1>1. queue' = [queue EXCEPT ![c][k] = Append(@, j)] /\ queue[c][k] \in Seq(Job)
  BY <1>0 DEF Submit, TypeOK
<1>2. queue'[c][k] = Append(queue[c][k], j) /\ \A l \in Class : l # k => queue'[c][l] = queue[c][l]
  BY <1>0, <1>1 DEF TypeOK
<1>3. \A d \in Chan : d # c => queue'[d] = queue[d]
  BY <1>0, <1>1 DEF TypeOK
<1>4. QueuesOwn'
  <2> SUFFICES ASSUME NEW d \in Chan, NEW l \in Class, NEW m \in DOMAIN queue'[d][l]
               PROVE  queue'[d][l][m].ch = d /\ queue'[d][l][m].cls = l
    BY DEF QueuesOwn
  <2>1. CASE d = c /\ l = k
    <3>1. CASE m \in DOMAIN queue[c][k]
      BY <1>1, <1>2, <2>1, <3>1 DEF QueuesOwn, ChanInv
    <3>2. CASE m \notin DOMAIN queue[c][k]
      <4>1. queue'[d][l][m] = j
        BY <1>1, <1>2, <2>1, <3>2
      <4> QED
        BY <1>0, <2>1, <4>1
    <3> QED
      BY <3>1, <3>2
  <2>2. CASE ~(d = c /\ l = k)
    <3>1. queue'[d][l] = queue[d][l]
      BY <1>2, <1>3, <2>2
    <3> QED
      BY <3>1 DEF QueuesOwn, ChanInv
  <2> QED
    BY <2>1, <2>2
<1>5. \A w \in Worker : wpc'[w] = "work" <=> wpc[w] = "work"
  BY <1>0, SignalCvType DEF Submit
<1>6. wjob' = wjob /\ running' = running /\ cdone' = cdone /\ inflight[c] < Cap
      /\ inflight' = [inflight EXCEPT ![c] = @ + 1]
  BY DEF Submit
<1>7. Counted(c)'
  <2>1. /\ running[c] = Cardinality(Runners(c)) /\ inflight[c] \in 0..Cap
        /\ inflight[c] = QueueLen(c) + running[c] + Len(cdone[c])
    BY <1>0, CountedIsInvariant DEF ChanInv, Counted
  <2>2. Runners(c)' = Runners(c)
    BY <1>5, <1>6, RunnersSame
  <2>3. inflight'[c] = inflight[c] + 1
    BY <1>0, <1>6 DEF TypeOK
  <2>4. Len(queue'[c][k]) = Len(queue[c][k]) + 1
    BY <1>0, <1>1, <1>2
  <2>5. QueueLen(c)' = QueueLen(c) + 1
    <3>1. PICK a \in Nat, b \in Nat : a = Len(queue[c][IO]) /\ b = Len(queue[c][CPU])
      BY <1>0, LenTypes
    <3>2. QueueLen(c) = a + b
      BY <3>1 DEF QueueLen
    <3>3. CASE k = IO
      <4>1. Len(queue'[c][IO]) = Len(queue[c][IO]) + 1 /\ Len(queue'[c][CPU]) = Len(queue[c][CPU])
        BY <1>2, <2>4, <3>3, ClassFacts
      <4>2. QueueLen(c)' = (a + 1) + b
        BY <3>1, <4>1 DEF QueueLen
      <4> QED
        BY <3>2, <4>2
    <3>4. CASE k = CPU
      <4>1. Len(queue'[c][CPU]) = Len(queue[c][CPU]) + 1 /\ Len(queue'[c][IO]) = Len(queue[c][IO])
        BY <1>2, <2>4, <3>4, ClassFacts
      <4>2. QueueLen(c)' = a + (b + 1)
        BY <3>1, <4>1 DEF QueueLen
      <4> QED
        BY <3>2, <4>2
    <3> QED
      BY <3>3, <3>4 DEF Class
  <2>6. QueueLen(c) \in Nat /\ Len(cdone[c]) \in Nat /\ running[c] \in Int /\ inflight[c] \in Int
    BY <1>0, LenTypes
  <2>7. inflight'[c] = QueueLen(c)' + running'[c] + Len(cdone'[c])
    BY <1>6, <2>1, <2>3, <2>5, <2>6
  <2>8. inflight'[c] \in 0..Cap
    BY <1>6, <2>1, <2>3, <2>6, CapAssumption
  <2> QED
    BY <1>6, <2>1, <2>2, <2>7, <2>8 DEF Counted
<1>8. \A d \in Chan : d # c => inflight'[d] = inflight[d]
  BY <1>0, <1>6 DEF TypeOK
<1>9. \A d \in Chan : d # c => Counted(d)'
  BY <1>3, <1>5, <1>6, <1>8, CountedElsewhere
<1> QED
  BY <1>4, <1>7, <1>9

\* Popping a completion, in either step of dyn_pool_drain.
LEMMA CountedPop ==
  ASSUME ChanInv, NEW c \in Chan, PopDone(c), cdone[c] # <<>>,
         UNCHANGED <<queue, running, workerVars>>
  PROVE  QueuesOwn' /\ \A d \in Chan : Counted(d)'
<1>0. TypeOK /\ cdone[c] \in Seq(Job)
  BY DEF ChanInv, TypeOK
<1>1. wpc' = wpc /\ wjob' = wjob
  BY DEF workerVars
<1>2. QueuesOwn'
  BY DEF ChanInv, QueuesOwn
<1>3. /\ inflight'[c] = inflight[c] - 1
      /\ \A d \in Chan : d # c => inflight'[d] = inflight[d] /\ cdone'[d] = cdone[d]
  BY <1>0 DEF PopDone, TypeOK
<1>4. Len(cdone'[c]) = Len(cdone[c]) - 1 /\ Len(cdone[c]) >= 1
  BY <1>0 DEF PopDone, TypeOK
<1>5. Counted(c)'
  <2>1. /\ running[c] = Cardinality(Runners(c)) /\ inflight[c] \in 0..Cap
        /\ inflight[c] = QueueLen(c) + running[c] + Len(cdone[c])
    BY <1>0, CountedIsInvariant DEF ChanInv, Counted
  <2>2. Runners(c)' = Runners(c) /\ running[c] \in Nat
    BY <1>1, <2>1, RunnersSame, RunnersFinite
  <2>3. QueueLen(c) \in Nat /\ Len(cdone[c]) \in Nat /\ inflight[c] \in Int
    BY <1>0, LenTypes
  <2>4. QueueLen(c)' = QueueLen(c)
    BY DEF QueueLen
  <2>5. inflight'[c] = QueueLen(c)' + running'[c] + Len(cdone'[c])
    BY <1>3, <1>4, <2>1, <2>2, <2>3, <2>4
  <2>6. inflight'[c] \in 0..Cap
    BY <1>3, <1>4, <2>1, <2>2, <2>3, CapAssumption
  <2> QED
    BY <2>1, <2>2, <2>5, <2>6 DEF Counted
<1>6. \A d \in Chan : d # c => Counted(d)'
  BY <1>1, <1>3, CountedElsewhere
<1> QED
  BY <1>2, <1>5, <1>6

\* A channel that is not busy has empty queues and no runner.
LEMMA NotBusy ==
  ASSUME ChanInv, NEW c \in Chan, ~Busy(c)
  PROVE  running[c] = 0 /\ Runners(c) = {} /\ QueueLen(c) = 0 /\ inflight[c] = Len(cdone[c])
<1>0. TypeOK
  BY DEF ChanInv
<1>1. /\ running[c] = Cardinality(Runners(c))
      /\ inflight[c] = QueueLen(c) + running[c] + Len(cdone[c])
  BY <1>0, CountedIsInvariant DEF ChanInv, Counted
<1>2. /\ QueueLen(c) \in Nat /\ Len(cdone[c]) \in Nat /\ inflight[c] \in Int
      /\ running[c] \in Nat
  BY <1>0, <1>1, LenTypes, RunnersFinite
<1>3. ~(running[c] > 0) /\ ~(inflight[c] > Len(cdone[c]))
  BY DEF Busy
<1>4. running[c] = 0 /\ QueueLen(c) = 0 /\ inflight[c] = Len(cdone[c])
  BY <1>1, <1>2, <1>3
<1>5. Runners(c) = {}
  BY <1>1, <1>4, RunnersFinite, FS_EmptySet
<1> QED
  BY <1>4, <1>5

\* A channel that is not busy can go.
LEMMA CountedUnlink ==
  ASSUME ChanInv, NEW c \in Chan, ~Busy(c), Unlink(c)
  PROVE  QueuesOwn' /\ \A d \in Chan : Counted(d)'
<1>0. TypeOK /\ wpc' = wpc /\ wjob' = wjob
  BY DEF ChanInv, Unlink, workerVars
<1>1. /\ queue'[c] = [k \in Class |-> <<>>] /\ cdone'[c] = <<>> /\ inflight'[c] = 0 /\ running'[c] = 0
      /\ \A d \in Chan : d # c => /\ queue'[d] = queue[d] /\ cdone'[d] = cdone[d]
                                  /\ inflight'[d] = inflight[d] /\ running'[d] = running[d]
  BY <1>0 DEF Unlink, TypeOK
<1>2. QueuesOwn'
  <2> SUFFICES ASSUME NEW d \in Chan, NEW l \in Class, NEW m \in DOMAIN queue'[d][l]
               PROVE  queue'[d][l][m].ch = d /\ queue'[d][l][m].cls = l
    BY DEF QueuesOwn
  <2>1. CASE d = c
    <3>1. queue'[d][l] = <<>>
      BY <1>1, <2>1
    <3>2. m \in 1..0
      BY <3>1
    <3> QED
      BY <3>2
  <2>2. CASE d # c
    BY <1>1, <2>2 DEF QueuesOwn, ChanInv
  <2> QED
    BY <2>1, <2>2
<1>3. Counted(c)'
  <2>1. Cardinality(Runners(c)') = 0
    BY <1>0, NotBusy, RunnersSame, FS_EmptySet
  <2>2. Len(queue'[c][IO]) = 0 /\ Len(queue'[c][CPU]) = 0 /\ Len(cdone'[c]) = 0
    BY <1>1, ClassFacts
  <2>3. QueueLen(c)' = 0
    BY <2>2 DEF QueueLen
  <2> QED
    BY <1>1, <2>1, <2>2, <2>3, CapAssumption DEF Counted
<1>4. \A d \in Chan : d # c => Counted(d)'
  BY <1>0, <1>1, CountedElsewhere
<1> QED
  BY <1>2, <1>3, <1>4

\* The pool goes when every thread has left.
LEMMA CountedPoolFree ==
  ASSUME ChanInv, PoolFree
  PROVE  QueuesOwn' /\ \A d \in Chan : Counted(d)'
<1>1. /\ queue' = [c \in Chan |-> [k \in Class |-> <<>>]] /\ cdone' = [c \in Chan |-> <<>>]
      /\ inflight' = [c \in Chan |-> 0] /\ running' = running /\ wpc' = wpc /\ wjob' = wjob
      /\ \A w \in Worker : wpc[w] = "exit"
  BY DEF PoolFree, workerVars
<1>2. QueuesOwn'
  <2> SUFFICES ASSUME NEW d \in Chan, NEW l \in Class, NEW m \in DOMAIN queue'[d][l]
               PROVE  FALSE
    BY DEF QueuesOwn
  <2>1. queue'[d][l] = <<>>
    BY <1>1
  <2>2. m \in 1..0
    BY <2>1
  <2> QED
    BY <2>2
<1>3. ASSUME NEW d \in Chan PROVE Counted(d)'
  <2>1. Runners(d) = {} /\ Runners(d)' = {}
    BY <1>1 DEF Runners
  <2>2. running[d] = 0
    BY <2>1, CountedIsInvariant, FS_EmptySet DEF ChanInv, Counted
  <2>3. Len(queue'[d][IO]) = 0 /\ Len(queue'[d][CPU]) = 0 /\ Len(cdone'[d]) = 0 /\ inflight'[d] = 0
    BY <1>1, ClassFacts
  <2>4. QueueLen(d)' = 0
    BY <2>3 DEF QueueLen
  <2> QED
    BY <1>1, <2>1, <2>2, <2>3, <2>4, CapAssumption, FS_EmptySet DEF Counted
<1> QED
  BY <1>2, <1>3

-----------------------------------------------------------------------------
(* The closing flag, the owner's place and an absent channel *)

\* No worker opens or closes a channel.
LEMMA DoorsWorker ==
  ASSUME ChanInv, NEW w \in Worker, WorkerStep(w)
  PROVE  DoorsAgree'
<1>0. TypeOK /\ DoorsAgree
  BY DEF ChanInv
<1>1. CASE Take(w) \/ Sleep(w) \/ SpuriousWake(w) \/ Exit(w)
  BY <1>0, <1>1 DEF DoorsAgree, Take, Sleep, SpuriousWake, Exit, chanVars, ownerVars
<1>2. CASE Finish(w)
  <2>1. wjob[w] \in Job /\ wjob[w].ch \in Live
    BY <1>2, RunningIsLive DEF Finish
  <2>2. PICK c \in Chan : c = wjob[w].ch /\ opc[c] # "none"
    BY <2>1 DEF Live
  <2>3. closing' = closing
    BY <1>2 DEF Finish
  <2>4. CASE FinishClosing(c)
    <3>1. /\ \A d \in Chan : /\ opc'[d] = "none" <=> opc[d] = "none"
                             /\ opc'[d] \in {"cwait", "cready"} <=> opc[d] \in {"cwait", "cready"}
      BY <1>0, <2>4 DEF FinishClosing, BroadcastQuiesce, TypeOK
    <3>2. cdone' = cdone /\ wakefd' = wakefd /\ \A d \in Chan : d # c => inflight'[d] = inflight[d]
      BY <1>0, <2>4 DEF FinishClosing, TypeOK
    <3> QED
      BY <1>0, <2>2, <2>3, <3>1, <3>2 DEF DoorsAgree
  <2>5. CASE FinishOpen(c, wjob[w])
    <3>1. opc' = opc /\ inflight' = inflight
      BY <2>5 DEF FinishOpen
    <3>2. \A d \in Chan : d # c => cdone'[d] = cdone[d] /\ wakefd'[d] = wakefd[d]
      BY <1>0, <2>5 DEF FinishOpen, SignalChan, TypeOK
    <3> QED
      BY <1>0, <2>2, <2>3, <3>1, <3>2 DEF DoorsAgree
  <2> QED
    BY <1>2, <2>2, <2>4, <2>5 DEF Finish
<1> QED
  BY <1>1, <1>2 DEF WorkerStep

\* The owner sets the flag when it starts to close, and clears all when done.
LEMMA DoorsOwner ==
  ASSUME ChanInv, NEW c \in Chan, OwnerStep(c)
  PROVE  DoorsAgree'
<1>0. TypeOK /\ DoorsAgree
  BY DEF ChanInv
<1>1. CASE ChanNew(c)
  BY <1>0, <1>1 DEF ChanNew, DoorsAgree, TypeOK, chanVars
<1>2. ASSUME NEW id \in JobId, NEW k \in Class, Submit(c, id, k) PROVE DoorsAgree'
  BY <1>0, <1>2 DEF Submit, DoorsAgree, TypeOK, ownerVars
<1>3. CASE DrainBegin(c)
  BY <1>0, <1>3 DEF DrainBegin, PopDone, DoorsAgree, TypeOK, ownerVars
<1>4. CASE DrainNext(c)
  BY <1>0, <1>4 DEF DrainNext, PopDone, DoorsAgree, TypeOK
<1>5. CASE DrainEnd(c)
  BY <1>0, <1>5 DEF DrainEnd, SignalChan, DoorsAgree, TypeOK
<1>6. CASE Unlink(c)
  BY <1>0, <1>6 DEF Unlink, DoorsAgree, TypeOK
<1>7. CASE CloseWait(c)
  BY <1>0, <1>7 DEF CloseWait, DoorsAgree, TypeOK
<1>8. CASE opc[c] \in {"cwait", "cready"} /\ UNCHANGED chanVars
           /\ \E st \in {"cwait", "cready"} : opc' = [opc EXCEPT ![c] = st]
  BY <1>0, <1>8 DEF DoorsAgree, TypeOK, chanVars
<1> QED
  BY <1>1, <1>2, <1>3, <1>4, <1>5, <1>6, <1>7, <1>8
     DEF OwnerStep, CloseBegin, CloseRecheck, SpuriousQuiesce

\* Stopping the pool closes no channel.
LEMMA DoorsStop == ASSUME ChanInv, Stop PROVE DoorsAgree'
BY DEF ChanInv, Stop, DoorsAgree, chanVars, ownerVars

\* No owner is inside a call when the pool goes.
LEMMA DoorsPoolFree == ASSUME ChanInv, PoolFree PROVE DoorsAgree'
<1>1. \A c \in Chan : closing'[c] = closing[c] /\ ~(opc[c] \in {"cwait", "cready"})
  BY DEF PoolFree
<1> QED
  BY <1>1 DEF ChanInv, PoolFree, DoorsAgree

-----------------------------------------------------------------------------
(* The invariant *)

\* A new pool satisfies the inductive invariant.
LEMMA ChanInvInit == Init => ChanInv
<1> SUFFICES ASSUME Init PROVE ChanInv
  OBVIOUS
<1>1. TypeOK
  BY TypeInit
<1>2. /\ \A c \in Chan, k \in Class : queue[c][k] = <<>>
      /\ \A c \in Chan : /\ cdone[c] = <<>> /\ inflight[c] = 0 /\ running[c] = 0
                         /\ wakefd[c] = 0 /\ opc[c] = "none" /\ closing[c] = FALSE
      /\ \A w \in Worker : wpc[w] = "awake"
  BY DEF Init
<1>3. QueuesOwn
  BY <1>2 DEF QueuesOwn
<1>4. DoorsAgree
  BY <1>2 DEF DoorsAgree
<1>5. ASSUME NEW c \in Chan PROVE Counted(c)
  <2>1. Runners(c) = {}
    BY <1>2 DEF Runners
  <2>2. Len(queue[c][IO]) = 0 /\ Len(queue[c][CPU]) = 0 /\ Len(cdone[c]) = 0
    BY <1>2, ClassFacts
  <2>3. QueueLen(c) = 0
    BY <2>2 DEF QueueLen
  <2> QED
    BY <1>2, <2>1, <2>2, <2>3, CapAssumption, FS_EmptySet DEF Counted
<1> QED
  BY <1>1, <1>3, <1>4, <1>5, CountedIsInvariant DEF ChanInv

\* Every step keeps the queues owned and the counters exact.
LEMMA CountedNext ==
  ASSUME ChanInv, [Next]_vars
  PROVE  QueuesOwn' /\ \A d \in Chan : Counted(d)'
<1>0. TypeOK
  BY DEF ChanInv
<1>1. ASSUME NEW w \in Worker, WorkerStep(w) PROVE QueuesOwn' /\ \A d \in Chan : Counted(d)'
  <2>1. CASE Sleep(w) \/ SpuriousWake(w) \/ Exit(w)
    <3>1. UNCHANGED <<queue, cdone, inflight, running, wjob>>
      BY <2>1 DEF Sleep, SpuriousWake, Exit, chanVars
    <3>2. \A v \in Worker : wpc'[v] = "work" <=> wpc[v] = "work"
      BY <1>0, <2>1 DEF Sleep, SpuriousWake, Exit, TypeOK
    <3> QED
      BY <3>1, <3>2, CountedQuiet
  <2> QED
    BY <1>1, <2>1, CountedTake, CountedFinish DEF WorkerStep
<1>2. ASSUME NEW c \in Chan, OwnerStep(c) PROVE QueuesOwn' /\ \A d \in Chan : Counted(d)'
  <2>1. CASE UNCHANGED <<queue, cdone, inflight, running, wjob, wpc>>
    BY <2>1, CountedQuiet
  <2>2. ASSUME NEW id \in JobId, NEW k \in Class, Submit(c, id, k)
        PROVE  QueuesOwn' /\ \A d \in Chan : Counted(d)'
    BY <2>2, CountedSubmit
  <2>3. CASE DrainBegin(c)
    <3>1. CASE cdone[c] # <<>>
      BY <2>3, <3>1, CountedPop DEF DrainBegin
    <3>2. CASE cdone[c] = <<>>
      BY <2>1, <2>3, <3>2 DEF DrainBegin, workerVars
    <3> QED
      BY <3>1, <3>2
  <2>4. CASE DrainNext(c)
    BY <2>4, CountedPop DEF DrainNext
  <2>5. CASE ~Busy(c) /\ Unlink(c)
    BY <2>5, CountedUnlink
  <2>6. CASE ChanNew(c) \/ DrainEnd(c) \/ CloseWait(c) \/ SpuriousQuiesce(c)
    BY <2>1, <2>6 DEF ChanNew, DrainEnd, CloseWait, SpuriousQuiesce, chanVars, workerVars
  <2>7. CASE UNCHANGED <<chanVars, poolVars, workerVars, ojob, budget>>
    BY <2>1, <2>7 DEF chanVars, workerVars
  <2> QED
    BY <1>2, <2>2, <2>3, <2>4, <2>5, <2>6, <2>7 DEF OwnerStep, CloseBegin, CloseRecheck
<1>3. CASE Stop
  <2>1. \A v \in Worker : wpc'[v] = "work" <=> wpc[v] = "work"
    BY <1>0, <1>3, AwakenedType DEF Stop, TypeOK
  <2> QED
    BY <1>3, <2>1, CountedQuiet DEF Stop, chanVars
<1>4. CASE UNCHANGED vars
  BY <1>4, CountedQuiet DEF vars, chanVars, workerVars
<1> QED
  BY <1>1, <1>2, <1>3, <1>4, CountedPoolFree DEF Next, Terminated

\* Every step preserves the inductive invariant.
LEMMA ChanInvNext == ChanInv /\ [Next]_vars => ChanInv'
<1> SUFFICES ASSUME ChanInv, [Next]_vars PROVE ChanInv'
  OBVIOUS
<1>1. TypeOK'
  BY TypeNext DEF ChanInv
<1>2. QueuesOwn' /\ (\A c \in Chan : Counted(c))'
  BY CountedNext
<1>3. (ChanAccounting /\ RingsFit)'
  BY <1>1, <1>2, CountedIsInvariant, PTL
<1>4. DoorsAgree'
  <2>1. CASE UNCHANGED vars
    BY <2>1 DEF ChanInv, DoorsAgree, vars, chanVars, ownerVars
  <2> QED
    BY <2>1, DoorsWorker, DoorsOwner, DoorsStop, DoorsPoolFree DEF Next, Terminated
<1> QED
  BY <1>1, <1>2, <1>3, <1>4 DEF ChanInv

\* The counters of every channel are exact in every reachable state, for any
\* number of threads, channels and jobs and any capacity: the numbers that
\* dyn_pool_chan_free and pool_submit decide on are the true ones.
THEOREM CountersExact == Spec => []ChanAccounting
<1>1. Spec => []ChanInv
  BY ChanInvInit, ChanInvNext, PTL DEF Spec
<1>2. ChanInv => ChanAccounting
  BY DEF ChanInv
<1> QED
  BY <1>1, <1>2, PTL

\* The modulo-cap index arithmetic of the three rings never overwrites a job.
THEOREM RingsNeverOverflow == Spec => []RingsFit
<1>1. Spec => []ChanInv
  BY ChanInvInit, ChanInvNext, PTL DEF Spec
<1>2. ChanInv => RingsFit
  BY DEF ChanInv
<1> QED
  BY <1>1, <1>2, PTL

-----------------------------------------------------------------------------
(* What the counters protect *)

\* The invariant of the counters holds throughout.
LEMMA ChanInvAlways == Spec => []ChanInv
BY ChanInvInit, ChanInvNext, PTL DEF Spec

-----------------------------------------------------------------------------
(* The list of channels and the cursors into it *)

\* The conjuncts of NoDanglingChan about the list.
ListInv ==
    /\ \A k \in Class : turn[k] # NULL => turn[k] \in Live
    /\ \A c \in Live : \E i \in DOMAIN chans : chans[i] = c
    /\ \A i, m \in DOMAIN chans : chans[i] \in Live /\ (chans[i] = chans[m] => i = m)

\* A step that leaves the list, the cursors and the live channels alone.
LEMMA ListSame ==
  ASSUME ListInv, UNCHANGED <<chans, turn>>,
         \A c \in Chan : opc'[c] = "none" <=> opc[c] = "none"
  PROVE  ListInv'
<1>1. Live' = Live
  BY DEF Live
<1> QED
  BY <1>1 DEF ListInv

\* The scheduler moves a cursor to the next channel of the list.
LEMMA ListTake ==
  ASSUME TypeOK, ListInv, NEW w \in Worker, Take(w)
  PROVE  ListInv'
<1>1. PICK i \in DOMAIN chans : turn' = [turn EXCEPT ![PickClass] = Next_(i)]
  BY DEF Take
<1>2. Next_(i) # NULL => Next_(i) \in Live
  <2>1. chans \in Seq(Chan)
    BY DEF TypeOK
  <2>2. i < Len(chans) => i + 1 \in DOMAIN chans
    BY <2>1
  <2> QED
    BY <2>2 DEF Next_, ListInv
<1>3. Live' = Live /\ chans' = chans
  BY DEF Take, ownerVars, Live
<1>4. \A k \in Class : turn'[k] = turn[k] \/ turn'[k] = Next_(i)
  BY <1>1 DEF TypeOK
<1> QED
  BY <1>2, <1>3, <1>4 DEF ListInv

\* A new channel goes to the head of the list, where it was not before.
LEMMA ListChanNew ==
  ASSUME TypeOK, ListInv, NEW c \in Chan, ChanNew(c)
  PROVE  ListInv'
<1>1. chans \in Seq(Chan) /\ chans' = <<c>> \o chans /\ turn' = turn
  BY DEF TypeOK, ChanNew
<1>2. Live' = Live \cup {c} /\ c \notin Live
  BY DEF ChanNew, Live, TypeOK
<1>3. /\ DOMAIN chans' = 1..(Len(chans) + 1)
      /\ chans'[1] = c
      /\ \A i \in DOMAIN chans : i + 1 \in DOMAIN chans' /\ chans'[i + 1] = chans[i]
      /\ \A i \in DOMAIN chans' : i # 1 => i - 1 \in DOMAIN chans /\ chans'[i] = chans[i - 1]
      /\ 1 \in DOMAIN chans'
  BY <1>1
<1>4. \A d \in Live' : \E i \in DOMAIN chans' : chans'[i] = d
  BY <1>2, <1>3 DEF ListInv
<1>5. ASSUME NEW i \in DOMAIN chans', NEW m \in DOMAIN chans'
      PROVE  chans'[i] \in Live' /\ (chans'[i] = chans'[m] => i = m)
  <2>1. chans'[i] \in Live'
    BY <1>2, <1>3 DEF ListInv
  <2>2. ASSUME chans'[i] = chans'[m] PROVE i = m
    <3>1. CASE i = 1
      BY <1>2, <1>3, <2>2, <3>1 DEF ListInv
    <3>2. CASE i # 1 /\ m = 1
      BY <1>2, <1>3, <2>2, <3>2 DEF ListInv
    <3>3. CASE i # 1 /\ m # 1
      <4>1. i - 1 = m - 1
        BY <1>3, <2>2, <3>3 DEF ListInv
      <4>2. i \in Int /\ m \in Int
        BY <1>3
      <4> QED
        BY <4>1, <4>2
    <3> QED
      BY <3>1, <3>2, <3>3
  <2> QED
    BY <2>1, <2>2
<1> QED
  BY <1>1, <1>2, <1>4, <1>5 DEF ListInv

\* What RemoveAt returns, position by position.
LEMMA RemoveAtElements ==
  ASSUME NEW S, NEW s \in Seq(S), NEW i \in DOMAIN s
  PROVE  /\ Len(RemoveAt(s, i)) = Len(s) - 1
         /\ DOMAIN RemoveAt(s, i) = 1..(Len(s) - 1)
         /\ \A m \in 1..(Len(s) - 1) : RemoveAt(s, i)[m] = IF m < i THEN s[m] ELSE s[m + 1]
<1>1. i \in 1..Len(s) /\ Len(s) \in Nat
  OBVIOUS
<1> DEFINE a == SubSeq(s, 1, i - 1)
           b == SubSeq(s, i + 1, Len(s))
<1>2. /\ a \in Seq(S) /\ Len(a) = i - 1 /\ \A m \in 1..(i - 1) : a[m] = s[m]
  BY <1>1, SubSeqProperties
<1>3. /\ b \in Seq(S) /\ Len(b) = Len(s) - i /\ \A m \in 1..(Len(s) - i) : b[m] = s[m + i]
  BY <1>1, SubSeqProperties
<1> HIDE DEF a, b
<1>4. /\ a \o b \in Seq(S) /\ Len(a \o b) = Len(s) - 1
      /\ \A m \in 1..(Len(s) - 1) : (a \o b)[m] = IF m < i THEN s[m] ELSE s[m + 1]
  BY <1>1, <1>2, <1>3
<1>5. RemoveAt(s, i) = a \o b
  BY DEF RemoveAt, a, b
<1>6. DOMAIN (a \o b) = 1..(Len(s) - 1)
  BY <1>4
<1> QED
  BY <1>4, <1>5, <1>6, Zenon

\* Unlinking takes the channel out of the list and off the cursors.
LEMMA ListUnlink ==
  ASSUME TypeOK, ListInv, NEW c \in Chan, Unlink(c)
  PROVE  ListInv'
<1>1. PICK i \in DOMAIN chans : chans[i] = c /\ UnlinkAt(i)
  BY DEF Unlink
<1>2. chans \in Seq(Chan) /\ chans' = RemoveAt(chans, i) /\ Len(chans) \in Nat /\ i \in 1..Len(chans)
  <2>1. chans \in Seq(Chan)
    BY DEF TypeOK
  <2>2. chans' = RemoveAt(chans, i)
    BY <1>1, Zenon DEF UnlinkAt
  <2>3. Len(chans) \in Nat /\ i \in 1..Len(chans)
    BY <1>1, <2>1
  <2> QED
    BY <2>1, <2>2, <2>3
<1>3. Live' = Live \ {c}
  BY DEF Unlink, Live, TypeOK
<1>4. /\ DOMAIN chans' = 1..(Len(chans) - 1)
      /\ \A m \in 1..(Len(chans) - 1) : chans'[m] = IF m < i THEN chans[m] ELSE chans[m + 1]
  BY <1>2, RemoveAtElements
<1>5. \A n \in DOMAIN chans : chans[n] = c => n = i
  BY <1>1 DEF ListInv
<1>6. ASSUME NEW d \in Live' PROVE \E m \in DOMAIN chans' : chans'[m] = d
  <2>1. PICK n \in DOMAIN chans : chans[n] = d
    BY <1>3, <1>6 DEF ListInv
  <2>2. n # i /\ n \in 1..Len(chans)
    BY <1>1, <1>2, <1>3, <2>1
  <2>3. CASE n < i
    <3>1. n \in DOMAIN chans' /\ chans'[n] = chans[n]
      BY <1>2, <1>4, <2>2, <2>3
    <3> QED
      BY <2>1, <3>1
  <2>4. CASE n > i
    <3>1. n - 1 \in DOMAIN chans' /\ chans'[n - 1] = chans[n]
      BY <1>2, <1>4, <2>2, <2>4
    <3> QED
      BY <2>1, <3>1
  <2> QED
    BY <1>2, <2>2, <2>3, <2>4
<1>7. ASSUME NEW m \in DOMAIN chans'
      PROVE  \E n \in DOMAIN chans : n # i /\ chans'[m] = chans[n] /\ n = IF m < i THEN m ELSE m + 1
  <2>1. m \in 1..(Len(chans) - 1)
    BY <1>4
  <2>2. CASE m < i
    <3>1. m \in DOMAIN chans /\ m # i /\ chans'[m] = chans[m]
      BY <1>2, <1>4, <2>1, <2>2
    <3> QED
      BY <2>2, <3>1
  <2>3. CASE ~(m < i)
    <3>1. m + 1 \in DOMAIN chans /\ m + 1 # i /\ chans'[m] = chans[m + 1]
      BY <1>2, <1>4, <2>1, <2>3
    <3> QED
      BY <2>3, <3>1
  <2> QED
    BY <2>2, <2>3
<1>8. ASSUME NEW m \in DOMAIN chans', NEW p \in DOMAIN chans'
      PROVE  chans'[m] \in Live' /\ (chans'[m] = chans'[p] => m = p)
  <2>1. PICK n \in DOMAIN chans : n # i /\ chans'[m] = chans[n] /\ n = IF m < i THEN m ELSE m + 1
    BY <1>7
  <2>2. PICK q \in DOMAIN chans : q # i /\ chans'[p] = chans[q] /\ q = IF p < i THEN p ELSE p + 1
    BY <1>7
  <2>3. chans'[m] \in Live'
    BY <1>3, <1>5, <2>1 DEF ListInv
  <2>4. ASSUME chans'[m] = chans'[p] PROVE m = p
    <3>1. n = q
      BY <2>1, <2>2, <2>4 DEF ListInv
    <3>2. m \in Int /\ p \in Int /\ i \in Int
      BY <1>2, <1>4
    <3> QED
      BY <2>1, <2>2, <3>1, <3>2
  <2> QED
    BY <2>3, <2>4
<1>9. ASSUME NEW k \in Class, turn'[k] # NULL PROVE turn'[k] \in Live'
  <2>1. turn'[k] = IF turn[k] = c THEN Next_(i) ELSE turn[k]
    BY <1>1 DEF UnlinkAt
  <2>2. CASE turn[k] # c
    BY <1>3, <1>9, <2>1, <2>2 DEF ListInv
  <2>3. CASE turn[k] = c
    <3>1. turn'[k] = chans[i + 1] /\ i < Len(chans)
      BY <1>9, <2>1, <2>3 DEF Next_
    <3>2. i + 1 \in DOMAIN chans /\ i + 1 # i
      BY <1>2, <3>1
    <3> QED
      BY <1>3, <1>5, <3>1, <3>2 DEF ListInv
  <2> QED
    BY <2>2, <2>3
<1> QED
  BY <1>6, <1>8, <1>9 DEF ListInv

\* Every step keeps the list and the cursors right.
LEMMA ListNext ==
  ASSUME ChanInv, ListInv, [Next]_vars
  PROVE  ListInv'
<1>0. TypeOK
  BY DEF ChanInv
<1>1. ASSUME NEW w \in Worker, WorkerStep(w) PROVE ListInv'
  <2>1. CASE Sleep(w) \/ SpuriousWake(w) \/ Exit(w)
    BY <2>1, ListSame DEF Sleep, SpuriousWake, Exit, poolVars, ownerVars
  <2>2. CASE Finish(w)
    <3>1. \A c \in Chan : opc'[c] = "none" <=> opc[c] = "none"
      <4>1. opc' = opc \/ BroadcastQuiesce
        BY <2>2 DEF Finish, FinishClosing, FinishOpen
      <4> QED
        BY <1>0, <4>1 DEF BroadcastQuiesce, TypeOK
    <3> QED
      BY <2>2, <3>1, ListSame DEF Finish
  <2> QED
    BY <1>0, <1>1, <2>1, <2>2, ListTake DEF WorkerStep
<1>2. ASSUME NEW c \in Chan, OwnerStep(c) PROVE ListInv'
  <2>1. ASSUME UNCHANGED <<chans, turn>>, opc[c] # "none",
               \E st \in {"idle", "done", "cwait", "cready"} : opc' = [opc EXCEPT ![c] = st]
        PROVE  ListInv'
    BY <1>0, <2>1, ListSame DEF TypeOK
  <2>2. ASSUME UNCHANGED <<chans, turn, opc>> PROVE ListInv'
    BY <2>2, ListSame
  <2>3. CASE DrainBegin(c) \/ DrainNext(c)
    BY <2>1, <2>2, <2>3 DEF DrainBegin, DrainNext, PopDone, ownerVars
  <2>4. CASE DrainEnd(c) \/ CloseWait(c) \/ SpuriousQuiesce(c)
    BY <2>1, <2>4 DEF DrainEnd, CloseWait, SpuriousQuiesce, poolVars
  <2>5. ASSUME NEW id \in JobId, NEW k \in Class, Submit(c, id, k) PROVE ListInv'
    BY <2>2, <2>5 DEF Submit, ownerVars
  <2>6. CASE CloseBegin(c) \/ CloseRecheck(c)
    BY <1>0, <2>1, <2>6, ListUnlink DEF CloseBegin, CloseRecheck, poolVars
  <2> QED
    BY <1>0, <1>2, <2>3, <2>4, <2>5, <2>6, ListChanNew DEF OwnerStep
<1>3. CASE Stop
  BY <1>3, ListSame DEF Stop, ownerVars
<1>4. CASE PoolFree
  <2>1. chans' = <<>> /\ Live' = {} /\ \A k \in Class : turn'[k] = NULL
    BY <1>4 DEF PoolFree, Live
  <2> QED
    BY <2>1 DEF ListInv
<1>5. CASE UNCHANGED vars
  BY <1>5, ListSame DEF vars, poolVars, ownerVars
<1> QED
  BY <1>1, <1>2, <1>3, <1>4, <1>5 DEF Next, Terminated

\* No worker, cursor or list link ever points at a channel that
\* dyn_pool_chan_free has freed, even when its address is used again.
THEOREM NoUseAfterFree == Spec => []NoDanglingChan
<1>1. Init => ListInv
  BY DEF Init, ListInv, Live
<1>2. ChanInv /\ ListInv /\ [Next]_vars => ListInv'
  BY ListNext
<1>3. ChanInv /\ ListInv => NoDanglingChan
  BY RunningIsLive DEF ListInv, NoDanglingChan
<1> QED
  BY <1>1, <1>2, <1>3, ChanInvAlways, PTL DEF Spec

-----------------------------------------------------------------------------
(* dyn_pool_chan_free *)

\* No worker takes the last job of a closing channel without a broadcast.
LEMMA CloseWorker ==
  ASSUME ChanInv, CloseNotStuck, NEW w \in Worker, WorkerStep(w)
  PROVE  CloseNotStuck'
<1>0. TypeOK /\ DoorsAgree
  BY DEF ChanInv
<1>1. CASE Take(w)
  <2>1. PICK c \in Chan : running' = [running EXCEPT ![c] = @ + 1]
    <3>1. PICK i \in DOMAIN chans : running' = [running EXCEPT ![chans[i]] = @ + 1]
      BY <1>1 DEF Take
    <3>2. chans[i] \in Chan
      BY <1>0 DEF TypeOK
    <3> QED
      BY <3>1, <3>2
  <2>2. \A d \in Chan : running[d] > 0 => running'[d] > 0
    BY <1>0, <2>1 DEF TypeOK
  <2> QED
    BY <1>1, <2>2 DEF Take, CloseNotStuck, Busy, ownerVars
<1>2. CASE Sleep(w) \/ SpuriousWake(w) \/ Exit(w)
  BY <1>2 DEF Sleep, SpuriousWake, Exit, CloseNotStuck, Busy, chanVars, ownerVars
<1>3. CASE Finish(w)
  <2>1. PICK c \in Chan : c = wjob[w].ch
    BY <1>0, <1>3 DEF Finish, TypeOK, Job
  <2>2. CASE FinishClosing(c)
    <3>1. \A d \in Chan : opc'[d] # "cwait"
      BY <1>0, <2>2 DEF FinishClosing, BroadcastQuiesce
    <3> QED
      BY <3>1 DEF CloseNotStuck
  <2>3. CASE ~closing[c] /\ FinishOpen(c, wjob[w])
    <3>1. opc[c] # "cwait" /\ opc' = opc /\ inflight' = inflight
      BY <1>0, <2>3 DEF DoorsAgree, FinishOpen
    <3>2. \A d \in Chan : d # c => running'[d] = running[d] /\ cdone'[d] = cdone[d]
      BY <1>0, <1>3, <2>1, <2>3 DEF Finish, FinishOpen, TypeOK
    <3> QED
      BY <3>1, <3>2 DEF CloseNotStuck, Busy
  <2> QED
    BY <1>3, <2>1, <2>2, <2>3 DEF Finish
<1> QED
  BY <1>1, <1>2, <1>3 DEF WorkerStep

\* Only a busy channel's owner goes to sleep.
LEMMA CloseOwner ==
  ASSUME ChanInv, CloseNotStuck, NEW c \in Chan, OwnerStep(c)
  PROVE  CloseNotStuck'
<1>0. TypeOK
  BY DEF ChanInv
<1>1. ASSUME opc'[c] # "cwait",
             \A d \in Chan : d # c => /\ opc'[d] = opc[d] /\ running'[d] = running[d]
                                      /\ inflight'[d] = inflight[d] /\ cdone'[d] = cdone[d]
      PROVE  CloseNotStuck'
  BY <1>1 DEF CloseNotStuck, Busy
<1>2. ASSUME Busy(c), UNCHANGED <<running, inflight, cdone>>, opc' = [opc EXCEPT ![c] = "cwait"]
      PROVE  CloseNotStuck'
  BY <1>0, <1>2 DEF CloseNotStuck, Busy, TypeOK
<1>3. CASE ChanNew(c)
  BY <1>0, <1>1, <1>3 DEF ChanNew, chanVars, TypeOK
<1>4. ASSUME NEW id \in JobId, NEW k \in Class, Submit(c, id, k) PROVE CloseNotStuck'
  BY <1>0, <1>1, <1>4 DEF Submit, ownerVars, TypeOK
<1>5. CASE DrainBegin(c)
  BY <1>0, <1>1, <1>5 DEF DrainBegin, PopDone, ownerVars, TypeOK
<1>6. CASE DrainNext(c) \/ DrainEnd(c)
  BY <1>0, <1>1, <1>6 DEF DrainNext, DrainEnd, PopDone, TypeOK
<1>7. CASE Unlink(c)
  BY <1>0, <1>1, <1>7 DEF Unlink, TypeOK
<1>8. CASE CloseWait(c)
  BY <1>2, <1>8 DEF CloseWait
<1>9. CASE CloseRecheck(c) /\ Busy(c)
  BY <1>2, <1>9 DEF CloseRecheck, chanVars
<1>10. CASE SpuriousQuiesce(c)
  BY <1>0, <1>1, <1>10 DEF SpuriousQuiesce, chanVars, TypeOK
<1> QED
  BY <1>3, <1>4, <1>5, <1>6, <1>7, <1>8, <1>9, <1>10 DEF OwnerStep, CloseBegin, CloseRecheck

\* An owner asleep in dyn_pool_chan_free has a job whose end will wake it.
THEOREM CloseAlwaysHasAWaker == Spec => []CloseNotStuck
<1>1. Init => CloseNotStuck
  BY DEF Init, CloseNotStuck
<1>2. ChanInv /\ CloseNotStuck /\ [Next]_vars => CloseNotStuck'
  <2> SUFFICES ASSUME ChanInv, CloseNotStuck, [Next]_vars PROVE CloseNotStuck'
    OBVIOUS
  <2>1. CASE Stop \/ UNCHANGED vars
    BY <2>1 DEF Stop, CloseNotStuck, Busy, vars, chanVars, ownerVars
  <2>2. CASE PoolFree
    BY <2>2 DEF PoolFree, CloseNotStuck
  <2> QED
    BY <2>1, <2>2, CloseWorker, CloseOwner DEF Next, Terminated
<1> QED
  BY <1>1, <1>2, ChanInvAlways, PTL DEF Spec

-----------------------------------------------------------------------------
(* The wake descriptor *)

\* The eventfd's counter is the flag, and both are there when needed.
WakeInv ==
    \A c \in Chan :
        /\ wake_pending[c] => wakefd[c] = 1
        /\ ~wake_pending[c] => wakefd[c] = 0
        /\ opc[c] = "idle" /\ cdone[c] # <<>> => wake_pending[c]

\* chan_signal_locked leaves the flag and the counter set.
LEMMA SignalChanWakes ==
  ASSUME TypeOK, WakeInv, NEW c \in Chan, SignalChan(c)
  PROVE  /\ wake_pending'[c] /\ wakefd'[c] = 1
         /\ \A d \in Chan : d # c => wake_pending'[d] = wake_pending[d] /\ wakefd'[d] = wakefd[d]
BY DEF TypeOK, WakeInv, SignalChan

\* A worker that completes a job makes the eventfd readable.
LEMMA WakeWorker ==
  ASSUME ChanInv, WakeInv, NEW w \in Worker, WorkerStep(w)
  PROVE  WakeInv'
<1>0. TypeOK
  BY DEF ChanInv
<1>1. CASE Take(w) \/ Sleep(w) \/ SpuriousWake(w) \/ Exit(w)
  BY <1>1 DEF Take, Sleep, SpuriousWake, Exit, WakeInv, chanVars, ownerVars
<1>2. CASE Finish(w)
  <2>1. PICK c \in Chan : c = wjob[w].ch
    BY <1>0, <1>2 DEF Finish, TypeOK, Job
  <2>2. CASE FinishClosing(c)
    <3>1. \A d \in Chan : opc'[d] = "idle" => opc[d] = "idle"
      BY <1>0, <2>2 DEF FinishClosing, BroadcastQuiesce, TypeOK
    <3> QED
      BY <2>2, <3>1 DEF FinishClosing, WakeInv
  <2>3. CASE FinishOpen(c, wjob[w])
    <3>1. opc' = opc /\ SignalChan(c) /\ \A d \in Chan : d # c => cdone'[d] = cdone[d]
      BY <1>0, <2>3 DEF FinishOpen, TypeOK
    <3> QED
      BY <1>0, <3>1, SignalChanWakes DEF WakeInv
  <2> QED
    BY <1>2, <2>1, <2>2, <2>3 DEF Finish
<1> QED
  BY <1>1, <1>2 DEF WorkerStep

\* Drain leaves the eventfd readable when it leaves completions behind.
LEMMA WakeOwner ==
  ASSUME ChanInv, WakeInv, NEW c \in Chan, OwnerStep(c)
  PROVE  WakeInv'
<1>0. TypeOK /\ DoorsAgree
  BY DEF ChanInv
<1>1. CASE ChanNew(c)
  BY <1>0, <1>1 DEF ChanNew, chanVars, TypeOK, DoorsAgree, WakeInv
<1>2. ASSUME NEW id \in JobId, NEW k \in Class, Submit(c, id, k) PROVE WakeInv'
  BY <1>2 DEF Submit, ownerVars, WakeInv
<1>3. CASE DrainBegin(c)
  <2>1. /\ ~wake_pending'[c] /\ wakefd'[c] = 0
        /\ \A d \in Chan : d # c => wake_pending'[d] = wake_pending[d] /\ wakefd'[d] = wakefd[d]
    BY <1>0, <1>3 DEF DrainBegin, TypeOK, WakeInv
  <2>2. \/ opc'[c] = "done" \/ cdone'[c] = <<>>
    BY <1>0, <1>3 DEF DrainBegin, PopDone, TypeOK, ownerVars
  <2>3. \A d \in Chan : d # c => opc'[d] = opc[d] /\ cdone'[d] = cdone[d]
    BY <1>0, <1>3 DEF DrainBegin, PopDone, TypeOK, ownerVars
  <2> QED
    BY <2>1, <2>2, <2>3 DEF WakeInv
<1>4. CASE DrainNext(c)
  BY <1>0, <1>4 DEF DrainNext, PopDone, TypeOK, WakeInv
<1>5. CASE DrainEnd(c)
  <2>1. \A d \in Chan : cdone'[d] = cdone[d] /\ (d # c => opc'[d] = opc[d])
    BY <1>0, <1>5 DEF DrainEnd, TypeOK
  <2>2. CASE cdone[c] # <<>> /\ SignalChan(c)
    BY <1>0, <2>1, <2>2, SignalChanWakes DEF WakeInv
  <2>3. CASE cdone[c] = <<>> /\ UNCHANGED <<wake_pending, wakefd>>
    BY <2>1, <2>3 DEF WakeInv
  <2> QED
    BY <1>5, <2>2, <2>3 DEF DrainEnd
<1>6. CASE Unlink(c)
  BY <1>0, <1>6 DEF Unlink, TypeOK, WakeInv
<1>7. CASE CloseWait(c) \/ SpuriousQuiesce(c)
  BY <1>0, <1>7 DEF CloseWait, SpuriousQuiesce, chanVars, TypeOK, WakeInv
<1>8. CASE CloseRecheck(c) /\ Busy(c)
  BY <1>0, <1>8 DEF CloseRecheck, chanVars, TypeOK, WakeInv
<1> QED
  BY <1>1, <1>2, <1>3, <1>4, <1>5, <1>6, <1>7, <1>8 DEF OwnerStep, CloseBegin, CloseRecheck

\* Whenever an owner is back in its loop and completions wait, its eventfd is
\* readable: no interleaving of drain, its time slice and the workers loses
\* the wake-up.
THEOREM NoLostWake == Spec => []WakeNotLost
<1>1. Init => WakeInv
  BY DEF Init, WakeInv
<1>2. ChanInv /\ WakeInv /\ [Next]_vars => WakeInv'
  <2> SUFFICES ASSUME ChanInv, WakeInv, [Next]_vars PROVE WakeInv'
    OBVIOUS
  <2>1. CASE Stop \/ UNCHANGED vars
    BY <2>1 DEF Stop, WakeInv, vars, chanVars, ownerVars
  <2>2. CASE PoolFree
    BY <2>2 DEF PoolFree, WakeInv
  <2> QED
    BY <2>1, <2>2, WakeWorker, WakeOwner DEF Next, Terminated
<1>3. WakeInv => WakeNotLost
  BY DEF WakeInv, WakeNotLost
<1> QED
  BY <1>1, <1>2, <1>3, ChanInvAlways, PTL DEF Spec

\* Induction over the naturals, for a set.
LEMMA SetInduction ==
  ASSUME NEW A \in SUBSET Nat, 0 \in A, \A n \in A : n + 1 \in A
  PROVE  A = Nat
<1> DEFINE T == Nat \ A
           R == OpToRel(<, Nat)
<1>1. \A x, y \in Nat : <<x, y>> \in R <=> x < y
  BY DEF OpToRel
<1>2. IsWellFoundedOn(R, Nat)
  BY NatLessThanWellFounded
<1> HIDE DEF R
<1>3. SUFFICES ASSUME T # {} PROVE FALSE
  OBVIOUS
<1>4. PICK x \in T : \A y \in T : ~(<<y, x>> \in R)
  <2>1. T \subseteq Nat
    OBVIOUS
  <2> HIDE DEF T
  <2> QED
    BY <1>2, <1>3, <2>1, WFMin
<1>5. x \in Nat \ {0} /\ x - 1 \in Nat /\ x - 1 < x
  OBVIOUS
<1>6. x - 1 \in A
  BY <1>1, <1>4, <1>5
<1> QED
  BY <1>5, <1>6

\* The element SumFunctionOnSet takes out of a set first.
First(s) == CHOOSE x \in s : TRUE

\* g is the function that SumFunctionOnSet(f, S) unfolds.
Unfolds(g, f, S) ==
    g = [s \in SUBSET S |-> IF s = {} THEN 0 ELSE f[First(s)] + g[s \ {First(s)}]]

\* Its values are integers when those of f are.
Summable(f, S) == IsFiniteSet(S) /\ \A x \in S : f[x] \in Int
IntUnfolds(g, f, S) == g \in [SUBSET S -> Int] /\ Unfolds(g, f, S)

\* The sum is the value at S of some such function, if there is one.
LEMMA SumIsUnfolded ==
  ASSUME NEW f, NEW S, \E g : Unfolds(g, f, S)
  PROVE  \E g : Unfolds(g, f, S) /\ SumFunctionOnSet(f, S) = g[S]
<1> DEFINE h == CHOOSE g : g = [s \in SUBSET S |-> IF s = {} THEN 0 ELSE f[CHOOSE x \in s : TRUE] + g[s \ {CHOOSE x \in s : TRUE}]]
<1>1. Unfolds(h, f, S)
  BY DEF Unfolds, First
<1>2. SumFunctionOnSet(f, S) = h[S]
  BY DEF SumFunctionOnSet, FoldFunctionOnSet, MapThenFoldSet
<1> HIDE DEF h
<1> QED
  BY <1>1, <1>2

\* A chosen element is an element, and the rest is smaller by one.
LEMMA FirstFacts ==
  ASSUME NEW s, IsFiniteSet(s), s # {}
  PROVE  /\ First(s) \in s /\ IsFiniteSet(s \ {First(s)})
         /\ Cardinality(s \ {First(s)}) = Cardinality(s) - 1
         /\ Cardinality(s) \in Nat \ {0}
<1>1. First(s) \in s
  BY DEF First
<1> QED
  BY <1>1, FS_RemoveElement, FS_CardinalityType, FS_EmptySet

\* Two such functions agree wherever both are defined.
LEMMA UnfoldsUnique ==
  ASSUME NEW f, NEW S, NEW R, NEW g, NEW h, Unfolds(g, f, S), Unfolds(h, f, R),
         IsFiniteSet(S)
  PROVE  \A T \in SUBSET (S \cap R) : g[T] = h[T]
<1> DEFINE Agree(n) == \A T \in SUBSET (S \cap R) : Cardinality(T) = n => g[T] = h[T]
           A == {n \in Nat : Agree(n)}
<1>1. \A T \in SUBSET (S \cap R) : IsFiniteSet(T) /\ Cardinality(T) \in Nat /\ T \in SUBSET S /\ T \in SUBSET R
  BY FS_Subset, FS_CardinalityType
<1>2. /\ \A T \in SUBSET S : g[T] = IF T = {} THEN 0 ELSE f[First(T)] + g[T \ {First(T)}]
      /\ \A T \in SUBSET R : h[T] = IF T = {} THEN 0 ELSE f[First(T)] + h[T \ {First(T)}]
  BY DEF Unfolds
<1>3. Agree(0)
  BY <1>1, <1>2, FS_EmptySet
<1>4. ASSUME NEW n \in Nat, Agree(n) PROVE Agree(n + 1)
  <2> SUFFICES ASSUME NEW T \in SUBSET (S \cap R), Cardinality(T) = n + 1 PROVE g[T] = h[T]
    OBVIOUS
  <2>1. T # {} /\ IsFiniteSet(T)
    BY <1>1, FS_EmptySet
  <2>2. Cardinality(T \ {First(T)}) = n /\ T \ {First(T)} \in SUBSET (S \cap R)
    <3>1. Cardinality(T \ {First(T)}) = Cardinality(T) - 1
      BY <2>1, FirstFacts
    <3>2. (n + 1) - 1 = n
      OBVIOUS
    <3> QED
      BY <3>1, <3>2
  <2>3. g[T \ {First(T)}] = h[T \ {First(T)}]
    BY <1>4, <2>2
  <2> QED
    BY <1>1, <1>2, <2>1, <2>3
<1> HIDE DEF Agree
<1>5. A = Nat
  <2>1. A \in SUBSET Nat /\ 0 \in A /\ \A n \in A : n + 1 \in A
    BY <1>3, <1>4
  <2> HIDE DEF A
  <2> QED
    BY <2>1, SetInduction
<1>6. \A n \in Nat : Agree(n)
  BY <1>5
<1> QED
  BY <1>1, <1>6 DEF Agree

\* There is one for every finite set.
LEMMA UnfoldsExists ==
  ASSUME NEW f, NEW S, Summable(f, S)
  PROVE  \E g : IntUnfolds(g, f, S)
<1>0. IsFiniteSet(S) /\ \A x \in S : f[x] \in Int
  BY DEF Summable
<1> DEFINE Sub(n) == {s \in SUBSET S : Cardinality(s) <= n}
           Body(g, s) == IF s = {} THEN 0 ELSE f[First(s)] + g[s \ {First(s)}]
           Good(g, n) == \A s \in Sub(n) : g[s] = Body(g, s)
           Summed(n) == \E g \in [Sub(n) -> Int] : Good(g, n)
           A == {n \in Nat : Summed(n)}
<1>1. \A T \in SUBSET S : IsFiniteSet(T) /\ Cardinality(T) \in Nat /\ Cardinality(T) <= Cardinality(S)
  BY <1>0, FS_Subset, FS_CardinalityType
<1>2. Summed(0)
  <2> DEFINE z == [s \in Sub(0) |-> 0]
  <2>1. \A s \in Sub(0) : s = {} /\ z[s] = 0
    BY <1>1, FS_EmptySet
  <2>2. z \in [Sub(0) -> Int]
    OBVIOUS
  <2> HIDE DEF z
  <2>3. Good(z, 0)
    BY <2>1
  <2> QED
    BY <2>2, <2>3
<1>3. ASSUME NEW n \in Nat, Summed(n) PROVE Summed(n + 1)
  <2>1. PICK g \in [Sub(n) -> Int] : Good(g, n)
    BY <1>3
  <2> DEFINE h == [s \in Sub(n + 1) |-> Body(g, s)]
  <2>2. ASSUME NEW s \in Sub(n + 1), s # {}
        PROVE  First(s) \in s /\ s \ {First(s)} \in Sub(n) /\ s \ {First(s)} \in Sub(n + 1)
    <3>1. /\ First(s) \in s /\ Cardinality(s \ {First(s)}) = Cardinality(s) - 1
          /\ Cardinality(s) \in Nat /\ Cardinality(s) <= n + 1
      BY <1>1, <2>2, FirstFacts
    <3>2. Cardinality(s \ {First(s)}) <= n /\ Cardinality(s \ {First(s)}) <= n + 1
      BY <3>1
    <3>3. s \ {First(s)} \in SUBSET S
      OBVIOUS
    <3> QED
      BY <3>1, <3>2, <3>3
  <2>3. ASSUME NEW s \in Sub(n + 1) PROVE Body(g, s) \in Int
    <3>1. CASE s = {}
      BY <3>1
    <3>2. CASE s # {}
      <4>1. f[First(s)] \in Int /\ g[s \ {First(s)}] \in Int
        BY <1>0, <2>2, <3>2
      <4> QED
        BY <3>2, <4>1
    <3> QED
      BY <3>1, <3>2
  <2>4. h \in [Sub(n + 1) -> Int]
    BY <2>3
  <2>5. \A s \in Sub(n) : s \in Sub(n + 1) /\ h[s] = g[s]
    <3>1. \A s \in Sub(n) : s \in Sub(n + 1)
      BY <1>1
    <3> QED
      BY <2>1, <3>1
  <2>6. \A s \in Sub(n + 1) : h[s] = Body(g, s)
    OBVIOUS
  <2> HIDE DEF h
  <2>7. ASSUME NEW s \in Sub(n + 1) PROVE h[s] = Body(h, s)
    <3>1. CASE s = {}
      BY <2>6, <3>1
    <3>2. CASE s # {}
      <4>1. h[s \ {First(s)}] = g[s \ {First(s)}]
        BY <2>2, <2>5, <3>2
      <4>2. h[s] = Body(g, s)
        BY <2>6
      <4> QED
        BY <3>2, <4>1, <4>2
    <3> QED
      BY <3>1, <3>2
  <2>8. Good(h, n + 1)
    BY <2>7
  <2> HIDE DEF Good, Body, Sub
  <2> QED
    BY <2>4, <2>8
<1> HIDE DEF Summed
<1>4. A = Nat
  <2>1. A \in SUBSET Nat /\ 0 \in A /\ \A n \in A : n + 1 \in A
    BY <1>2, <1>3
  <2> HIDE DEF A
  <2> QED
    BY <2>1, SetInduction
<1>5. Summed(Cardinality(S))
  BY <1>0, <1>4, FS_CardinalityType
<1>6. Sub(Cardinality(S)) = SUBSET S
  BY <1>1
<1>7. PICK g \in [SUBSET S -> Int] : \A s \in SUBSET S : g[s] = Body(g, s)
  BY <1>5, <1>6 DEF Summed
<1>8. IntUnfolds(g, f, S)
  BY <1>7 DEF Unfolds, IntUnfolds
<1> QED
  BY <1>8

\* The sum taken apart: any element may be the first.
LEMMA UnfoldsAny ==
  ASSUME NEW f, NEW S, Summable(f, S), NEW g, IntUnfolds(g, f, S), NEW e \in S
  PROVE  g[S] = f[e] + g[S \ {e}]
<1> DEFINE Splits(n) == \A T \in SUBSET S : Cardinality(T) = n => \A x \in T : g[T] = f[x] + g[T \ {x}]
           A == {n \in Nat : Splits(n)}
<1>0. IsFiniteSet(S) /\ (\A x \in S : f[x] \in Int) /\ g \in [SUBSET S -> Int] /\ Unfolds(g, f, S)
  BY DEF Summable, IntUnfolds
<1>1. \A T \in SUBSET S : IsFiniteSet(T) /\ Cardinality(T) \in Nat
  BY <1>0, FS_Subset, FS_CardinalityType
<1>2. \A T \in SUBSET S : T # {} => First(T) \in T /\ g[T] = f[First(T)] + g[T \ {First(T)}]
  BY <1>0, <1>1, FirstFacts DEF Unfolds
<1>3. Splits(0)
  BY <1>1, FS_EmptySet
<1>4. ASSUME NEW n \in Nat, Splits(n) PROVE Splits(n + 1)
  <2> SUFFICES ASSUME NEW T \in SUBSET S, Cardinality(T) = n + 1, NEW x \in T
               PROVE  g[T] = f[x] + g[T \ {x}]
    OBVIOUS
  <2> DEFINE y == First(T)
             U == T \ {x, y}
  <2>1. y \in T /\ g[T] = f[y] + g[T \ {y}]
    BY <1>2
  <2> HIDE DEF y
  <2>2. CASE x = y
    BY <2>1, <2>2
  <2>3. CASE x # y
    <3>1. Cardinality(T \ {x}) = n /\ Cardinality(T \ {y}) = n
      <4>1. IsFiniteSet(T)
        BY <1>1
      <4>2. Cardinality(T \ {x}) = Cardinality(T) - 1 /\ Cardinality(T \ {y}) = Cardinality(T) - 1
        BY <2>1, <4>1, FS_RemoveElement
      <4>3. (n + 1) - 1 = n
        OBVIOUS
      <4> QED
        BY <4>2, <4>3
    <3>2. (T \ {y}) \ {x} = U /\ (T \ {x}) \ {y} = U /\ x \in T \ {y} /\ y \in T \ {x}
      BY <2>1, <2>3
    <3>3. T \ {x} \in SUBSET S /\ T \ {y} \in SUBSET S /\ U \in SUBSET S
      OBVIOUS
    <3> HIDE DEF U
    <3>4. g[T \ {y}] = f[x] + g[(T \ {y}) \ {x}] /\ g[T \ {x}] = f[y] + g[(T \ {x}) \ {y}]
      <4>1. \A V \in SUBSET S : Cardinality(V) = n => \A z \in V : g[V] = f[z] + g[V \ {z}]
        BY <1>4
      <4> DEFINE Ty == T \ {y}
                 Tx == T \ {x}
      <4>2. Ty \in SUBSET S /\ Tx \in SUBSET S /\ Cardinality(Ty) = n /\ Cardinality(Tx) = n
            /\ x \in Ty /\ y \in Tx
        BY <3>1, <3>2, <3>3
      <4> HIDE DEF Ty, Tx
      <4>3. g[Ty] = f[x] + g[Ty \ {x}] /\ g[Tx] = f[y] + g[Tx \ {y}]
        BY <4>1, <4>2
      <4> QED
        BY <4>3 DEF Ty, Tx
    <3>5. f[x] \in Int /\ f[y] \in Int /\ g[U] \in Int
      BY <1>0, <2>1, <3>3
    <3>6. g[T \ {y}] = f[x] + g[U] /\ g[T \ {x}] = f[y] + g[U]
      BY <3>2, <3>4, Zenon
    <3>7. \A a, b, u \in Int : a + (b + u) = b + (a + u)
      OBVIOUS
    <3>8. g[T] = f[y] + (f[x] + g[U])
      BY <2>1, <3>6, Zenon
    <3>9. f[y] + (f[x] + g[U]) = f[x] + (f[y] + g[U])
      BY <3>5, <3>7, Zenon
    <3> QED
      BY <3>6, <3>8, <3>9, Zenon
  <2> QED
    BY <2>2, <2>3
<1> HIDE DEF Splits
<1>5. A = Nat
  <2>1. A \in SUBSET Nat /\ 0 \in A /\ \A n \in A : n + 1 \in A
    BY <1>3, <1>4
  <2> HIDE DEF A
  <2> QED
    BY <2>1, SetInduction
<1>6. \A n \in Nat : Splits(n)
  BY <1>5
<1> QED
  <2>1. S \in SUBSET S /\ Cardinality(S) \in Nat
    BY <1>1
  <2> QED
    BY <1>6, <2>1 DEF Splits

\* What the proofs use: the sum over no channel is zero, and one channel's
\* share comes off.
LEMMA SumFacts ==
  ASSUME NEW f, NEW S, Summable(f, S)
  PROVE  /\ SumFunctionOnSet(f, S) \in Int
         /\ SumFunctionOnSet(f, {}) = 0
         /\ \A x \in S : SumFunctionOnSet(f, S) = f[x] + SumFunctionOnSet(f, S \ {x})
<1>1. ASSUME NEW T \in SUBSET S
      PROVE  \E g : Unfolds(g, f, T) /\ SumFunctionOnSet(f, T) = g[T]
  <2>1. Summable(f, T)
    BY FS_Subset DEF Summable
  <2>2. \E g : Unfolds(g, f, T)
    BY <2>1, UnfoldsExists DEF IntUnfolds
  <2> QED
    BY <2>2, SumIsUnfolded
<1>2. PICK g : IntUnfolds(g, f, S)
  BY UnfoldsExists
<1>3. ASSUME NEW T \in SUBSET S PROVE SumFunctionOnSet(f, T) = g[T]
  <2>1. PICK h : Unfolds(h, f, T) /\ SumFunctionOnSet(f, T) = h[T]
    BY <1>1
  <2>2. T \in SUBSET (S \cap T)
    OBVIOUS
  <2>3. Unfolds(g, f, S) /\ IsFiniteSet(S)
    BY <1>2 DEF IntUnfolds, Summable
  <2>4. g[T] = h[T]
    BY <2>1, <2>2, <2>3, UnfoldsUnique
  <2> QED
    BY <2>1, <2>4
<1>4. g[{}] = 0 /\ g[S] \in Int
  BY <1>2 DEF Unfolds, IntUnfolds
<1>5. ASSUME NEW x \in S PROVE g[S] = f[x] + g[S \ {x}]
  BY <1>2, UnfoldsAny
<1>6. S \in SUBSET S /\ {} \in SUBSET S /\ \A x \in S : S \ {x} \in SUBSET S
  OBVIOUS
<1> QED
  BY <1>3, <1>4, <1>5, <1>6

\* It depends on the values at S only,
LEMMA SumSame ==
  ASSUME NEW f, NEW h, NEW S, Summable(f, S), \A x \in S : f[x] = h[x]
  PROVE  Summable(h, S) /\ SumFunctionOnSet(f, S) = SumFunctionOnSet(h, S)
<1>1. Summable(h, S)
  BY DEF Summable
<1>2. PICK g : Unfolds(g, f, S) /\ SumFunctionOnSet(f, S) = g[S]
  <2>1. \E g : Unfolds(g, f, S)
    BY UnfoldsExists DEF IntUnfolds
  <2> QED
    BY <2>1, SumIsUnfolded
<1>3. PICK k : Unfolds(k, h, S) /\ SumFunctionOnSet(h, S) = k[S]
  <2>1. \E k : Unfolds(k, h, S)
    BY <1>1, UnfoldsExists DEF IntUnfolds
  <2> QED
    BY <2>1, SumIsUnfolded
<1>4. Unfolds(g, h, S)
  <2>1. \A s \in SUBSET S : s # {} => f[First(s)] = h[First(s)]
    BY DEF First
  <2> QED
    BY <1>2, <2>1 DEF Unfolds
<1>5. IsFiniteSet(S) /\ S \in SUBSET (S \cap S)
  BY DEF Summable
<1>6. g[S] = k[S]
  BY <1>3, <1>4, <1>5, UnfoldsUnique
<1> QED
  BY <1>1, <1>2, <1>3, <1>6

\* so that a change at one place changes it by as much.
LEMMA SumUpdate ==
  ASSUME NEW f, NEW h, NEW S, Summable(f, S), NEW e \in S, h[e] \in Int,
         \A x \in S : x # e => f[x] = h[x]
  PROVE  /\ SumFunctionOnSet(f, S) \in Int
         /\ SumFunctionOnSet(h, S) = SumFunctionOnSet(f, S) - f[e] + h[e]
<1> DEFINE R == S \ {e}
           a == SumFunctionOnSet(f, R)
<1>1. Summable(h, S) /\ Summable(f, R) /\ f[e] \in Int
  BY FS_Subset DEF Summable
<1>2. SumFunctionOnSet(f, S) = f[e] + a
  BY SumFacts
<1>3. SumFunctionOnSet(h, S) = h[e] + SumFunctionOnSet(h, R)
  BY <1>1, SumFacts
<1>4. a \in Int /\ SumFunctionOnSet(h, R) = a
  <2>1. \A x \in R : f[x] = h[x]
    OBVIOUS
  <2> HIDE DEF R
  <2> QED
    BY <1>1, <2>1, SumFacts, SumSame
<1> HIDE DEF a
<1> QED
  BY <1>1, <1>2, <1>3, <1>4

\* A sum of natural numbers is at least each of them, and zero if they are.
LEMMA SumOfNats ==
  ASSUME NEW f, NEW S, IsFiniteSet(S), \A x \in S : f[x] \in Nat
  PROVE  /\ SumFunctionOnSet(f, S) \in Nat
         /\ \A x \in S : SumFunctionOnSet(f, S) >= f[x]
         /\ (\A x \in S : f[x] = 0) => SumFunctionOnSet(f, S) = 0
<1>1. \A T \in SUBSET S : Summable(f, T) /\ IsFiniteSet(T) /\ Cardinality(T) \in Nat
  BY FS_Subset, FS_CardinalityType DEF Summable
<1> DEFINE Ok(n) == \A T \in SUBSET S : Cardinality(T) = n =>
              /\ SumFunctionOnSet(f, T) \in Nat
              /\ (\A x \in S : f[x] = 0) => SumFunctionOnSet(f, T) = 0
           A == {n \in Nat : Ok(n)}
<1>2. Ok(0)
  <2>1. SumFunctionOnSet(f, {}) = 0
    BY <1>1, SumFacts
  <2>2. \A T \in SUBSET S : Cardinality(T) = 0 => T = {}
    BY <1>1, FS_EmptySet
  <2> QED
    BY <2>1, <2>2
<1>3. ASSUME NEW n \in Nat, Ok(n) PROVE Ok(n + 1)
  <2> SUFFICES ASSUME NEW T \in SUBSET S, Cardinality(T) = n + 1
               PROVE  /\ SumFunctionOnSet(f, T) \in Nat
                      /\ (\A x \in S : f[x] = 0) => SumFunctionOnSet(f, T) = 0
    OBVIOUS
  <2>1. PICK x : x \in T
    <3>1. T # {}
      BY FS_EmptySet
    <3> QED
      BY <3>1
  <2> DEFINE U == T \ {x}
  <2>2. U \in SUBSET S /\ Cardinality(U) = n
    <3>1. Cardinality(U) = Cardinality(T) - 1
      BY <1>1, <2>1, FS_RemoveElement
    <3>2. (n + 1) - 1 = n /\ U \in SUBSET S
      OBVIOUS
    <3> QED
      BY <3>1, <3>2
  <2>3. SumFunctionOnSet(f, T) = f[x] + SumFunctionOnSet(f, U)
    BY <1>1, <2>1, SumFacts
  <2> HIDE DEF U
  <2>4. /\ SumFunctionOnSet(f, U) \in Nat
        /\ (\A z \in S : f[z] = 0) => SumFunctionOnSet(f, U) = 0
    BY <1>3, <2>2
  <2>5. f[x] \in Nat /\ ((\A z \in S : f[z] = 0) => f[x] = 0)
    BY <2>1
  <2> QED
    BY <2>3, <2>4, <2>5
<1> HIDE DEF Ok
<1>4. A = Nat
  <2>1. A \in SUBSET Nat /\ 0 \in A /\ \A n \in A : n + 1 \in A
    BY <1>2, <1>3
  <2> HIDE DEF A
  <2> QED
    BY <2>1, SetInduction
<1>5. ASSUME NEW T \in SUBSET S
      PROVE  /\ SumFunctionOnSet(f, T) \in Nat
             /\ (\A x \in S : f[x] = 0) => SumFunctionOnSet(f, T) = 0
  <2>1. Ok(Cardinality(T))
    BY <1>1, <1>4
  <2> QED
    BY <2>1 DEF Ok
<1>6. ASSUME NEW x \in S PROVE SumFunctionOnSet(f, S) >= f[x]
  <2>1. SumFunctionOnSet(f, S) = f[x] + SumFunctionOnSet(f, S \ {x})
    BY <1>1, SumFacts
  <2>2. SumFunctionOnSet(f, S \ {x}) \in Nat
    <3>1. S \ {x} \in SUBSET S
      OBVIOUS
    <3> QED
      BY <1>5, <3>1
  <2>3. f[x] \in Nat
    OBVIOUS
  <2> QED
    BY <2>1, <2>2, <2>3
<1>7. /\ SumFunctionOnSet(f, S) \in Nat
      /\ (\A x \in S : f[x] = 0) => SumFunctionOnSet(f, S) = 0
  <2>1. S \in SUBSET S
    OBVIOUS
  <2> QED
    BY <1>5, <2>1
<1> QED
  BY <1>6, <1>7

-----------------------------------------------------------------------------
(* The counters of the pool *)

\* The parts of PoolAccounting.
QueuedExact == \A k \in Class : queued[k] = SumFunctionOnSet(QueueLens(k), Live)
LoadExact == \A k \in Class : load[k] = queued[k] + Cardinality(ClassRunners(k))
IoExact == io_running = Cardinality(ClassRunners(IO))
InflightExact == pinflight = SumFunctionOnSet(inflight, Live)

\* The parts make up the whole.
LEMMA PoolParts == PoolAccounting <=> QueuedExact /\ LoadExact /\ IoExact /\ InflightExact
BY DEF PoolAccounting, QueuedExact, LoadExact, IoExact, InflightExact

\* A thread leaves only when the pool stops and nothing is queued.
StopInv == \A w \in Worker : wpc[w] = "exit" => stopping /\ \A k \in Class : queued[k] = 0

\* There are as many channels as the list has elements.
LEMMA LiveFinite ==
  ASSUME TypeOK, ListInv
  PROVE  IsFiniteSet(Live)
<1>1. chans \in Seq(Chan) /\ DOMAIN chans = 1..Len(chans) /\ Len(chans) \in Nat
  BY DEF TypeOK
<1>2. IsFiniteSet(1..Len(chans))
  BY <1>1, FS_Interval
<1>3. chans \in Surjection(1..Len(chans), Live)
  <2>1. \A i \in 1..Len(chans) : chans[i] \in Live
    BY <1>1 DEF ListInv
  <2>2. chans \in [1..Len(chans) -> Live]
    BY <1>1, <2>1
  <2>3. \A c \in Live : \E i \in 1..Len(chans) : chans[i] = c
    BY <1>1 DEF ListInv
  <2> QED
    BY <2>2, <2>3 DEF Surjection
<1> QED
  BY <1>2, <1>3, FS_Surjection DEF ExistsSurjection

\* What is summed are numbers.
Sums ==
    /\ \A k \in Class : Summable(QueueLens(k), Live) /\ \A c \in Live : QueueLens(k)[c] \in Nat
    /\ Summable(inflight, Live)

\* They are, in every state.
LEMMA PoolSummable == TypeOK /\ ListInv => Sums
<1> SUFFICES ASSUME TypeOK, ListInv PROVE Sums
  OBVIOUS
<1>1. \A c \in Live : c \in Chan
  BY DEF Live
<1>2. \A k \in Class, c \in Live : QueueLens(k)[c] = Len(queue[c][k]) /\ Len(queue[c][k]) \in Nat
  <2>1. \A k \in Class, c \in Live : queue[c][k] \in Seq(Job)
    BY <1>1 DEF TypeOK
  <2> QED
    BY <1>1, <2>1 DEF QueueLens
<1>3. \A c \in Live : inflight[c] \in Int
  BY <1>1 DEF TypeOK
<1> QED
  BY <1>2, <1>3, LiveFinite DEF Summable, Sums

\* No job is queued or taken, and no channel comes or goes.
LEMMA QueuedSame ==
  ASSUME TypeOK, ListInv, QueuedExact, Live' = Live, UNCHANGED <<queue, queued>>
  PROVE  QueuedExact'
<1>1. \A k \in Class : QueueLens(k)' = QueueLens(k)
  BY DEF QueueLens
<1> QED
  BY <1>1 DEF QueuedExact

\* One job is queued or taken.
LEMMA QueuedChange ==
  ASSUME TypeOK, ListInv, QueuedExact, Live' = Live, NEW c \in Live, NEW k \in Class, NEW d \in Int,
         \A x \in Chan, l \in Class : ~(x = c /\ l = k) => queue'[x][l] = queue[x][l],
         Len(queue'[c][k]) = Len(queue[c][k]) + d,
         queued'[k] = queued[k] + d, \A l \in Class : l # k => queued'[l] = queued[l]
  PROVE  QueuedExact'
<1>1. c \in Chan /\ Summable(QueueLens(k), Live) /\ QueueLens(k)[c] \in Nat
  BY PoolSummable DEF Live, Sums
<1>2. \A l \in Class : l # k => QueueLens(l)' = QueueLens(l)
  BY DEF QueueLens
<1>3. /\ QueueLens(k)[c] = Len(queue[c][k]) /\ (QueueLens(k)')[c] = Len(queue'[c][k])
      /\ \A x \in Live : x # c => QueueLens(k)[x] = (QueueLens(k)')[x]
  BY <1>1 DEF QueueLens, Live
<1>4. (QueueLens(k)')[c] = QueueLens(k)[c] + d /\ (QueueLens(k)')[c] \in Int
  BY <1>1, <1>3
<1>5. PICK f : f = QueueLens(k)
  OBVIOUS
<1>6. PICK h : h = QueueLens(k)'
  OBVIOUS
<1>7. SumFunctionOnSet(f, Live) \in Int /\ SumFunctionOnSet(h, Live) = SumFunctionOnSet(f, Live) - f[c] + h[c]
  <2>1. Summable(f, Live) /\ h[c] \in Int /\ \A x \in Live : x # c => f[x] = h[x]
    BY <1>1, <1>3, <1>4, <1>5, <1>6
  <2> QED
    BY <2>1, SumUpdate
<1>8. SumFunctionOnSet(h, Live) = queued'[k]
  <2>1. queued[k] = SumFunctionOnSet(f, Live)
    BY <1>5 DEF QueuedExact
  <2>2. f[c] \in Nat /\ h[c] = f[c] + d
    BY <1>1, <1>4, <1>5, <1>6
  <2> QED
    BY <1>7, <2>1, <2>2
<1>9. queued'[k] = SumFunctionOnSet(QueueLens(k)', Live')
  BY <1>6, <1>8
<1>10. \A l \in Class : l # k => queued'[l] = SumFunctionOnSet(QueueLens(l)', Live')
  BY <1>2 DEF QueuedExact
<1> QED
  BY <1>9, <1>10 DEF QueuedExact

\* A completion is counted or taken off.
LEMMA InflightChange ==
  ASSUME TypeOK, ListInv, InflightExact, Live' = Live, NEW c \in Live, NEW d \in Int,
         \A x \in Chan : x # c => inflight'[x] = inflight[x],
         inflight'[c] = inflight[c] + d, pinflight' = pinflight + d
  PROVE  InflightExact'
<1>1. Summable(inflight, Live) /\ inflight[c] \in Int
  BY PoolSummable DEF Summable, Sums
<1>2. \A x \in Live : x # c => inflight[x] = inflight'[x]
  BY DEF Live
<1>3. PICK f : f = inflight
  OBVIOUS
<1>4. PICK h : h = inflight'
  OBVIOUS
<1>5. f[c] \in Int /\ h[c] = f[c] + d /\ h[c] \in Int
  BY <1>1, <1>3, <1>4
<1>6. SumFunctionOnSet(f, Live) \in Int /\ SumFunctionOnSet(h, Live) = SumFunctionOnSet(f, Live) - f[c] + h[c]
  BY <1>1, <1>2, <1>3, <1>4, <1>5, SumUpdate
<1>7. pinflight = SumFunctionOnSet(f, Live)
  BY <1>3 DEF InflightExact
<1>8. pinflight' = SumFunctionOnSet(h, Live)
  BY <1>5, <1>6, <1>7
<1> QED
  BY <1>4, <1>8 DEF InflightExact

\* f and h agree but for c, and R is S with c.
SameBut(f, h, c) == \A x \in Chan : x # c => f[x] = h[x]
Grows(S, R, c) == R = S \cup {c} /\ c \notin S

\* One more channel.
LEMMA SumGrows ==
  ASSUME NEW S \in SUBSET Chan, NEW R, NEW c, Grows(S, R, c), NEW f, NEW h, SameBut(f, h, c),
         Summable(f, S), Summable(h, R)
  PROVE  /\ SumFunctionOnSet(f, S) \in Int /\ h[c] \in Int
         /\ SumFunctionOnSet(h, R) = h[c] + SumFunctionOnSet(f, S)
<1>1. S = R \ {c} /\ c \in R
  BY DEF Grows
<1>2. SumFunctionOnSet(h, R) = h[c] + SumFunctionOnSet(h, R \ {c})
  BY <1>1, SumFacts
<1>3. SumFunctionOnSet(f, S) = SumFunctionOnSet(h, S)
  <2>1. \A x \in S : f[x] = h[x]
    BY DEF SameBut, Grows
  <2> QED
    BY <2>1, SumSame
<1>4. SumFunctionOnSet(f, S) \in Int /\ h[c] \in Int
  BY <1>1, SumFacts DEF Summable
<1> QED
  BY <1>1, <1>2, <1>3, <1>4

\* A channel without jobs comes or goes.
LEMMA LiveChange ==
  ASSUME TypeOK, ListInv, TypeOK', ListInv', QueuedExact, InflightExact, NEW c \in Chan,
         \/ Grows(Live, Live', c) /\ pinflight' = pinflight + inflight'[c]
         \/ Grows(Live', Live, c) /\ pinflight' = pinflight - inflight[c],
         queued' = queued, \A k \in Class : Len(queue[c][k]) = 0 /\ Len(queue'[c][k]) = 0,
         \A x \in Chan : x # c => queue'[x] = queue[x] /\ inflight'[x] = inflight[x]
  PROVE  QueuedExact' /\ InflightExact'
<1>0. Live \in SUBSET Chan /\ Live' \in SUBSET Chan
  BY DEF Live
<1>1. Sums
  BY PoolSummable
<1>2. Sums'
  BY PoolSummable, PTL
<1>3. ASSUME NEW k \in Class PROVE queued'[k] = SumFunctionOnSet(QueueLens(k)', Live')
  <2>1. PICK f : f = QueueLens(k)
    OBVIOUS
  <2>2. PICK h : h = QueueLens(k)'
    OBVIOUS
  <2>3. Summable(f, Live) /\ Summable(h, Live')
    BY <1>1, <1>2, <2>1, <2>2 DEF Sums
  <2>4. f[c] = 0 /\ h[c] = 0 /\ SameBut(f, h, c) /\ SameBut(h, f, c)
    BY <2>1, <2>2 DEF QueueLens, SameBut
  <2>5. queued[k] = SumFunctionOnSet(f, Live) /\ queued'[k] = queued[k]
    BY <2>1 DEF QueuedExact
  <2>6. CASE Grows(Live, Live', c)
    <3>1. /\ SumFunctionOnSet(f, Live) \in Int
          /\ SumFunctionOnSet(h, Live') = h[c] + SumFunctionOnSet(f, Live)
      BY <1>0, <2>3, <2>4, <2>6, SumGrows
    <3> QED
      BY <2>2, <2>4, <2>5, <3>1
  <2>7. CASE Grows(Live', Live, c)
    <3>1. /\ SumFunctionOnSet(h, Live') \in Int
          /\ SumFunctionOnSet(f, Live) = f[c] + SumFunctionOnSet(h, Live')
      BY <1>0, <2>3, <2>4, <2>7, SumGrows
    <3> QED
      BY <2>2, <2>4, <2>5, <3>1
  <2> QED
    BY <2>6, <2>7
<1>4. pinflight' = SumFunctionOnSet(inflight', Live')
  <2>1. PICK f : f = inflight
    OBVIOUS
  <2>2. PICK h : h = inflight'
    OBVIOUS
  <2>3. Summable(f, Live) /\ Summable(h, Live')
    BY <1>1, <1>2, <2>1, <2>2 DEF Sums
  <2>4. SameBut(f, h, c) /\ SameBut(h, f, c)
    BY <2>1, <2>2 DEF SameBut
  <2>5. pinflight = SumFunctionOnSet(f, Live)
    BY <2>1 DEF InflightExact
  <2>6. CASE Grows(Live, Live', c) /\ pinflight' = pinflight + inflight'[c]
    <3>1. /\ SumFunctionOnSet(f, Live) \in Int /\ h[c] \in Int
          /\ SumFunctionOnSet(h, Live') = h[c] + SumFunctionOnSet(f, Live)
      BY <1>0, <2>3, <2>4, <2>6, SumGrows
    <3> QED
      BY <2>2, <2>5, <2>6, <3>1
  <2>7. CASE Grows(Live', Live, c) /\ pinflight' = pinflight - inflight[c]
    <3>1. /\ SumFunctionOnSet(h, Live') \in Int /\ f[c] \in Int
          /\ SumFunctionOnSet(f, Live) = f[c] + SumFunctionOnSet(h, Live')
      BY <1>0, <2>3, <2>4, <2>7, SumGrows
    <3> QED
      BY <2>1, <2>2, <2>5, <2>7, <3>1
  <2> QED
    BY <2>6, <2>7
<1> QED
  BY <1>3, <1>4 DEF QueuedExact, InflightExact

\* The threads inside a job of a class can be counted.
LEMMA ClassRunnersFinite ==
  ASSUME NEW k
  PROVE  IsFiniteSet(ClassRunners(k)) /\ Cardinality(ClassRunners(k)) \in Nat
BY WorkerAssumption, FS_Subset, FS_CardinalityType DEF ClassRunners

\* A step that starts and ends no job leaves every set of runners alone.
LEMMA ClassRunnersSame ==
  ASSUME \A w \in Worker : wpc'[w] = "work" <=> wpc[w] = "work", wjob' = wjob
  PROVE  \A k \in Class : ClassRunners(k)' = ClassRunners(k)
BY DEF ClassRunners

\* A step that leaves the pool's counters alone, and what they count.
LEMMA PoolSame ==
  ASSUME TypeOK, ListInv, PoolAccounting, Live' = Live,
         \A w \in Worker : wpc'[w] = "work" <=> wpc[w] = "work",
         UNCHANGED <<queue, inflight, wjob, queued, load, io_running, pinflight>>
  PROVE  PoolAccounting'
<1>1. \A k \in Class : ClassRunners(k)' = ClassRunners(k)
  BY ClassRunnersSame
<1>2. QueuedExact'
  BY PoolParts, QueuedSame
<1>3. LoadExact' /\ IoExact' /\ InflightExact'
  BY <1>1, PoolParts, ClassFacts DEF LoadExact, IoExact, InflightExact
<1> QED
  BY <1>2, <1>3, PoolParts, PTL

\* A worker takes a job off a queue.
LEMMA PoolTake ==
  ASSUME ChanInv, ListInv, PoolAccounting, NEW w \in Worker, Take(w)
  PROVE  PoolAccounting'
<1>0. TypeOK /\ QueuesOwn
  BY DEF ChanInv
<1>1. PICK i \in DOMAIN chans :
        LET k == PickClass
            c == chans[i] IN
         /\ IsNextChan(k, i)
         /\ queue' = [queue EXCEPT ![c][k] = Tail(@)]
         /\ wjob' = [wjob EXCEPT ![w] = Head(queue[c][k])]
         /\ queued' = [queued EXCEPT ![k] = @ - 1]
         /\ io_running' = IF k = IO THEN io_running + 1 ELSE io_running
  BY DEF Take
<1>2. PICK k \in Class : k = PickClass
  BY ClassFacts DEF Take
<1>3. PICK c \in Live : c = chans[i]
  BY DEF ListInv
<1>4. c \in Chan /\ queue[c][k] # <<>> /\ queue[c][k] \in Seq(Job)
  BY <1>0, <1>1, <1>2, <1>3 DEF Live, IsNextChan, TypeOK
<1>5. /\ queue' = [queue EXCEPT ![c][k] = Tail(@)]
      /\ wjob' = [wjob EXCEPT ![w] = Head(queue[c][k])]
      /\ queued' = [queued EXCEPT ![k] = @ - 1]
      /\ io_running' = IF k = IO THEN io_running + 1 ELSE io_running
      /\ wpc' = [wpc EXCEPT ![w] = "work"] /\ wpc[w] = "awake"
      /\ UNCHANGED <<inflight, load, pinflight, opc>>
  BY <1>1, <1>2, <1>3 DEF Take, ownerVars
<1>6. Live' = Live
  BY <1>5 DEF Live
<1>7. Head(queue[c][k]).cls = k
  BY <1>0, <1>4 DEF QueuesOwn
<1>8. QueuedExact'
  <2>1. Len(queue'[c][k]) = Len(queue[c][k]) + (-1)
    <3>1. queue'[c][k] = Tail(queue[c][k])
      BY <1>0, <1>4, <1>5 DEF TypeOK
    <3> QED
      BY <1>4, <3>1
  <2>2. \A x \in Chan, l \in Class : ~(x = c /\ l = k) => queue'[x][l] = queue[x][l]
    BY <1>0, <1>5 DEF TypeOK
  <2>3. queued'[k] = queued[k] + (-1) /\ \A l \in Class : l # k => queued'[l] = queued[l]
    BY <1>0, <1>5 DEF TypeOK
  <2>4. -1 \in Int /\ QueuedExact
    BY PoolParts
  <2> QED
    BY <1>0, <1>6, <2>1, <2>2, <2>3, <2>4, QueuedChange
<1>9. /\ w \notin ClassRunners(k) /\ ClassRunners(k)' = ClassRunners(k) \cup {w}
      /\ \A l \in Class : l # k => ClassRunners(l)' = ClassRunners(l)
  BY <1>0, <1>5, <1>7 DEF ClassRunners, TypeOK
<1>10. Cardinality(ClassRunners(k)') = Cardinality(ClassRunners(k)) + 1
  BY <1>9, ClassRunnersFinite, FS_AddElement
<1>11. LoadExact' /\ IoExact'
  <2>1. \A l \in Class : Cardinality(ClassRunners(l)) \in Nat /\ queued[l] \in Int
    BY <1>0, ClassRunnersFinite DEF TypeOK
  <2>2. queued'[k] = queued[k] - 1 /\ \A l \in Class : l # k => queued'[l] = queued[l]
    BY <1>0, <1>5 DEF TypeOK
  <2>3. load'[k] = queued'[k] + Cardinality(ClassRunners(k)')
    <3>1. load[k] = queued[k] + Cardinality(ClassRunners(k)) /\ load' = load
      BY <1>5, PoolParts DEF LoadExact
    <3> QED
      BY <1>10, <2>1, <2>2, <3>1
  <2>4. LoadExact'
    BY <1>5, <1>9, <2>2, <2>3, PoolParts DEF LoadExact
  <2>5. IoExact'
    <3>1. CASE k = IO
      BY <1>5, <1>10, <3>1, PoolParts DEF IoExact
    <3>2. CASE k # IO
      BY <1>5, <1>9, <3>2, ClassFacts, PoolParts DEF IoExact
    <3> QED
      BY <3>1, <3>2
  <2> QED
    BY <2>4, <2>5
<1>12. InflightExact'
  BY <1>5, <1>6, PoolParts DEF InflightExact
<1> QED
  BY <1>8, <1>11, <1>12, PoolParts, PTL

\* A worker ends a job.
LEMMA PoolFinish ==
  ASSUME ChanInv, ListInv, PoolAccounting, NEW w \in Worker, Finish(w)
  PROVE  PoolAccounting'
<1>0. TypeOK
  BY DEF ChanInv
<1>1. PICK j \in Job : j = wjob[w]
  BY <1>0 DEF Finish, TypeOK
<1>2. PICK c \in Live : c = j.ch
  BY <1>1, RunningIsLive DEF Finish
<1>3. PICK k \in Class : k = j.cls
  BY <1>1 DEF Job
<1>4. /\ wpc[w] = "work"
      /\ load' = [load EXCEPT ![k] = @ - 1]
      /\ io_running' = IF k = IO THEN io_running - 1 ELSE io_running
      /\ UNCHANGED <<queue, queued>>
      /\ FinishClosing(c) \/ FinishOpen(c, j)
  BY <1>1, <1>2, <1>3 DEF Finish
<1>5. \A v \in Worker : (wpc'[v] = "work" <=> wpc[v] = "work" /\ v # w) /\ (v # w => wjob'[v] = wjob[v])
  <2> DEFINE back == [wpc EXCEPT ![w] = "awake"]
  <2>1. \A v \in Worker : back[v] = "work" <=> wpc[v] = "work" /\ v # w
    BY <1>0 DEF TypeOK
  <2>2. wpc' = back \/ wpc' = Awakened(back)
    BY DEF Finish
  <2>3. back \in [Worker -> {"awake", "wait", "work", "exit"}]
    BY <1>0 DEF TypeOK
  <2> HIDE DEF back
  <2>4. \A v \in Worker : wpc'[v] = "work" <=> wpc[v] = "work" /\ v # w
    BY <2>1, <2>2, <2>3, AwakenedType
  <2> QED
    BY <1>0, <2>4 DEF TypeOK, Finish
<1>6. Live' = Live
  <2>1. opc' = opc \/ BroadcastQuiesce
    BY <1>4 DEF FinishClosing, FinishOpen
  <2>2. \A x \in Chan : opc'[x] # "none" <=> opc[x] # "none"
    BY <1>0, <2>1 DEF BroadcastQuiesce, TypeOK
  <2> QED
    BY <2>2 DEF Live
<1>7. QueuedExact'
  BY <1>0, <1>4, <1>6, PoolParts, QueuedSame
<1>8. /\ w \in ClassRunners(k) /\ ClassRunners(k)' = ClassRunners(k) \ {w}
      /\ \A l \in Class : l # k => ClassRunners(l)' = ClassRunners(l)
  BY <1>1, <1>3, <1>4, <1>5 DEF ClassRunners
<1>9. Cardinality(ClassRunners(k)') = Cardinality(ClassRunners(k)) - 1
  BY <1>8, ClassRunnersFinite, FS_RemoveElement
<1>10. LoadExact' /\ IoExact'
  <2>1. \A l \in Class : Cardinality(ClassRunners(l)) \in Nat /\ queued[l] \in Int
    BY <1>0, ClassRunnersFinite DEF TypeOK
  <2>2. load'[k] = load[k] - 1 /\ \A l \in Class : l # k => load'[l] = load[l]
    BY <1>0, <1>4 DEF TypeOK
  <2>3. load'[k] = queued'[k] + Cardinality(ClassRunners(k)')
    <3>1. load[k] = queued[k] + Cardinality(ClassRunners(k)) /\ queued' = queued
      BY <1>4, PoolParts DEF LoadExact
    <3> QED
      BY <1>9, <2>1, <2>2, <3>1
  <2>4. LoadExact'
    BY <1>4, <1>8, <2>2, <2>3, PoolParts DEF LoadExact
  <2>5. IoExact'
    <3>1. CASE k = IO
      BY <1>4, <1>9, <3>1, PoolParts DEF IoExact
    <3>2. CASE k # IO
      BY <1>4, <1>8, <3>2, ClassFacts, PoolParts DEF IoExact
    <3> QED
      BY <3>1, <3>2
  <2> QED
    BY <2>4, <2>5
<1>11. InflightExact'
  <2>1. CASE FinishClosing(c)
    <3>1. /\ inflight' = [inflight EXCEPT ![c] = @ - 1] /\ pinflight' = pinflight - 1
      BY <2>1 DEF FinishClosing
    <3>2. c \in Chan /\ inflight \in [Chan -> Int] /\ pinflight \in Int
      BY <1>0 DEF Live, TypeOK
    <3>3. /\ \A x \in Chan : x # c => inflight'[x] = inflight[x]
          /\ inflight'[c] = inflight[c] + (-1) /\ pinflight' = pinflight + (-1) /\ -1 \in Int
      BY <3>1, <3>2
    <3> QED
      BY <1>0, <1>6, <3>3, PoolParts, InflightChange
  <2>2. CASE FinishOpen(c, j)
    BY <1>6, <2>2, PoolParts DEF FinishOpen, InflightExact
  <2> QED
    BY <1>4, <2>1, <2>2
<1> QED
  BY <1>7, <1>10, <1>11, PoolParts, PTL

\* pool_submit counts the job wherever it will be taken off.
LEMMA PoolSubmit ==
  ASSUME ChanInv, ListInv, PoolAccounting, NEW c \in Chan, NEW id \in JobId, NEW k \in Class,
         Submit(c, id, k)
  PROVE  PoolAccounting'
<1>0. TypeOK
  BY DEF ChanInv
<1>1. c \in Live /\ Live' = Live
  BY DEF Submit, Live, ownerVars
<1>2. /\ load' = [load EXCEPT ![k] = @ + 1]
      /\ queue' = [queue EXCEPT ![c][k] = Append(@, [id |-> id, ch |-> c, cls |-> k])]
      /\ queued' = [queued EXCEPT ![k] = @ + 1]
      /\ pinflight' = pinflight + 1
      /\ inflight' = [inflight EXCEPT ![c] = @ + 1]
      /\ SignalCv /\ UNCHANGED <<io_running, wjob>>
  BY DEF Submit
<1>3. \A l \in Class : ClassRunners(l)' = ClassRunners(l)
  BY <1>0, <1>2, SignalCvType, ClassRunnersSame
<1>4. QueuedExact'
  <2>1. Len(queue'[c][k]) = Len(queue[c][k]) + 1
    <3>1. queue'[c][k] = Append(queue[c][k], [id |-> id, ch |-> c, cls |-> k]) /\ queue[c][k] \in Seq(Job)
      BY <1>0, <1>2 DEF TypeOK
    <3> QED
      BY <3>1
  <2>2. \A x \in Chan, l \in Class : ~(x = c /\ l = k) => queue'[x][l] = queue[x][l]
    BY <1>0, <1>2 DEF TypeOK
  <2>3. queued'[k] = queued[k] + 1 /\ \A l \in Class : l # k => queued'[l] = queued[l]
    BY <1>0, <1>2 DEF TypeOK
  <2>4. 1 \in Int /\ QueuedExact
    BY PoolParts
  <2> QED
    BY <1>0, <1>1, <2>1, <2>2, <2>3, <2>4, QueuedChange
<1>5. LoadExact' /\ IoExact'
  <2>1. \A l \in Class : Cardinality(ClassRunners(l)) \in Nat /\ queued[l] \in Int
    BY <1>0, ClassRunnersFinite DEF TypeOK
  <2>2. \A l \in Class : /\ load'[l] = IF l = k THEN load[l] + 1 ELSE load[l]
                         /\ queued'[l] = IF l = k THEN queued[l] + 1 ELSE queued[l]
    BY <1>0, <1>2 DEF TypeOK
  <2>3. \A l \in Class : load[l] = queued[l] + Cardinality(ClassRunners(l))
    BY PoolParts DEF LoadExact
  <2>4. \A l \in Class : load'[l] = queued'[l] + Cardinality(ClassRunners(l))
    BY <2>1, <2>2, <2>3
  <2>5. LoadExact'
    BY <1>3, <2>4 DEF LoadExact
  <2> QED
    BY <1>2, <1>3, <2>5, ClassFacts, PoolParts DEF IoExact
<1>6. InflightExact'
  <2>1. /\ \A x \in Chan : x # c => inflight'[x] = inflight[x]
        /\ inflight'[c] = inflight[c] + 1 /\ pinflight' = pinflight + 1 /\ 1 \in Int
    BY <1>0, <1>2 DEF TypeOK
  <2> QED
    BY <1>0, <1>1, <2>1, PoolParts, InflightChange
<1> QED
  BY <1>4, <1>5, <1>6, PoolParts, PTL

\* dyn_pool_drain takes a completion off both counts.
LEMMA PoolPop ==
  ASSUME ChanInv, ListInv, PoolAccounting, NEW c \in Chan, opc[c] # "none", PopDone(c),
         UNCHANGED <<queue, queued, load, io_running, workerVars>>
  PROVE  PoolAccounting'
<1>0. TypeOK
  BY DEF ChanInv
<1>1. c \in Live /\ Live' = Live
  BY <1>0 DEF PopDone, Live, TypeOK
<1>2. \A l \in Class : ClassRunners(l)' = ClassRunners(l)
  BY DEF ClassRunners, workerVars
<1>3. QueuedExact'
  BY <1>0, <1>1, PoolParts, QueuedSame
<1>4. LoadExact' /\ IoExact'
  BY <1>2, ClassFacts, PoolParts DEF LoadExact, IoExact
<1>5. InflightExact'
  <2>1. inflight' = [inflight EXCEPT ![c] = @ - 1] /\ pinflight' = pinflight - 1
    BY DEF PopDone
  <2>2. inflight \in [Chan -> Int] /\ pinflight \in Int
    BY <1>0 DEF TypeOK
  <2>3. /\ \A x \in Chan : x # c => inflight'[x] = inflight[x]
        /\ inflight'[c] = inflight[c] + (-1) /\ pinflight' = pinflight + (-1) /\ -1 \in Int
    BY <2>1, <2>2
  <2> QED
    BY <1>0, <1>1, <2>3, PoolParts, InflightChange
<1> QED
  BY <1>3, <1>4, <1>5, PoolParts, PTL

\* Naturals that add up to zero.
LEMMA NoneOfTwo == \A a, b \in Nat : a + b = 0 => a = 0 /\ b = 0
  OBVIOUS

\* Nothing is queued once a thread has left.
LEMMA StopEmpties ==
  ASSUME TypeOK, DoorsAgree, ChanAccounting, ListInv, PoolAccounting, \A k \in Class : queued[k] = 0
  PROVE  \A c \in Chan, k \in Class : queue[c][k] = <<>>
<1> SUFFICES ASSUME NEW c \in Chan, NEW k \in Class PROVE queue[c][k] = <<>>
  OBVIOUS
<1>1. queue[c][k] \in Seq(Job)
  BY DEF TypeOK
<1>2. CASE c \in Live
  <2>1. PICK f : f = QueueLens(k)
    OBVIOUS
  <2>2. IsFiniteSet(Live) /\ \A x \in Live : f[x] \in Nat
    BY <2>1, LiveFinite, PoolSummable DEF Sums
  <2>3. SumFunctionOnSet(f, Live) = 0
    BY <2>1, PoolParts DEF QueuedExact
  <2>4. SumFunctionOnSet(f, Live) >= f[c]
    BY <1>2, <2>2, SumOfNats
  <2>5. f[c] = 0
    BY <1>2, <2>2, <2>3, <2>4
  <2>6. Len(queue[c][k]) = 0
    BY <2>1, <2>5 DEF QueueLens
  <2> QED
    BY <1>1, <2>6
<1>3. CASE c \notin Live
  <2>1. inflight[c] = 0 /\ cdone[c] = <<>>
    BY <1>3 DEF Live, DoorsAgree
  <2>2. running[c] \in Nat /\ inflight[c] = QueueLen(c) + running[c] + Len(cdone[c])
    BY RunnersFinite DEF ChanAccounting
  <2>3. Len(queue[c][IO]) \in Nat /\ Len(queue[c][CPU]) \in Nat /\ Len(cdone[c]) \in Nat
    BY LenTypes
  <2>4. QueueLen(c) = Len(queue[c][IO]) + Len(queue[c][CPU])
    BY DEF QueueLen
  <2>5. Len(queue[c][IO]) = 0 /\ Len(queue[c][CPU]) = 0
    <3>1. PICK a \in Nat : a = Len(queue[c][IO])
      BY <2>3
    <3>2. PICK b \in Nat : b = Len(queue[c][CPU])
      BY <2>3
    <3>3. PICK r \in Nat : r = running[c]
      BY <2>2
    <3>4. PICK d \in Nat : d = Len(cdone[c])
      BY <2>3
    <3>5. 0 = (a + b) + r + d
      BY <2>1, <2>2, <2>4, <3>1, <3>2, <3>3, <3>4, Zenon
    <3>6. a = 0 /\ b = 0
      BY <3>5
    <3> QED
      BY <3>1, <3>2, <3>6
  <2>6. Len(queue[c][k]) = 0
    BY <2>5 DEF Class
  <2> QED
    BY <1>1, <2>6
<1> QED
  BY <1>2, <1>3

\* A channel that is not busy, or does not exist, has nothing queued.
LEMMA QueuesEmpty ==
  ASSUME ChanInv, NEW c \in Chan, ~Busy(c) \/ opc[c] = "none"
  PROVE  \A k \in Class : Len(queue[c][k]) = 0
<1>0. TypeOK
  BY DEF ChanInv
<1>1. QueueLen(c) = 0
  <2>1. CASE ~Busy(c)
    BY <2>1, NotBusy
  <2>2. CASE opc[c] = "none"
    <3>1. inflight[c] = 0
      BY <2>2 DEF ChanInv, DoorsAgree
    <3>2. running[c] \in Nat /\ inflight[c] = QueueLen(c) + running[c] + Len(cdone[c])
      BY RunnersFinite DEF ChanAccounting, ChanInv
    <3>3. QueueLen(c) \in Nat /\ Len(cdone[c]) \in Nat
      BY <1>0, LenTypes
    <3> QED
      BY <3>1, <3>2, <3>3
  <2> QED
    BY <2>1, <2>2
<1>2. Len(queue[c][IO]) \in Nat /\ Len(queue[c][CPU]) \in Nat
  BY <1>0, LenTypes
<1>3. Len(queue[c][IO]) + Len(queue[c][CPU]) = 0
  BY <1>1 DEF QueueLen
<1>4. Len(queue[c][IO]) = 0 /\ Len(queue[c][CPU]) = 0
  BY <1>2, <1>3, NoneOfTwo
<1> QED
  BY <1>4 DEF Class

\* dyn_pool_chan_new and the end of dyn_pool_chan_free.
LEMMA PoolChan ==
  ASSUME ChanInv, ListInv, TypeOK', ListInv', PoolAccounting, NEW c \in Chan,
         ChanNew(c) \/ (Unlink(c) /\ ~Busy(c) /\ opc[c] # "none")
  PROVE  PoolAccounting'
<1>0. TypeOK /\ DoorsAgree
  BY DEF ChanInv
<1>1. \A k \in Class : Len(queue[c][k]) = 0
  BY QueuesEmpty DEF ChanNew
<1>2. /\ \A k \in Class : Len(queue'[c][k]) = 0
      /\ \A x \in Chan : x # c => queue'[x] = queue[x] /\ inflight'[x] = inflight[x]
      /\ UNCHANGED <<queued, load, io_running, wpc, wjob>>
  <2>1. CASE ChanNew(c)
    BY <1>1, <2>1 DEF ChanNew, chanVars, workerVars
  <2>2. CASE Unlink(c)
    BY <1>0, <2>2 DEF Unlink, workerVars, TypeOK
  <2> QED
    BY <2>1, <2>2
<1>3. \/ Grows(Live, Live', c) /\ pinflight' = pinflight + inflight'[c]
      \/ Grows(Live', Live, c) /\ pinflight' = pinflight - inflight[c]
  <2>1. CASE ChanNew(c)
    <3>1. Grows(Live, Live', c)
      BY <1>0, <2>1 DEF ChanNew, Live, Grows, TypeOK
    <3>2. inflight'[c] = 0 /\ pinflight' = pinflight /\ pinflight \in Int
      BY <1>0, <2>1 DEF ChanNew, chanVars, DoorsAgree, TypeOK
    <3> QED
      BY <3>1, <3>2
  <2>2. CASE Unlink(c) /\ opc[c] # "none"
    <3>0. opc'[c] = "none" /\ \A x \in Chan : x # c => opc'[x] = opc[x]
      BY <1>0, <2>2 DEF Unlink, TypeOK
    <3>1. Grows(Live', Live, c)
      BY <2>2, <3>0 DEF Live, Grows
    <3>2. pinflight' = pinflight - inflight[c]
      BY <2>2 DEF Unlink, UnlinkAt
    <3> QED
      BY <3>1, <3>2
  <2> QED
    BY <2>1, <2>2
<1>4. QueuedExact' /\ InflightExact'
  <2>1. QueuedExact /\ InflightExact
    BY PoolParts
  <2> QED
    BY <1>0, <1>1, <1>2, <1>3, <2>1, LiveChange
<1>5. LoadExact' /\ IoExact'
  <2>1. \A k \in Class : ClassRunners(k)' = ClassRunners(k)
    BY <1>2 DEF ClassRunners
  <2> QED
    BY <1>2, <2>1, ClassFacts, PoolParts DEF LoadExact, IoExact
<1> QED
  BY <1>4, <1>5, PoolParts, PTL

\* dyn_pool_free, after its threads have ended.
LEMMA PoolEnd ==
  ASSUME ChanInv, ListInv, PoolAccounting, StopInv, PoolFree
  PROVE  PoolAccounting'
<1>0. TypeOK
  BY DEF ChanInv
<1>1. /\ Live' = {} /\ pinflight' = 0 /\ UNCHANGED <<queued, load, io_running, wpc, wjob>>
      /\ \A w \in Worker : wpc[w] = "exit"
  BY <1>0 DEF PoolFree, Live, workerVars
<1>2. \A k \in Class : queued[k] = 0
  BY <1>1, WorkerAssumption DEF StopInv
<1>3. \A f : SumFunctionOnSet(f, {}) = 0
  BY FS_EmptySet, SumOfNats
<1>4. QueuedExact' /\ InflightExact'
  BY <1>1, <1>2, <1>3 DEF QueuedExact, InflightExact
<1>5. LoadExact' /\ IoExact'
  <2>1. \A k \in Class : ClassRunners(k)' = ClassRunners(k)
    BY <1>1 DEF ClassRunners
  <2> QED
    BY <1>1, <2>1, ClassFacts, PoolParts DEF LoadExact, IoExact
<1> QED
  BY <1>4, <1>5, PoolParts, PTL

\* Every step keeps the pool's counters exact.
LEMMA PoolNext ==
  ASSUME ChanInv, ListInv, TypeOK', ListInv', PoolAccounting, StopInv, [Next]_vars
  PROVE  PoolAccounting'
<1>0. TypeOK
  BY DEF ChanInv
<1>1. ASSUME UNCHANGED <<queue, inflight, wjob, queued, load, io_running, pinflight>>,
             \A c \in Chan : opc'[c] = "none" <=> opc[c] = "none",
             \A w \in Worker : wpc'[w] = "work" <=> wpc[w] = "work"
      PROVE  PoolAccounting'
  <2>1. Live' = Live
    BY <1>1 DEF Live
  <2> QED
    BY <1>0, <1>1, <2>1, PoolSame
<1>2. ASSUME NEW w \in Worker, WorkerStep(w) PROVE PoolAccounting'
  <2>1. CASE Sleep(w) \/ SpuriousWake(w) \/ Exit(w)
    BY <1>0, <1>1, <2>1 DEF Sleep, SpuriousWake, Exit, chanVars, poolVars, ownerVars, TypeOK
  <2> QED
    BY <1>2, <2>1, PoolTake, PoolFinish DEF WorkerStep
<1>3. ASSUME NEW c \in Chan, OwnerStep(c) PROVE PoolAccounting'
  <2>1. CASE DrainBegin(c)
    <3>1. CASE cdone[c] = <<>>
      BY <1>1, <2>1, <3>1 DEF DrainBegin, ownerVars, workerVars
    <3>2. CASE cdone[c] # <<>>
      BY <2>1, <3>2, PoolPop DEF DrainBegin
    <3> QED
      BY <3>1, <3>2
  <2>2. CASE DrainNext(c)
    BY <2>2, PoolPop DEF DrainNext
  <2>3. CASE DrainEnd(c) \/ CloseWait(c) \/ SpuriousQuiesce(c)
    BY <1>0, <1>1, <2>3 DEF DrainEnd, CloseWait, SpuriousQuiesce, chanVars, poolVars, workerVars, TypeOK
  <2>4. CASE CloseRecheck(c) /\ Busy(c)
    BY <1>0, <1>1, <2>4 DEF CloseRecheck, chanVars, poolVars, workerVars, TypeOK
  <2>5. CASE CloseBegin(c) \/ (CloseRecheck(c) /\ ~Busy(c))
    BY <2>5, PoolChan DEF CloseBegin, CloseRecheck
  <2> QED
    BY <1>3, <2>1, <2>2, <2>3, <2>4, <2>5, PoolSubmit, PoolChan DEF OwnerStep
<1>4. CASE Stop
  <2>1. wpc \in [Worker -> {"awake", "wait", "work", "exit"}]
    BY <1>0 DEF TypeOK
  <2>2. \A w \in Worker : wpc'[w] = "work" <=> wpc[w] = "work"
    BY <1>4, <2>1, AwakenedType DEF Stop
  <2> QED
    BY <1>1, <1>4, <2>2 DEF Stop, chanVars, ownerVars
<1>5. CASE UNCHANGED vars
  BY <1>1, <1>5 DEF vars, chanVars, poolVars, ownerVars, workerVars
<1> QED
  BY <1>2, <1>3, <1>4, <1>5, PoolEnd DEF Next, Terminated

\* A thread that finds no job while the pool stops leaves an empty pool.
LEMMA StopNext ==
  ASSUME ChanInv, ListInv, PoolAccounting, StopInv, [Next]_vars
  PROVE  StopInv'
<1>0. TypeOK
  BY DEF ChanInv
<1>1. \A k \in Class : queued[k] \in Nat
  <2>1. ASSUME NEW k \in Class PROVE queued[k] \in Nat
    <3>1. PICK f : f = QueueLens(k)
      OBVIOUS
    <3>2. IsFiniteSet(Live) /\ \A x \in Live : f[x] \in Nat
      BY <1>0, <3>1, LiveFinite, PoolSummable DEF Sums
    <3>3. SumFunctionOnSet(f, Live) \in Nat
      BY <3>2, SumOfNats
    <3> QED
      BY <3>1, <3>3, PoolParts DEF QueuedExact
  <2> QED
    BY <2>1
<1>2. ASSUME NEW w \in Worker, Exit(w) PROVE StopInv'
  <2>1. stopping /\ stopping' = stopping /\ queued' = queued /\ PickClass = NoClass
    BY <1>2 DEF Exit, poolVars
  <2>2. ~IoOk /\ ~CpuOk
    BY <2>1 DEF PickClass, IO, CPU, NoClass
  <2>3. queued[IO] = 0 /\ queued[CPU] = 0
    BY <1>1, <2>1, <2>2, ClassFacts DEF IoOk, CpuOk
  <2> QED
    BY <2>1, <2>3 DEF StopInv, Class
<1>3. ASSUME NEW w \in Worker, Take(w) PROVE StopInv'
  <2>1. \E k \in Class : queued[k] # 0
    <3>1. IoOk \/ CpuOk
      BY <1>3 DEF Take, PickClass
    <3>2. queued[IO] # 0 \/ queued[CPU] # 0
      BY <1>1, <3>1, ClassFacts DEF IoOk, CpuOk
    <3> QED
      BY <3>2, ClassFacts
  <2>2. \A v \in Worker : wpc[v] # "exit"
    BY <2>1 DEF StopInv
  <2>3. \A v \in Worker : wpc'[v] # "exit"
    BY <1>0, <1>3, <2>2 DEF Take, TypeOK
  <2> QED
    BY <2>3 DEF StopInv
<1>4. ASSUME \A w \in Worker : wpc'[w] = "exit" => wpc[w] = "exit", queued' = queued,
             stopping => stopping'
      PROVE  StopInv'
  BY <1>4 DEF StopInv
<1>5. ASSUME NEW w \in Worker, Sleep(w) \/ SpuriousWake(w) \/ Finish(w) PROVE StopInv'
  <2>1. queued' = queued /\ stopping' = stopping
    BY <1>5 DEF Sleep, SpuriousWake, Finish, poolVars
  <2>2. \A v \in Worker : wpc'[v] = "exit" => wpc[v] = "exit"
    BY <1>0, <1>5 DEF Sleep, SpuriousWake, Finish, Awakened, TypeOK
  <2> QED
    BY <1>4, <2>1, <2>2
<1>6. ASSUME NEW c \in Chan, NEW id \in JobId, NEW k \in Class, Submit(c, id, k) PROVE StopInv'
  <2>1. \A v \in Worker : wpc[v] # "exit"
    BY <1>6 DEF Submit, StopInv
  <2>2. \A v \in Worker : wpc'[v] # "exit"
    BY <1>0, <1>6, <2>1 DEF Submit, SignalCv, TypeOK
  <2> QED
    BY <2>2 DEF StopInv
<1>7. ASSUME NEW c \in Chan, OwnerStep(c), ~\E id \in JobId, k \in Class : Submit(c, id, k) PROVE StopInv'
  <2>1. UNCHANGED <<queued, stopping, wpc>>
    BY <1>7 DEF OwnerStep, ChanNew, DrainBegin, DrainNext, DrainEnd, CloseBegin, CloseWait,
        CloseRecheck, SpuriousQuiesce, Unlink, poolVars, workerVars
  <2> QED
    BY <1>4, <2>1
<1>8. CASE Stop \/ PoolFree \/ UNCHANGED vars
  <2>1. queued' = queued /\ (stopping => stopping')
    BY <1>8 DEF Stop, PoolFree, vars, poolVars
  <2>2. \A v \in Worker : wpc'[v] = "exit" => wpc[v] = "exit"
    BY <1>8 DEF Stop, PoolFree, vars, workerVars, Awakened
  <2> QED
    BY <1>4, <2>1, <2>2
<1> QED
  BY <1>2, <1>3, <1>5, <1>6, <1>7, <1>8 DEF Next, Terminated, WorkerStep

\* A pool without channels.
LEMMA PoolInit == Init => PoolAccounting /\ StopInv
<1> SUFFICES ASSUME Init PROVE PoolAccounting /\ StopInv
  OBVIOUS
<1>1. Live = {}
  BY DEF Init, Live
<1>2. \A f : SumFunctionOnSet(f, {}) = 0
  BY FS_EmptySet, SumOfNats
<1>3. \A k \in Class : ClassRunners(k) = {}
  BY DEF Init, ClassRunners
<1>4. QueuedExact /\ InflightExact
  BY <1>1, <1>2 DEF Init, QueuedExact, InflightExact
<1>5. LoadExact /\ IoExact
  <2>1. Cardinality({}) = 0
    BY FS_EmptySet
  <2>2. \A k \in Class : Cardinality(ClassRunners(k)) = 0
    BY <1>3, <2>1
  <2>3. io_running = 0 /\ \A k \in Class : load[k] = 0 /\ queued[k] = 0
    BY DEF Init
  <2> QED
    BY <2>2, <2>3, ClassFacts DEF LoadExact, IoExact
<1>6. StopInv
  BY DEF Init, StopInv
<1> QED
  BY <1>4, <1>5, <1>6, PoolParts

\* The list of the channels is right throughout.
LEMMA ListAlways == Spec => []ListInv
<1>1. Init => ListInv
  BY DEF Init, ListInv, Live
<1>2. ChanInv /\ ListInv /\ [Next]_vars => ListInv'
  BY ListNext
<1> QED
  BY <1>1, <1>2, ChanInvAlways, PTL DEF Spec

\* The pool's counters are exact throughout.
LEMMA PoolAlways == Spec => [](PoolAccounting /\ StopInv)
<1>1. ChanInv /\ ListInv /\ ChanInv' /\ ListInv' /\ PoolAccounting /\ StopInv /\ [Next]_vars
         => PoolAccounting' /\ StopInv'
  <2> SUFFICES ASSUME ChanInv, ListInv, ChanInv', ListInv', PoolAccounting, StopInv, [Next]_vars
               PROVE  PoolAccounting' /\ StopInv'
    OBVIOUS
  <2>1. TypeOK'
    BY DEF ChanInv
  <2> QED
    BY <2>1, PoolNext, StopNext
<1> QED
  BY <1>1, PoolInit, ListAlways, ChanInvAlways, PTL DEF Spec

\* The pool's queued, load, io_running and inflight are what its channels and
\* threads add up to, for any number of them, across creation, close, drain
\* and the end of the pool.
THEOREM PoolCountersExact == Spec => []PoolAccounting
BY PoolAlways, PTL

\* dyn_pool_free joins its threads only after every accepted job has run.
THEOREM StopRunsEverything == Spec => []StopDrains
<1>1. ChanInv /\ ListInv /\ PoolAccounting /\ StopInv => StopDrains
  <2> SUFFICES ASSUME ChanInv, ListInv, PoolAccounting, StopInv, \A w \in Worker : wpc[w] = "exit"
               PROVE  \A c \in Chan, k \in Class : queue[c][k] = <<>>
    BY DEF StopDrains
  <2>1. \A k \in Class : queued[k] = 0
    BY WorkerAssumption DEF StopInv
  <2> QED
    BY <2>1, StopEmpties DEF ChanInv
<1> QED
  BY <1>1, PoolAlways, ListAlways, ChanInvAlways, PTL

-----------------------------------------------------------------------------
(* No thread sleeps while there is work for it *)

Sleeper == \E w \in Worker : wpc[w] = "wait"

\* What makes WorkConserving inductive: nobody sleeps in a pool that stops,
\* and until then the threads in a blocking job stay within their limit.
WorkInv ==
    /\ Sleeper => ~stopping
    /\ ~stopping => io_running <= IoLimit
    /\ WorkConserving

\* The jobs that may run, as a function of the three counters.
MayRun(qi, qc, ir) == qc + (IF qi <= IoLimit - ir THEN qi ELSE IoLimit - ir)

\* Eligible is that function until the pool stops.
LEMMA EligibleIs == ~stopping => Eligible = MayRun(queued[IO], queued[CPU], io_running)
BY DEF Eligible, MayRun

\* So it is after a step.
LEMMA EligibleNext ==
  ASSUME ~stopping' PROVE Eligible' = MayRun(queued'[IO], queued'[CPU], io_running')
BY DEF Eligible, MayRun

\* The counters are naturals.
LEMMA PoolNats == TypeOK /\ ListInv /\ PoolAccounting => io_running \in Nat /\ queued[IO] \in Nat /\ queued[CPU] \in Nat
<1> SUFFICES ASSUME TypeOK, ListInv, PoolAccounting
             PROVE  io_running \in Nat /\ queued[IO] \in Nat /\ queued[CPU] \in Nat
  OBVIOUS
<1>1. ASSUME NEW k \in Class PROVE queued[k] \in Nat
  <2>1. PICK f : f = QueueLens(k)
    OBVIOUS
  <2>2. IsFiniteSet(Live) /\ \A x \in Live : f[x] \in Nat
    BY <2>1, LiveFinite, PoolSummable DEF Sums
  <2>3. SumFunctionOnSet(f, Live) \in Nat
    BY <2>2, SumOfNats
  <2> QED
    BY <2>1, <2>3, PoolParts DEF QueuedExact
<1>2. io_running \in Nat
  BY PoolParts, ClassRunnersFinite, ClassFacts DEF IoExact
<1> QED
  BY <1>1, <1>2, ClassFacts

\* The limit is a number.
LEMMA LimitNat == IoLimit \in Nat
<1>1. NThreads \in Nat
  BY WorkerAssumption, FS_CardinalityType DEF NThreads
<1> QED
  BY <1>1 DEF IoLimit

\* One submission, one finish and one take change the number by one.
LEMMA MayRunFacts ==
  \A qi, qc, ir \in Nat : ir <= IoLimit =>
         /\ MayRun(qi, qc, ir) \in Nat
         /\ MayRun(qi + 1, qc, ir) <= MayRun(qi, qc, ir) + 1
         /\ MayRun(qi, qc + 1, ir) = MayRun(qi, qc, ir) + 1
         /\ ir > 0 => MayRun(qi, qc, ir - 1) <= MayRun(qi, qc, ir) + 1
         /\ qi > 0 /\ ir < IoLimit => MayRun(qi - 1, qc, ir + 1) = MayRun(qi, qc, ir) - 1
         /\ qc > 0 => MayRun(qi, qc - 1, ir) = MayRun(qi, qc, ir) - 1
         /\ qc = 0 /\ (qi = 0 \/ ir = IoLimit) => MayRun(qi, qc, ir) = 0
BY LimitNat DEF MayRun

\* The awake threads can be counted.
LEMMA AwakeFinite == IsFiniteSet(Awake) /\ Cardinality(Awake) \in Nat
<1>1. Awake \in SUBSET Worker
  BY DEF Awake
<1> QED
  BY <1>1, WorkerAssumption, FS_Subset, FS_CardinalityType

\* They are counted in the next state too.
LEMMA AwakeFiniteNext == IsFiniteSet(Awake') /\ Cardinality(Awake') \in Nat
<1>1. Awake' \in SUBSET Worker
  BY DEF Awake
<1> QED
  BY <1>1, WorkerAssumption, FS_Subset, FS_CardinalityType

\* A thread goes from one state to another: the count of the awake ones.
LEMMA AwakeMoves ==
  ASSUME TypeOK, NEW w \in Worker, NEW s, wpc' = [wpc EXCEPT ![w] = s]
  PROVE  /\ wpc[w] = "awake" /\ s # "awake" => Cardinality(Awake') = Cardinality(Awake) - 1
         /\ wpc[w] # "awake" /\ s = "awake" => Cardinality(Awake') = Cardinality(Awake) + 1
         /\ \A v \in Worker : v # w => wpc'[v] = wpc[v]
         /\ wpc'[w] = s
<1>1. wpc'[w] = s /\ \A v \in Worker : v # w => wpc'[v] = wpc[v]
  BY DEF TypeOK
<1>2. ASSUME wpc[w] = "awake", s # "awake" PROVE Cardinality(Awake') = Cardinality(Awake) - 1
  <2>1. w \in Awake /\ Awake' = Awake \ {w}
    BY <1>1, <1>2 DEF Awake
  <2> QED
    BY <2>1, AwakeFinite, FS_RemoveElement
<1>3. ASSUME wpc[w] # "awake", s = "awake" PROVE Cardinality(Awake') = Cardinality(Awake) + 1
  <2>1. w \notin Awake /\ Awake' = Awake \cup {w}
    BY <1>1, <1>3 DEF Awake
  <2> QED
    BY <2>1, AwakeFinite, FS_AddElement
<1> QED
  BY <1>1, <1>2, <1>3

\* A thread that takes a job is one awake thread less, and one job less.
LEMMA WorkTake ==
  ASSUME TypeOK, ListInv, PoolAccounting, WorkInv, NEW w \in Worker, Take(w)
  PROVE  WorkInv'
<1>1. PICK k \in Class : k = PickClass
  BY ClassFacts DEF Take
<1>2. /\ wpc[w] = "awake" /\ wpc' = [wpc EXCEPT ![w] = "work"] /\ stopping' = stopping
      /\ queued' = [queued EXCEPT ![k] = @ - 1]
      /\ io_running' = IF k = IO THEN io_running + 1 ELSE io_running
  BY <1>1 DEF Take
<1>3. PICK qi \in Nat, qc \in Nat, ir \in Nat : qi = queued[IO] /\ qc = queued[CPU] /\ ir = io_running
  BY PoolNats
<1>4. Cardinality(Awake') = Cardinality(Awake) - 1 /\ (Sleeper' => Sleeper)
  BY <1>2, AwakeMoves DEF Sleeper
<1>5. \/ k = IO /\ qi > 0 /\ (ir < IoLimit \/ stopping) /\ queued'[IO] = qi - 1 /\ queued'[CPU] = qc /\ io_running' = ir + 1
      \/ k = CPU /\ qc > 0 /\ queued'[IO] = qi /\ queued'[CPU] = qc - 1 /\ io_running' = ir
  <2>1. (k = IO /\ IoOk) \/ (k = CPU /\ CpuOk)
    BY <1>1 DEF PickClass, IO, CPU, NoClass, Class
  <2> QED
    BY <1>2, <1>3, <2>1, ClassFacts DEF IoOk, CpuOk, TypeOK
<1>6. CASE stopping
  BY <1>2, <1>4, <1>6 DEF WorkInv, WorkConserving, Sleeper
<1>7. CASE ~stopping
  <2>1. ir <= IoLimit /\ ~stopping'
    BY <1>2, <1>3, <1>7 DEF WorkInv
  <2>2. io_running' <= IoLimit
    BY <1>5, <1>7, <2>1, LimitNat
  <2>3. Eligible' = Eligible - 1 /\ Eligible \in Nat
    <3>1. Eligible = MayRun(qi, qc, ir)
      BY <1>3, <1>7, EligibleIs
    <3>2. Eligible' = MayRun(queued'[IO], queued'[CPU], io_running')
      BY <2>1, EligibleNext
    <3>3. MayRun(queued'[IO], queued'[CPU], io_running') = MayRun(qi, qc, ir) - 1
      <4>1. /\ qi > 0 /\ ir < IoLimit => MayRun(qi - 1, qc, ir + 1) = MayRun(qi, qc, ir) - 1
            /\ qc > 0 => MayRun(qi, qc - 1, ir) = MayRun(qi, qc, ir) - 1
        BY <2>1, MayRunFacts
      <4> QED
        BY <1>5, <1>7, <4>1
    <3> QED
      BY <2>1, <3>1, <3>2, <3>3, MayRunFacts
  <2>4. Sleeper' => Eligible' <= Cardinality(Awake')
    BY <1>4, <2>3, AwakeFinite DEF WorkInv, WorkConserving, Sleeper
  <2> QED
    BY <2>1, <2>2, <2>4 DEF WorkInv, WorkConserving, Sleeper
<1> QED
  BY <1>6, <1>7

\* A thread falls asleep only when no job may run; others wake up or leave.
LEMMA WorkMoves ==
  ASSUME TypeOK, ListInv, PoolAccounting, WorkInv, NEW w \in Worker, Sleep(w) \/ SpuriousWake(w) \/ Exit(w)
  PROVE  WorkInv'
<1>1. UNCHANGED <<queued, io_running, stopping>>
  BY DEF Sleep, SpuriousWake, Exit, poolVars
<1>2. Eligible' = Eligible
  BY <1>1 DEF Eligible
<1>3. PICK qi \in Nat, qc \in Nat, ir \in Nat : qi = queued[IO] /\ qc = queued[CPU] /\ ir = io_running
  BY PoolNats
<1>4. CASE Sleep(w)
  <2>1. ~stopping /\ ~IoOk /\ ~CpuOk
    BY <1>4 DEF Sleep, PickClass, IO, CPU, NoClass
  <2>2. ir <= IoLimit
    BY <1>3, <2>1 DEF WorkInv
  <2>3. qc = 0 /\ (qi = 0 \/ ir = IoLimit)
    BY <1>3, <2>1, <2>2, LimitNat DEF IoOk, CpuOk
  <2>4. Eligible = 0
    <3>1. MayRun(qi, qc, ir) = 0
      BY <2>2, <2>3, MayRunFacts
    <3> QED
      BY <1>3, <2>1, <3>1, EligibleIs
  <2>5. Eligible' <= Cardinality(Awake')
    BY <1>2, <2>4, AwakeFiniteNext
  <2> QED
    BY <1>1, <2>1, <2>5 DEF WorkInv, WorkConserving, Sleeper
<1>5. CASE SpuriousWake(w)
  <2>1. wpc[w] = "wait" /\ Cardinality(Awake') = Cardinality(Awake) + 1 /\ ~stopping
    BY <1>5, AwakeMoves DEF SpuriousWake, WorkInv, Sleeper
  <2>2. Eligible <= Cardinality(Awake) /\ Eligible \in Nat
    <3>1. ir <= IoLimit
      BY <1>3, <2>1 DEF WorkInv
    <3>2. MayRun(qi, qc, ir) \in Nat
      BY <3>1, MayRunFacts
    <3> QED
      BY <1>3, <2>1, <3>2, EligibleIs DEF WorkInv, WorkConserving
  <2>3. Eligible' <= Cardinality(Awake')
    BY <1>2, <2>1, <2>2, AwakeFinite
  <2> QED
    BY <1>1, <2>1, <2>3 DEF WorkInv, WorkConserving, Sleeper
<1>6. CASE Exit(w)
  <2>1. stopping /\ \A v \in Worker : wpc[v] # "wait"
    BY <1>6 DEF Exit, WorkInv, Sleeper
  <2>2. \A v \in Worker : wpc'[v] # "wait"
    BY <1>6, <2>1 DEF Exit, TypeOK
  <2> QED
    BY <1>1, <2>1, <2>2 DEF WorkInv, WorkConserving, Sleeper
<1> QED
  BY <1>4, <1>5, <1>6

\* A thread that returns from a job is awake, and looks again itself.
LEMMA WorkFinish ==
  ASSUME TypeOK, ListInv, PoolAccounting, WorkInv, NEW w \in Worker, Finish(w)
  PROVE  WorkInv'
<1>1. PICK k \in Class : k = wjob[w].cls
  BY DEF Finish, TypeOK, Job
<1>2. /\ wpc[w] = "work" /\ UNCHANGED <<queued, stopping>>
      /\ io_running' = IF k = IO THEN io_running - 1 ELSE io_running
  BY <1>1 DEF Finish
<1>3. PICK qi \in Nat, qc \in Nat, ir \in Nat : qi = queued[IO] /\ qc = queued[CPU] /\ ir = io_running
  BY PoolNats
<1>4. k = IO => ir > 0
  <2> SUFFICES ASSUME k = IO PROVE ir > 0
    OBVIOUS
  <2>1. w \in ClassRunners(IO)
    BY <1>1, <1>2 DEF ClassRunners
  <2>2. Cardinality(ClassRunners(IO)) # 0
    BY <2>1, ClassRunnersFinite, ClassFacts, FS_EmptySet
  <2> QED
    BY <1>3, <2>2, PoolParts DEF IoExact
<1>5. io_running' \in Nat /\ io_running' <= ir
  BY <1>2, <1>3, <1>4
<1>6. ~stopping' => io_running' <= IoLimit
  BY <1>2, <1>3, <1>5, LimitNat DEF WorkInv
<1>7. ASSUME Sleeper' PROVE Sleeper /\ Cardinality(Awake') = Cardinality(Awake) + 1
  <2>1. wpc' = [wpc EXCEPT ![w] = "awake"]
    <3>1. wpc' = [wpc EXCEPT ![w] = "awake"] \/ wpc' = Awakened([wpc EXCEPT ![w] = "awake"])
      BY DEF Finish
    <3>2. wpc' # Awakened([wpc EXCEPT ![w] = "awake"])
      BY <1>7 DEF Sleeper, Awakened
    <3> QED
      BY <3>1, <3>2
  <2> QED
    BY <1>2, <1>7, <2>1, AwakeMoves DEF Sleeper
<1>8. ASSUME Sleeper' PROVE ~stopping' /\ Eligible' <= Cardinality(Awake')
  <2>1. Sleeper /\ ~stopping /\ ~stopping' /\ ir <= IoLimit
    BY <1>2, <1>3, <1>7, <1>8 DEF WorkInv
  <2>2. Eligible = MayRun(qi, qc, ir) /\ Eligible \in Nat
    <3>1. MayRun(qi, qc, ir) \in Nat
      BY <2>1, MayRunFacts
    <3> QED
      BY <1>3, <2>1, <3>1, EligibleIs
  <2>3. Eligible' = MayRun(qi, qc, io_running')
    <3>1. Eligible' = MayRun(queued'[IO], queued'[CPU], io_running')
      BY <2>1, EligibleNext
    <3> QED
      BY <1>2, <1>3, <3>1
  <2>4. Eligible' <= Eligible + 1 /\ Eligible' \in Nat
    <3>1. /\ MayRun(qi, qc, ir) \in Nat
          /\ ir > 0 => MayRun(qi, qc, ir - 1) <= MayRun(qi, qc, ir) + 1
      BY <2>1, MayRunFacts
    <3>2. MayRun(qi, qc, io_running') \in Nat
      BY <1>5, <1>6, <2>1, MayRunFacts
    <3>3. io_running' = ir \/ (ir > 0 /\ io_running' = ir - 1)
      BY <1>2, <1>3, <1>4
    <3>4. MayRun(qi, qc, io_running') <= MayRun(qi, qc, ir) + 1
      <4>1. CASE io_running' = ir
        BY <3>1, <4>1
      <4>2. CASE ir > 0 /\ io_running' = ir - 1
        BY <3>1, <4>2
      <4> QED
        BY <3>3, <4>1, <4>2
    <3> QED
      BY <2>2, <2>3, <3>2, <3>4
  <2>5. Eligible <= Cardinality(Awake)
    BY <2>1 DEF WorkInv, WorkConserving, Sleeper
  <2> QED
    BY <1>7, <1>8, <2>1, <2>2, <2>4, <2>5, AwakeFinite
<1> QED
  BY <1>6, <1>8 DEF WorkInv, WorkConserving, Sleeper

\* pool_submit wakes one sleeper for its one job.
LEMMA WorkSubmit ==
  ASSUME TypeOK, ListInv, PoolAccounting, WorkInv, NEW c \in Chan, NEW id \in JobId, NEW k \in Class,
         Submit(c, id, k)
  PROVE  WorkInv'
<1>1. /\ ~stopping /\ UNCHANGED <<stopping, io_running>>
      /\ queued' = [queued EXCEPT ![k] = @ + 1]
      /\ SignalCv
  BY DEF Submit
<1>2. PICK qi \in Nat, qc \in Nat, ir \in Nat : qi = queued[IO] /\ qc = queued[CPU] /\ ir = io_running
  BY PoolNats
<1>3. ir <= IoLimit /\ ~stopping'
  BY <1>1, <1>2 DEF WorkInv
<1>4. \/ queued'[IO] = qi + 1 /\ queued'[CPU] = qc
      \/ queued'[IO] = qi /\ queued'[CPU] = qc + 1
  BY <1>1, <1>2, ClassFacts DEF TypeOK, Class
<1>5. Eligible = MayRun(qi, qc, ir) /\ Eligible \in Nat
  <2>1. MayRun(qi, qc, ir) \in Nat
    BY <1>3, MayRunFacts
  <2> QED
    BY <1>1, <1>2, <2>1, EligibleIs
<1>6. Eligible' <= Eligible + 1 /\ Eligible' \in Nat
  <2>1. Eligible' = MayRun(queued'[IO], queued'[CPU], io_running')
    BY <1>3, EligibleNext
  <2>2. Eligible' = MayRun(queued'[IO], queued'[CPU], ir)
    BY <1>1, <1>2, <2>1
  <2>3. queued'[IO] \in Nat /\ queued'[CPU] \in Nat
    BY <1>4
  <2> QED
    <3>1. /\ MayRun(qi + 1, qc, ir) <= MayRun(qi, qc, ir) + 1
          /\ MayRun(qi, qc + 1, ir) = MayRun(qi, qc, ir) + 1
      BY <1>3, MayRunFacts
    <3>2. MayRun(queued'[IO], queued'[CPU], ir) \in Nat
      BY <1>3, <2>3, MayRunFacts
    <3>3. CASE queued'[IO] = qi + 1 /\ queued'[CPU] = qc
      BY <1>5, <2>2, <3>1, <3>2, <3>3
    <3>4. CASE queued'[IO] = qi /\ queued'[CPU] = qc + 1
      BY <1>5, <2>2, <3>1, <3>2, <3>4
    <3> QED
      BY <1>4, <3>3, <3>4
<1>7. ASSUME Sleeper' PROVE Sleeper /\ Cardinality(Awake') = Cardinality(Awake) + 1
  <2>1. Sleeper
    BY <1>1, <1>7 DEF SignalCv, Sleeper
  <2>2. PICK w \in Worker : wpc[w] = "wait" /\ wpc' = [wpc EXCEPT ![w] = "awake"]
    BY <1>1, <2>1 DEF SignalCv, Sleeper
  <2> QED
    BY <2>1, <2>2, AwakeMoves
<1>8. Sleeper' => Eligible' <= Cardinality(Awake')
  <2> SUFFICES ASSUME Sleeper' PROVE Eligible' <= Cardinality(Awake')
    OBVIOUS
  <2>1. Eligible <= Cardinality(Awake) /\ Cardinality(Awake') = Cardinality(Awake) + 1
    BY <1>7 DEF WorkInv, WorkConserving, Sleeper
  <2> QED
    BY <1>5, <1>6, <2>1, AwakeFinite
<1> QED
  BY <1>1, <1>2, <1>3, <1>8 DEF WorkInv, WorkConserving, Sleeper

\* The remaining steps leave threads and jobs alone, or wake everybody.
LEMMA WorkNext ==
  ASSUME ChanInv, ListInv, PoolAccounting, WorkInv, [Next]_vars
  PROVE  WorkInv'
<1>0. TypeOK
  BY DEF ChanInv
<1>1. ASSUME UNCHANGED <<queued, io_running, stopping, wpc>> PROVE WorkInv'
  BY <1>1 DEF WorkInv, WorkConserving, Sleeper, Eligible, Awake
<1>2. ASSUME NEW c \in Chan, OwnerStep(c), ~\E id \in JobId, k \in Class : Submit(c, id, k) PROVE WorkInv'
  <2>1. UNCHANGED <<queued, io_running, stopping, wpc>>
    BY <1>2 DEF OwnerStep, ChanNew, DrainBegin, DrainNext, DrainEnd, CloseBegin, CloseWait,
        CloseRecheck, SpuriousQuiesce, Unlink, poolVars, workerVars
  <2> QED
    BY <1>1, <2>1
<1>3. CASE Stop
  <2>1. stopping' /\ \A v \in Worker : wpc'[v] # "wait"
    BY <1>3 DEF Stop, Awakened
  <2> QED
    BY <2>1 DEF WorkInv, WorkConserving, Sleeper
<1>4. CASE PoolFree \/ UNCHANGED vars
  <2>1. UNCHANGED <<queued, io_running, stopping, wpc>>
    BY <1>4 DEF PoolFree, vars, poolVars, workerVars
  <2> QED
    BY <1>1, <2>1
<1> QED
  BY <1>0, <1>2, <1>3, <1>4, WorkTake, WorkMoves, WorkFinish, WorkSubmit
  DEF Next, Terminated, WorkerStep, OwnerStep

\* One signal per submission suffices: for any number of threads, channels and
\* jobs, no thread sleeps on cv while a job could be run that the threads
\* already awake will not take.
THEOREM NoIdleThreadWhileWorkWaits == Spec => []WorkConserving
<1>1. Init => WorkInv
  BY LimitNat DEF Init, WorkInv, WorkConserving, Sleeper
<1>2. ChanInv /\ ListInv /\ PoolAccounting /\ WorkInv /\ [Next]_vars => WorkInv'
  BY WorkNext
<1>3. WorkInv => WorkConserving
  BY DEF WorkInv
<1> QED
  BY <1>1, <1>2, <1>3, PoolAlways, ListAlways, ChanInvAlways, PTL DEF Spec

-----------------------------------------------------------------------------
(* The pool implements JobService *)

\* The jobs of a ring by identity, and that none is in it twice.
Ids(s) == {s[i].id : i \in DOMAIN s}
Distinct(s) == \A i, l \in DOMAIN s : s[i].id = s[l].id => i = l

\* Where a job can be: in a queue, with a thread, in the ring of completions,
\* with the owner that reports it.
InQueue(id, c, k) == id \in Ids(queue[c][k])
AtWork(id, c, w) == wpc[w] = "work" /\ wjob[w].id = id /\ wjob[w].ch = c
InDone(id, c) == id \in Ids(cdone[c])
AtOwner(id, c) == opc[c] = "done" /\ ojob[c].id = id

\* A job is in one place only.
OnePlace(id) ==
    /\ \A c, d \in Chan, k, l \in Class : InQueue(id, c, k) /\ InQueue(id, d, l) => c = d /\ k = l
    /\ \A c, d \in Chan, v, w \in Worker : AtWork(id, c, v) /\ AtWork(id, d, w) => v = w
    /\ \A c, d \in Chan : InDone(id, c) /\ InDone(id, d) => c = d
    /\ \A c, d \in Chan : AtOwner(id, c) /\ AtOwner(id, d) => c = d
    /\ \A c, d \in Chan, k \in Class, w \in Worker : ~(InQueue(id, c, k) /\ AtWork(id, d, w))
    /\ \A c, d \in Chan, k \in Class : ~(InQueue(id, c, k) /\ InDone(id, d))
    /\ \A c, d \in Chan, k \in Class : ~(InQueue(id, c, k) /\ AtOwner(id, d))
    /\ \A c, d \in Chan, w \in Worker : ~(AtWork(id, c, w) /\ InDone(id, d))
    /\ \A c, d \in Chan, w \in Worker : ~(AtWork(id, c, w) /\ AtOwner(id, d))
    /\ \A c, d \in Chan : ~(InDone(id, c) /\ AtOwner(id, d))

\* Completions and reports are of their own channel, and no ring holds a job
\* twice.
PlaceShape ==
    /\ \A c \in Chan : \A i \in DOMAIN cdone[c] : cdone[c][i].ch = c
    /\ \A c \in Chan : opc[c] = "done" => ojob[c] \in Job /\ ojob[c].ch = c
    /\ \A c \in Chan, k \in Class : Distinct(queue[c][k])
    /\ \A c \in Chan : Distinct(cdone[c])

\* Every job is in one place, once.
PlaceInv == PlaceShape /\ \A id \in JobId : OnePlace(id)

\* The stages of JobService, by place.
Placed(id, st, c) ==
    \/ st = "queued" /\ \E k \in Class : InQueue(id, c, k)
    \/ st = "running" /\ \E w \in Worker : AtWork(id, c, w)
    \/ st = "finished" /\ InDone(id, c)
    \/ st = "reporting" /\ AtOwner(id, c)

\* The refinement mapping says where a job is and whose it is.
BarsFollow ==
    \A id \in JobId :
        /\ \A st : \A c \in Chan : Placed(id, st, c) => statusBar[id] = st /\ ownerBar[id] = c
        /\ (\A st : \A c \in Chan : ~Placed(id, st, c)) => statusBar[id] = "idle" /\ ownerBar[id] = NULL

\* The first of a ring leaves it.
LEMMA TailIds ==
  ASSUME NEW s \in Seq(Job), s # <<>>, Distinct(s)
  PROVE  /\ Distinct(Tail(s)) /\ Head(s) \in Job /\ Head(s).id \in Ids(s)
         /\ \A id : id \in Ids(Tail(s)) <=> id \in Ids(s) /\ id # Head(s).id
<1>1. /\ Len(s) \in Nat /\ Len(s) > 0 /\ DOMAIN s = 1..Len(s)
      /\ Tail(s) \in Seq(Job) /\ DOMAIN Tail(s) = 1..(Len(s) - 1)
      /\ \A i \in 1..(Len(s) - 1) : Tail(s)[i] = s[i + 1]
  OBVIOUS
<1>2. Head(s) = s[1] /\ 1 \in DOMAIN s /\ Head(s) \in Job
  BY <1>1
<1>3. Distinct(Tail(s))
  <2> SUFFICES ASSUME NEW i \in 1..(Len(s) - 1), NEW l \in 1..(Len(s) - 1), s[i + 1].id = s[l + 1].id
               PROVE  i = l
    BY <1>1 DEF Distinct
  <2>1. i + 1 \in DOMAIN s /\ l + 1 \in DOMAIN s
    BY <1>1
  <2>2. i + 1 = l + 1
    BY <2>1 DEF Distinct
  <2> QED
    BY <1>1, <2>2
<1>4. ASSUME NEW id
      PROVE  id \in Ids(Tail(s)) <=> id \in Ids(s) /\ id # Head(s).id
  <2>1. ASSUME id \in Ids(Tail(s)) PROVE id \in Ids(s) /\ id # Head(s).id
    <3>1. PICK i \in 1..(Len(s) - 1) : id = s[i + 1].id
      BY <1>1, <2>1 DEF Ids
    <3>2. i + 1 \in DOMAIN s /\ i + 1 # 1
      BY <1>1
    <3> QED
      BY <1>2, <3>1, <3>2 DEF Ids, Distinct
  <2>2. ASSUME id \in Ids(s), id # Head(s).id PROVE id \in Ids(Tail(s))
    <3>1. PICK i \in 1..Len(s) : id = s[i].id
      BY <1>1, <2>2 DEF Ids
    <3>2. i # 1
      BY <1>2, <2>2, <3>1
    <3>3. i - 1 \in 1..(Len(s) - 1) /\ (i - 1) + 1 = i
      BY <1>1, <3>2
    <3>4. i - 1 \in DOMAIN Tail(s) /\ Tail(s)[i - 1].id = id
      BY <1>1, <3>1, <3>3
    <3> QED
      BY <3>4 DEF Ids
  <2> QED
    BY <2>1, <2>2
<1> QED
  BY <1>2, <1>3, <1>4 DEF Ids

\* A job goes to the end of a ring.
LEMMA AppendIds ==
  ASSUME NEW s \in Seq(Job), NEW j \in Job
  PROVE  /\ \A id : id \in Ids(Append(s, j)) <=> id \in Ids(s) \/ id = j.id
         /\ Distinct(s) /\ j.id \notin Ids(s) => Distinct(Append(s, j))
<1>1. /\ Len(s) \in Nat /\ DOMAIN s = 1..Len(s) /\ DOMAIN Append(s, j) = 1..(Len(s) + 1)
      /\ \A i \in 1..Len(s) : Append(s, j)[i] = s[i]
      /\ Append(s, j)[Len(s) + 1] = j
  OBVIOUS
<1>2. \A i \in 1..(Len(s) + 1) : i \in 1..Len(s) \/ i = Len(s) + 1
  BY <1>1
<1>3. Len(s) + 1 \in 1..(Len(s) + 1) /\ \A i \in 1..Len(s) : i \in 1..(Len(s) + 1)
  BY <1>1
<1> QED
  BY <1>1, <1>2, <1>3 DEF Ids, Distinct

\* The places read off the sets of jobs in them.
LEMMA JobSets ==
  ASSUME ChanInv, PlaceInv, NEW id \in JobId
  PROVE  /\ \A j \in QueuedJobs : j.id = id => \E c \in Chan, k \in Class : j.ch = c /\ InQueue(id, c, k)
         /\ \A c \in Chan, k \in Class : InQueue(id, c, k) => \E j \in QueuedJobs : j.id = id
         /\ \A j \in RunningJobs : j.id = id => \E c \in Chan, w \in Worker : j.ch = c /\ AtWork(id, c, w)
         /\ \A c \in Chan, w \in Worker : AtWork(id, c, w) => \E j \in RunningJobs : j.id = id
         /\ \A j \in FinishedJobs : j.id = id => \E c \in Chan : j.ch = c /\ InDone(id, c)
         /\ \A c \in Chan : InDone(id, c) => \E j \in FinishedJobs : j.id = id
         /\ \A j \in ReportedJobs : j.id = id => \E c \in Chan : j.ch = c /\ AtOwner(id, c)
         /\ \A c \in Chan : AtOwner(id, c) => \E j \in ReportedJobs : j.id = id
<1>1. \A c \in Chan, k \in Class : \A i \in DOMAIN queue[c][k] : queue[c][k][i].ch = c
  BY DEF ChanInv, QueuesOwn
<1>2. \A w \in Worker : wpc[w] = "work" => wjob[w].ch \in Chan
  BY DEF ChanInv, TypeOK, Job
<1>3. \A c \in Chan : \A i \in DOMAIN cdone[c] : cdone[c][i].ch = c
  BY DEF PlaceInv, PlaceShape
<1>4. \A c \in Chan : opc[c] = "done" => ojob[c].ch = c
  BY DEF PlaceInv, PlaceShape
<1>5. /\ \A j \in QueuedJobs : j.id = id => \E c \in Chan, k \in Class : j.ch = c /\ InQueue(id, c, k)
      /\ \A c \in Chan, k \in Class : InQueue(id, c, k) => \E j \in QueuedJobs : j.id = id
  <2>1. ASSUME NEW j \in QueuedJobs, j.id = id
        PROVE  \E c \in Chan, k \in Class : j.ch = c /\ InQueue(id, c, k)
    <3>1. PICK c \in Chan, k \in Class : j \in JobsIn(queue[c][k])
      BY DEF QueuedJobs
    <3>2. PICK i \in DOMAIN queue[c][k] : j = queue[c][k][i]
      BY <3>1 DEF JobsIn
    <3> QED
      BY <1>1, <2>1, <3>2 DEF InQueue, Ids
  <2>2. ASSUME NEW c \in Chan, NEW k \in Class, InQueue(id, c, k)
        PROVE  \E j \in QueuedJobs : j.id = id
    <3>1. PICK i \in DOMAIN queue[c][k] : queue[c][k][i].id = id
      BY <2>2 DEF InQueue, Ids
    <3>2. queue[c][k][i] \in JobsIn(queue[c][k])
      BY DEF JobsIn
    <3>3. queue[c][k][i] \in QueuedJobs
      BY <3>2 DEF QueuedJobs
    <3> QED
      BY <3>1, <3>3
  <2> QED
    BY <2>1, <2>2
<1>6. /\ \A j \in RunningJobs : j.id = id => \E c \in Chan, w \in Worker : j.ch = c /\ AtWork(id, c, w)
      /\ \A c \in Chan, w \in Worker : AtWork(id, c, w) => \E j \in RunningJobs : j.id = id
  <2>1. ASSUME NEW j \in RunningJobs, j.id = id
        PROVE  \E c \in Chan, w \in Worker : j.ch = c /\ AtWork(id, c, w)
    <3>1. PICK w \in Worker : wpc[w] = "work" /\ j = wjob[w]
      BY DEF RunningJobs
    <3> QED
      BY <1>2, <2>1, <3>1 DEF AtWork
  <2>2. ASSUME NEW c \in Chan, NEW w \in Worker, AtWork(id, c, w)
        PROVE  \E j \in RunningJobs : j.id = id
    <3>1. wjob[w] \in RunningJobs /\ wjob[w].id = id
      BY <2>2 DEF RunningJobs, AtWork
    <3> QED
      BY <3>1
  <2> QED
    BY <2>1, <2>2
<1>7. /\ \A j \in FinishedJobs : j.id = id => \E c \in Chan : j.ch = c /\ InDone(id, c)
      /\ \A c \in Chan : InDone(id, c) => \E j \in FinishedJobs : j.id = id
  BY <1>3 DEF FinishedJobs, JobsIn, InDone, Ids
<1>8. /\ \A j \in ReportedJobs : j.id = id => \E c \in Chan : j.ch = c /\ AtOwner(id, c)
      /\ \A c \in Chan : AtOwner(id, c) => \E j \in ReportedJobs : j.id = id
  BY <1>4 DEF ReportedJobs, AtOwner
<1> QED
  BY <1>5, <1>6, <1>7, <1>8

\* Where a job is determines its stage and its channel in JobService.
LEMMA Bars == ChanInv /\ PlaceInv => BarsFollow
<1> SUFFICES ASSUME ChanInv, PlaceInv, NEW id \in JobId
             PROVE  /\ \A st : \A c \in Chan : Placed(id, st, c) => statusBar[id] = st /\ ownerBar[id] = c
                    /\ (\A st : \A c \in Chan : ~Placed(id, st, c))
                          => statusBar[id] = "idle" /\ ownerBar[id] = NULL
  BY DEF BarsFollow
<1> DEFINE S == {j \in QueuedJobs \cup RunningJobs \cup FinishedJobs \cup ReportedJobs : j.id = id}
<1>1. ownerBar[id] = IF S = {} THEN NULL ELSE (CHOOSE j \in S : TRUE).ch
  BY DEF ownerBar
<1>2. OnePlace(id)
  BY DEF PlaceInv
<1>3. /\ Has(QueuedJobs, id) <=> \E c \in Chan, k \in Class : InQueue(id, c, k)
      /\ Has(RunningJobs, id) <=> \E c \in Chan, w \in Worker : AtWork(id, c, w)
      /\ Has(FinishedJobs, id) <=> \E c \in Chan : InDone(id, c)
      /\ Has(ReportedJobs, id) <=> \E c \in Chan : AtOwner(id, c)
  BY JobSets DEF Has
<1>4. statusBar[id] =
        CASE Has(QueuedJobs, id) -> "queued"
          [] Has(RunningJobs, id) -> "running"
          [] Has(FinishedJobs, id) -> "finished"
          [] Has(ReportedJobs, id) -> "reporting"
          [] OTHER -> "idle"
  BY DEF statusBar
<1>5. ASSUME NEW j \in S PROVE \E st : \E d \in Chan : j.ch = d /\ Placed(id, st, d)
  <2>1. j.id = id /\ j \in QueuedJobs \cup RunningJobs \cup FinishedJobs \cup ReportedJobs
    OBVIOUS
  <2> HIDE DEF S
  <2>2. \/ \E c \in Chan, k \in Class : j.ch = c /\ InQueue(id, c, k)
        \/ \E c \in Chan, w \in Worker : j.ch = c /\ AtWork(id, c, w)
        \/ \E c \in Chan : j.ch = c /\ InDone(id, c)
        \/ \E c \in Chan : j.ch = c /\ AtOwner(id, c)
    BY <2>1, JobSets
  <2> QED
    BY <2>2 DEF Placed
<1>6. ASSUME NEW c \in Chan, NEW st, Placed(id, st, c), NEW d \in Chan, NEW su, Placed(id, su, d)
      PROVE  d = c /\ su = st
  <2> USE <1>2, <1>6 DEF Placed, OnePlace
  <2>1. CASE st = "queued" /\ su = "queued"
    BY <2>1
  <2>2. CASE st = "running" /\ su = "running"
    BY <2>2 DEF AtWork
  <2>3. CASE st = "finished" /\ su = "finished"
    BY <2>3
  <2>4. CASE st = "reporting" /\ su = "reporting"
    BY <2>4
  <2> QED
    BY <2>1, <2>2, <2>3, <2>4
<1>7. ASSUME NEW c \in Chan, NEW st, Placed(id, st, c)
      PROVE  statusBar[id] = st /\ ownerBar[id] = c
  <2>1. statusBar[id] = st
    <3>1. st \in {"queued", "running", "finished", "reporting"}
      BY <1>7 DEF Placed
    <3>2. /\ Has(QueuedJobs, id) => st = "queued"
          /\ Has(RunningJobs, id) => st = "running"
          /\ Has(FinishedJobs, id) => st = "finished"
          /\ Has(ReportedJobs, id) => st = "reporting"
      BY <1>3, <1>6, <1>7 DEF Placed
    <3>3. /\ st = "queued" => Has(QueuedJobs, id)
          /\ st = "running" => Has(RunningJobs, id)
          /\ st = "finished" => Has(FinishedJobs, id)
          /\ st = "reporting" => Has(ReportedJobs, id)
      BY <1>3, <1>7 DEF Placed
    <3> QED
      BY <1>4, <3>1, <3>2, <3>3
  <2>2. S # {}
    <3>1. \E j \in QueuedJobs \cup RunningJobs \cup FinishedJobs \cup ReportedJobs : j.id = id
      BY <1>7, JobSets DEF Placed
    <3> QED
      BY <3>1
  <2>3. \A j \in S : j.ch = c
    BY <1>5, <1>6, <1>7
  <2> HIDE DEF S
  <2> QED
    BY <1>1, <2>1, <2>2, <2>3
<1>8. ASSUME \A st : \A c \in Chan : ~Placed(id, st, c)
      PROVE  statusBar[id] = "idle" /\ ownerBar[id] = NULL
  <2>1. S = {}
    BY <1>5, <1>8
  <2>2. ~Has(QueuedJobs, id) /\ ~Has(RunningJobs, id) /\ ~Has(FinishedJobs, id) /\ ~Has(ReportedJobs, id)
    BY <1>3, <1>8 DEF Placed
  <2> HIDE DEF S
  <2> QED
    BY <1>1, <1>4, <2>1, <2>2
<1> QED
  BY <1>7, <1>8

\* The same after a step.
LEMMA BarsNext == ChanInv' /\ PlaceInv' => BarsFollow'
BY Bars, PTL

\* A step leaves job id where it is.
Still(id) ==
    /\ \A c \in Chan, k \in Class : InQueue(id, c, k)' <=> InQueue(id, c, k)
    /\ \A c \in Chan, w \in Worker : AtWork(id, c, w)' <=> AtWork(id, c, w)
    /\ \A c \in Chan : InDone(id, c)' <=> InDone(id, c)
    /\ \A c \in Chan : AtOwner(id, c)' <=> AtOwner(id, c)

\* A job's stage and channel, "idle" being nowhere.
Stands(id, st, c) ==
    IF st = "idle" THEN \A su : \A d \in Chan : ~Placed(id, su, d) ELSE Placed(id, st, c)

\* A step takes job j of channel c from stage st to stage su.
Hops(j, st, su, c) == j \in JobId /\ c \in Chan /\ Stands(j, st, c) /\ Stands(j, su, c)'

\* The channel that JobService names for a job at a stage.
Whose(st, c) == IF st = "idle" THEN NULL ELSE c

\* What stays is in one place still.
LEMMA StillOne ==
  ASSUME NEW id, Still(id), OnePlace(id)
  PROVE  OnePlace(id)'
BY DEF Still, OnePlace

\* What stays has the same stage and channel.
LEMMA StillBars ==
  ASSUME BarsFollow, BarsFollow', NEW id \in JobId, Still(id)
  PROVE  statusBar'[id] = statusBar[id] /\ ownerBar'[id] = ownerBar[id]
<1>1. \A st : \A c \in Chan : Placed(id, st, c)' <=> Placed(id, st, c)
  BY DEF Still, Placed
<1>2. CASE \E st : \E c \in Chan : Placed(id, st, c)
  BY <1>1, <1>2 DEF BarsFollow
<1>3. CASE \A st : \A c \in Chan : ~Placed(id, st, c)
  BY <1>1, <1>3 DEF BarsFollow
<1> QED
  BY <1>2, <1>3

\* What a stage means for JobService.
LEMMA StandsBars ==
  ASSUME BarsFollow, NEW id \in JobId, NEW c \in Chan, NEW st, Stands(id, st, c)
  PROVE  statusBar[id] = st /\ ownerBar[id] = Whose(st, c)
BY DEF BarsFollow, Stands, Whose

\* The same after a step.
LEMMA StandsBarsNext ==
  ASSUME BarsFollow', NEW id \in JobId, NEW c \in Chan, NEW st, Stands(id, st, c)'
  PROVE  statusBar'[id] = st /\ ownerBar'[id] = Whose(st, c)
BY DEF BarsFollow, Stands, Whose

\* Conversely, JobService's stage tells where a job is.
LEMMA BarsPlace ==
  ASSUME BarsFollow, NEW id \in JobId, NEW c, NEW st, statusBar[id] = st, ownerBar[id] = c, st # "idle"
  PROVE  c \in Chan /\ Placed(id, st, c)
BY DEF BarsFollow

\* A thread takes a job.
LEMMA PlaceTake ==
  ASSUME ChanInv, PlaceInv, NEW w \in Worker, Take(w)
  PROVE  /\ PlaceInv'
         /\ \E j, c : Hops(j, "queued", "running", c) /\ \A id \in JobId \ {j} : Still(id)
<1>1. PICK c \in Chan, k \in Class, q \in Seq(Job), j \in Job :
        /\ q = queue[c][k] /\ q # <<>> /\ Distinct(q) /\ j = Head(q) /\ j.ch = c
        /\ queue' = [queue EXCEPT ![c][k] = Tail(@)]
        /\ wjob' = [wjob EXCEPT ![w] = j]
  <2>1. PICK i \in DOMAIN chans :
          /\ IsNextChan(PickClass, i)
          /\ queue' = [queue EXCEPT ![chans[i]][PickClass] = Tail(@)]
          /\ wjob' = [wjob EXCEPT ![w] = Head(queue[chans[i]][PickClass])]
    BY DEF Take
  <2>2. PICK c, k, q, j : c = chans[i] /\ k = PickClass /\ q = queue[c][k] /\ j = Head(q)
    OBVIOUS
  <2>3. c \in Chan /\ k \in Class /\ q \in Seq(Job) /\ q # <<>> /\ Distinct(q)
    BY <2>1, <2>2, ClassFacts DEF ChanInv, TypeOK, Take, IsNextChan, PlaceInv, PlaceShape
  <2>4. 1 \in DOMAIN q /\ j = q[1] /\ j \in Job
    BY <2>2, <2>3
  <2>5. j.ch = c
    BY <2>2, <2>3, <2>4 DEF ChanInv, QueuesOwn
  <2> QED
    BY <2>1, <2>2, <2>3, <2>4, <2>5
<1>2. q = queue[c][k] /\ q # <<>> /\ Distinct(q) /\ j = Head(q) /\ j.ch = c
  BY <1>1
<1>3. /\ \A d \in Chan, l \in Class : queue'[d][l] = IF d = c /\ l = k THEN Tail(q) ELSE queue[d][l]
  BY <1>1 DEF ChanInv, TypeOK
<1>4. /\ wpc[w] = "awake" /\ wpc'[w] = "work" /\ wjob'[w] = j
      /\ \A v \in Worker : v # w => wpc'[v] = wpc[v] /\ wjob'[v] = wjob[v]
      /\ UNCHANGED <<cdone, opc, ojob>>
  BY <1>1 DEF ChanInv, TypeOK, Take, ownerVars
<1>6. /\ Distinct(Tail(q)) /\ j \in Job /\ j.id \in Ids(q)
      /\ \A id : id \in Ids(Tail(q)) <=> id \in Ids(q) /\ id # j.id
  BY <1>2, TailIds
<1>7. /\ InQueue(j.id, c, k) /\ j.id \in JobId
      /\ \A id \in JobId, d \in Chan, l \in Class :
            InQueue(id, d, l)' <=> InQueue(id, d, l) /\ ~(id = j.id /\ d = c /\ l = k)
  BY <1>2, <1>3, <1>6 DEF InQueue, Job
<1>8. /\ \A id \in JobId, d \in Chan, v \in Worker :
            AtWork(id, d, v)' <=> AtWork(id, d, v) \/ (id = j.id /\ d = c /\ v = w)
      /\ \A id \in JobId, d \in Chan : ~AtWork(id, d, w)
  BY <1>2, <1>4 DEF AtWork
<1>9. /\ \A id \in JobId, d \in Chan : InDone(id, d)' <=> InDone(id, d)
      /\ \A id \in JobId, d \in Chan : AtOwner(id, d)' <=> AtOwner(id, d)
  BY <1>4 DEF InDone, AtOwner
<1>10. \A id \in JobId \ {j.id} : Still(id)
  BY <1>7, <1>8, <1>9 DEF Still
<1>11. /\ \A d \in Chan, l \in Class : ~InQueue(j.id, d, l)'
       /\ \A d \in Chan : ~InDone(j.id, d)' /\ ~AtOwner(j.id, d)'
       /\ \A d \in Chan, v \in Worker : AtWork(j.id, d, v)' <=> d = c /\ v = w
  <2>1. OnePlace(j.id)
    BY <1>7 DEF PlaceInv
  <2> QED
    BY <1>2, <1>7, <1>8, <1>9, <2>1 DEF OnePlace
<1>12. Hops(j.id, "queued", "running", c)
  BY <1>2, <1>7, <1>11 DEF Hops, Stands, Placed
<1>13. PlaceShape'
  BY <1>3, <1>4, <1>6 DEF PlaceInv, PlaceShape
<1>14. \A id \in JobId : OnePlace(id)'
  <2>1. OnePlace(j.id)'
    BY <1>11 DEF OnePlace
  <2> QED
    BY <1>10, <2>1, StillOne DEF PlaceInv
<1> QED
  BY <1>10, <1>12, <1>13, <1>14 DEF PlaceInv

\* A step that moves no job.
LEMMA PlaceSame ==
  ASSUME PlaceInv, UNCHANGED <<queue, cdone, wjob, ojob>>,
         \A w \in Worker : wpc'[w] = "work" <=> wpc[w] = "work",
         \A c \in Chan : opc'[c] = "done" <=> opc[c] = "done"
  PROVE  PlaceInv' /\ \A id \in JobId : Still(id)
<1>1. \A id \in JobId : Still(id)
  BY DEF Still, InQueue, AtWork, InDone, AtOwner
<1>2. PlaceShape'
  BY DEF PlaceInv, PlaceShape
<1> QED
  BY <1>1, <1>2, StillOne DEF PlaceInv

\* A thread is done with a job.
LEMMA PlaceFinish ==
  ASSUME ChanInv, PlaceInv, NEW w \in Worker, Finish(w)
  PROVE  /\ PlaceInv'
         /\ \E j, c : /\ \A id \in JobId \ {j} : Still(id)
                      /\ \/ closing[c] /\ Hops(j, "running", "idle", c)
                         \/ ~closing[c] /\ Hops(j, "running", "finished", c)
<1>1. PICK j \in Job, c \in Chan : j = wjob[w] /\ c = j.ch
  BY DEF ChanInv, TypeOK, Finish, Job
<1>2. /\ wpc[w] = "work" /\ wpc'[w] = "awake"
      /\ \A v \in Worker : v # w => wjob'[v] = wjob[v] /\ (wpc'[v] = "work" <=> wpc[v] = "work")
      /\ UNCHANGED <<queue, ojob>>
  BY DEF ChanInv, TypeOK, Finish, Awakened
<1>3. /\ cdone \in [Chan -> Seq(Job)] /\ opc \in [Chan -> {"none", "idle", "done", "cwait", "cready"}]
      /\ Distinct(cdone[c]) /\ j.id \in JobId /\ closing[c] \in BOOLEAN
  BY DEF ChanInv, TypeOK, PlaceInv, PlaceShape, Job
<1>4. \/ closing[c] /\ cdone' = cdone
      \/ ~closing[c] /\ cdone' = [cdone EXCEPT ![c] = Append(@, j)]
  BY <1>1 DEF Finish, FinishClosing, FinishOpen
<1>5. \A d \in Chan : opc'[d] = "done" <=> opc[d] = "done"
  BY <1>3 DEF Finish, FinishClosing, FinishOpen, BroadcastQuiesce
<1>6. /\ AtWork(j.id, c, w)
      /\ \A id \in JobId, d \in Chan, v \in Worker : AtWork(id, d, v)' <=> AtWork(id, d, v) /\ v # w
      /\ \A id \in JobId, d \in Chan : AtWork(id, d, w) => id = j.id
  BY <1>1, <1>2 DEF AtWork
<1>7. /\ \A id \in JobId, d \in Chan, l \in Class : InQueue(id, d, l)' <=> InQueue(id, d, l)
      /\ \A id \in JobId, d \in Chan : AtOwner(id, d)' <=> AtOwner(id, d)
  BY <1>2, <1>5 DEF InQueue, AtOwner
<1>8. OnePlace(j.id)
  BY <1>3 DEF PlaceInv
<1>9. /\ \A d \in Chan, l \in Class : ~InQueue(j.id, d, l)'
      /\ \A d \in Chan : ~InDone(j.id, d) /\ ~AtOwner(j.id, d)'
      /\ \A d \in Chan, v \in Worker : ~AtWork(j.id, d, v)'
  BY <1>3, <1>6, <1>7, <1>8 DEF OnePlace
<1>10. \A d \in Chan : opc'[d] = "done" => ojob'[d] \in Job /\ ojob'[d].ch = d
  BY <1>2, <1>5 DEF PlaceInv, PlaceShape
<1>11. CASE closing[c] /\ cdone' = cdone
  <2>1. \A id \in JobId, d \in Chan : InDone(id, d)' <=> InDone(id, d)
    BY <1>11 DEF InDone
  <2>2. \A id \in JobId \ {j.id} : Still(id)
    BY <1>6, <1>7, <2>1 DEF Still
  <2>3. Hops(j.id, "running", "idle", c)
    BY <1>3, <1>6, <1>9, <2>1 DEF Hops, Stands, Placed
  <2>4. OnePlace(j.id)'
    BY <1>3, <1>9, <2>1 DEF OnePlace
  <2>5. PlaceShape'
    BY <1>2, <1>10, <1>11 DEF PlaceInv, PlaceShape
  <2> QED
    BY <1>11, <2>2, <2>3, <2>4, <2>5, StillOne DEF PlaceInv
<1>12. CASE ~closing[c] /\ cdone' = [cdone EXCEPT ![c] = Append(@, j)]
  <2>1. \A d \in Chan : cdone'[d] = IF d = c THEN Append(cdone[c], j) ELSE cdone[d]
    BY <1>3, <1>12
  <2>2. /\ \A id : id \in Ids(Append(cdone[c], j)) <=> id \in Ids(cdone[c]) \/ id = j.id
        /\ Distinct(Append(cdone[c], j))
    <3>1. cdone[c] \in Seq(Job) /\ j.id \notin Ids(cdone[c])
      BY <1>3, <1>9 DEF InDone
    <3> QED
      BY <1>3, <3>1, AppendIds
  <2>3. \A id \in JobId, d \in Chan : InDone(id, d)' <=> InDone(id, d) \/ (id = j.id /\ d = c)
    BY <2>1, <2>2 DEF InDone
  <2>4. \A id \in JobId \ {j.id} : Still(id)
    BY <1>6, <1>7, <2>3 DEF Still
  <2>5. Hops(j.id, "running", "finished", c)
    BY <1>3, <1>6, <2>3 DEF Hops, Stands, Placed
  <2>6. OnePlace(j.id)'
    BY <1>3, <1>9, <2>3 DEF OnePlace
  <2>7. PlaceShape'
    <3>1. \A d \in Chan : \A i \in DOMAIN cdone'[d] : cdone'[d][i].ch = d
      <4>1. \A i \in DOMAIN Append(cdone[c], j) : Append(cdone[c], j)[i].ch = c
        <5>1. /\ cdone[c] \in Seq(Job) /\ \A i \in DOMAIN cdone[c] : cdone[c][i].ch = c
          BY <1>3 DEF PlaceInv, PlaceShape
        <5> QED
          BY <1>1, <5>1
      <4> QED
        BY <2>1, <4>1 DEF PlaceInv, PlaceShape
    <3>2. \A d \in Chan : Distinct(cdone'[d])
      BY <2>1, <2>2 DEF PlaceInv, PlaceShape
    <3>3. \A d \in Chan, l \in Class : Distinct(queue'[d][l])
      BY <1>2 DEF PlaceInv, PlaceShape
    <3> QED
      BY <1>10, <3>1, <3>2, <3>3 DEF PlaceShape
  <2> QED
    BY <1>12, <2>4, <2>5, <2>6, <2>7, StillOne DEF PlaceInv
<1> QED
  BY <1>4, <1>11, <1>12

\* A job is accepted.
LEMMA PlaceSubmit ==
  ASSUME ChanInv, PlaceInv, NEW c \in Chan, NEW id \in JobId, NEW k \in Class, Submit(c, id, k)
  PROVE  PlaceInv' /\ Hops(id, "idle", "queued", c) /\ \A i \in JobId \ {id} : Still(i)
<1>1. PICK j \in Job : j = [id |-> id, ch |-> c, cls |-> k]
  BY DEF Job
<1>2. j.id = id /\ queue \in [Chan -> [Class -> Seq(Job)]]
  BY <1>1 DEF ChanInv, TypeOK
<1>3. /\ \A d \in Chan, l \in Class :
            queue'[d][l] = IF d = c /\ l = k THEN Append(queue[c][k], j) ELSE queue[d][l]
      /\ UNCHANGED <<cdone, wjob, ojob, opc>>
  BY <1>1, <1>2 DEF Submit, ownerVars
<1>4. \A w \in Worker : wpc'[w] = "work" <=> wpc[w] = "work"
  BY DEF Submit, SignalCv, ChanInv, TypeOK
<1>5. /\ \A d \in Chan, l \in Class : ~InQueue(id, d, l)
      /\ \A d \in Chan, w \in Worker : ~AtWork(id, d, w)
      /\ \A d \in Chan : ~InDone(id, d) /\ ~AtOwner(id, d)
  BY DEF Submit, InFlight, InQueue, AtWork, InDone, AtOwner, Ids
<1>6. /\ \A i : i \in Ids(Append(queue[c][k], j)) <=> i \in Ids(queue[c][k]) \/ i = id
      /\ Distinct(Append(queue[c][k], j))
  <2>1. queue[c][k] \in Seq(Job) /\ Distinct(queue[c][k]) /\ id \notin Ids(queue[c][k])
    BY <1>2, <1>5 DEF PlaceInv, PlaceShape, InQueue
  <2> QED
    BY <1>2, <2>1, AppendIds
<1>7. /\ \A i \in JobId, d \in Chan, l \in Class :
            InQueue(i, d, l)' <=> InQueue(i, d, l) \/ (i = id /\ d = c /\ l = k)
  BY <1>3, <1>6 DEF InQueue
<1>8. /\ \A i \in JobId, d \in Chan, w \in Worker : AtWork(i, d, w)' <=> AtWork(i, d, w)
      /\ \A i \in JobId, d \in Chan : InDone(i, d)' <=> InDone(i, d)
      /\ \A i \in JobId, d \in Chan : AtOwner(i, d)' <=> AtOwner(i, d)
  BY <1>3, <1>4 DEF AtWork, InDone, AtOwner
<1>9. \A i \in JobId \ {id} : Still(i)
  BY <1>7, <1>8 DEF Still
<1>10. Hops(id, "idle", "queued", c)
  BY <1>5, <1>7 DEF Hops, Stands, Placed
<1>11. OnePlace(id)'
  BY <1>5, <1>7, <1>8 DEF OnePlace
<1>12. PlaceShape'
  BY <1>3, <1>6 DEF PlaceInv, PlaceShape
<1> QED
  BY <1>9, <1>10, <1>11, <1>12, StillOne DEF PlaceInv

\* The owner takes a completion to report it; the report before it is over.
LEMMA PlacePop ==
  ASSUME ChanInv, PlaceInv, NEW c \in Chan, cdone[c] # <<>>, PopDone(c), UNCHANGED <<queue, wpc, wjob>>
  PROVE  /\ PlaceInv'
         /\ \E j : /\ Hops(j, "finished", "reporting", c)
                   /\ \A id \in JobId \ {j} : IF AtOwner(id, c) THEN Hops(id, "reporting", "idle", c)
                                              ELSE Still(id)
<1>0. /\ cdone \in [Chan -> Seq(Job)] /\ ojob \in [Chan -> Job \cup {NULL}]
      /\ opc \in [Chan -> {"none", "idle", "done", "cwait", "cready"}]
  BY DEF ChanInv, TypeOK
<1>1. PICK q \in Seq(Job), j \in Job :
        /\ q = cdone[c] /\ q # <<>> /\ Distinct(q) /\ j = Head(q) /\ j.ch = c
  <2>1. PICK q, j : q = cdone[c] /\ j = Head(q)
    OBVIOUS
  <2>2. q \in Seq(Job) /\ q # <<>> /\ Distinct(q) /\ \A i \in DOMAIN q : q[i].ch = c
    BY <1>0, <2>1 DEF PlaceInv, PlaceShape
  <2>3. 1 \in DOMAIN q /\ j = q[1] /\ j \in Job
    BY <2>1, <2>2
  <2> QED
    BY <2>1, <2>2, <2>3
<1>2. /\ Distinct(Tail(q)) /\ j.id \in Ids(q) /\ j.id \in JobId
      /\ \A id : id \in Ids(Tail(q)) <=> id \in Ids(q) /\ id # j.id
  BY <1>1, TailIds DEF Job
<1>3. /\ \A d \in Chan : cdone'[d] = IF d = c THEN Tail(q) ELSE cdone[d]
      /\ ojob'[c] = j /\ opc'[c] = "done"
      /\ \A d \in Chan : d # c => ojob'[d] = ojob[d] /\ opc'[d] = opc[d]
  BY <1>0, <1>1 DEF PopDone
<1>4. /\ \A id \in JobId, d \in Chan, l \in Class : InQueue(id, d, l)' <=> InQueue(id, d, l)
      /\ \A id \in JobId, d \in Chan, w \in Worker : AtWork(id, d, w)' <=> AtWork(id, d, w)
  BY DEF InQueue, AtWork
<1>5. /\ InDone(j.id, c)
      /\ \A id \in JobId, d \in Chan : InDone(id, d)' <=> InDone(id, d) /\ ~(id = j.id /\ d = c)
  BY <1>1, <1>2, <1>3 DEF InDone
<1>6. /\ \A id \in JobId : AtOwner(id, c)' <=> id = j.id
      /\ \A id \in JobId, d \in Chan : d # c => (AtOwner(id, d)' <=> AtOwner(id, d))
  BY <1>3 DEF AtOwner
<1>7. /\ OnePlace(j.id)' /\ Hops(j.id, "finished", "reporting", c)
  <2>1. OnePlace(j.id)
    BY <1>2 DEF PlaceInv
  <2>2. /\ \A d \in Chan : InDone(j.id, d) => d = c
        /\ \A d \in Chan : ~AtOwner(j.id, d)
        /\ \A d \in Chan, l \in Class : ~InQueue(j.id, d, l)
        /\ \A d \in Chan, w \in Worker : ~AtWork(j.id, d, w)
    BY <1>5, <2>1 DEF OnePlace
  <2>3. /\ \A d \in Chan : AtOwner(j.id, d)' <=> d = c
        /\ \A d \in Chan : ~InDone(j.id, d)'
        /\ \A d \in Chan, l \in Class : ~InQueue(j.id, d, l)'
        /\ \A d \in Chan, w \in Worker : ~AtWork(j.id, d, w)'
    BY <1>2, <1>4, <1>5, <1>6, <2>2
  <2>4. OnePlace(j.id)'
    BY <2>3 DEF OnePlace
  <2>5. Hops(j.id, "finished", "reporting", c)
    BY <1>2, <1>5, <2>3 DEF Hops, Stands, Placed
  <2> QED
    BY <2>4, <2>5
<1>8. ASSUME NEW id \in JobId \ {j.id}, AtOwner(id, c)
      PROVE  OnePlace(id)' /\ Hops(id, "reporting", "idle", c)
  <2>1. OnePlace(id)
    BY DEF PlaceInv
  <2>2. /\ \A d \in Chan : ~AtOwner(id, d)' /\ ~InDone(id, d)'
        /\ \A d \in Chan, l \in Class : ~InQueue(id, d, l)'
        /\ \A d \in Chan, w \in Worker : ~AtWork(id, d, w)'
    BY <1>4, <1>5, <1>6, <1>8, <2>1 DEF OnePlace
  <2>3. OnePlace(id)'
    BY <2>2 DEF OnePlace
  <2> QED
    BY <1>8, <2>2, <2>3 DEF Hops, Stands, Placed
<1>9. ASSUME NEW id \in JobId \ {j.id}, ~AtOwner(id, c) PROVE Still(id)
  BY <1>4, <1>5, <1>6, <1>9 DEF Still
<1>10. PlaceShape'
  <2>1. \A d \in Chan : \A i \in DOMAIN cdone'[d] : cdone'[d][i].ch = d
    <3>1. \A i \in DOMAIN Tail(q) : Tail(q)[i].ch = c
      <4>1. \A i \in DOMAIN q : q[i].ch = c
        BY <1>1 DEF PlaceInv, PlaceShape
      <4>2. \A i \in DOMAIN Tail(q) : i + 1 \in DOMAIN q /\ Tail(q)[i] = q[i + 1]
        BY <1>1
      <4> QED
        BY <4>1, <4>2
    <3> QED
      BY <1>3, <3>1 DEF PlaceInv, PlaceShape
  <2>2. \A d \in Chan : Distinct(cdone'[d])
    BY <1>2, <1>3 DEF PlaceInv, PlaceShape
  <2>3. \A d \in Chan : opc'[d] = "done" => ojob'[d] \in Job /\ ojob'[d].ch = d
    BY <1>1, <1>3 DEF PlaceInv, PlaceShape
  <2>4. \A d \in Chan, l \in Class : Distinct(queue'[d][l])
    BY DEF PlaceInv, PlaceShape
  <2> QED
    BY <2>1, <2>2, <2>3, <2>4 DEF PlaceShape
<1>11. \A id \in JobId : OnePlace(id)'
  BY <1>7, <1>8, <1>9, StillOne DEF PlaceInv
<1> QED
  BY <1>7, <1>8, <1>9, <1>10, <1>11 DEF PlaceInv

\* A report is over.
LEMMA PlaceDrainEnd ==
  ASSUME ChanInv, PlaceInv, NEW c \in Chan, DrainEnd(c)
  PROVE  /\ PlaceInv'
         /\ \E j : Hops(j, "reporting", "idle", c) /\ \A id \in JobId \ {j} : Still(id)
<1>0. /\ ojob \in [Chan -> Job \cup {NULL}]
      /\ opc \in [Chan -> {"none", "idle", "done", "cwait", "cready"}]
  BY DEF ChanInv, TypeOK
<1>1. PICK j \in Job : opc[c] = "done" /\ j = ojob[c]
  BY DEF PlaceInv, PlaceShape, DrainEnd
<1>2. /\ opc'[c] = "idle" /\ \A d \in Chan : d # c => ojob'[d] = ojob[d] /\ opc'[d] = opc[d]
      /\ UNCHANGED <<queue, cdone, wpc, wjob>>
  BY <1>0 DEF DrainEnd, workerVars
<1>3. j.id \in JobId /\ AtOwner(j.id, c)
  BY <1>1 DEF Job, AtOwner
<1>4. /\ \A id \in JobId, d \in Chan, l \in Class : InQueue(id, d, l)' <=> InQueue(id, d, l)
      /\ \A id \in JobId, d \in Chan, w \in Worker : AtWork(id, d, w)' <=> AtWork(id, d, w)
      /\ \A id \in JobId, d \in Chan : InDone(id, d)' <=> InDone(id, d)
      /\ \A id \in JobId, d \in Chan : AtOwner(id, d)' <=> AtOwner(id, d) /\ d # c
      /\ \A id \in JobId : AtOwner(id, c) => id = j.id
  BY <1>1, <1>2 DEF InQueue, AtWork, InDone, AtOwner
<1>5. \A id \in JobId \ {j.id} : Still(id)
  BY <1>4 DEF Still
<1>6. /\ \A d \in Chan : ~AtOwner(j.id, d)' /\ ~InDone(j.id, d)'
      /\ \A d \in Chan, l \in Class : ~InQueue(j.id, d, l)'
      /\ \A d \in Chan, w \in Worker : ~AtWork(j.id, d, w)'
  <2>1. OnePlace(j.id)
    BY <1>3 DEF PlaceInv
  <2> QED
    BY <1>3, <1>4, <2>1 DEF OnePlace
<1>7. OnePlace(j.id)' /\ Hops(j.id, "reporting", "idle", c)
  BY <1>3, <1>6 DEF OnePlace, Hops, Stands, Placed
<1>8. PlaceShape'
  BY <1>2 DEF PlaceInv, PlaceShape
<1> QED
  BY <1>5, <1>7, <1>8, StillOne DEF PlaceInv

\* A channel goes with the completions that nobody drained, and nothing else
\* of it is left by then.
LEMMA PlaceUnlink ==
  ASSUME ChanInv, PlaceInv, NEW c \in Chan, ~Busy(c), opc[c] # "done", Unlink(c)
  PROVE  /\ PlaceInv'
         /\ \A st : \A id \in JobId : Placed(id, st, c) => st = "finished"
         /\ \A id \in JobId : IF InDone(id, c) THEN Hops(id, "finished", "idle", c) ELSE Still(id)
<1>0. /\ queue \in [Chan -> [Class -> Seq(Job)]] /\ cdone \in [Chan -> Seq(Job)]
      /\ opc \in [Chan -> {"none", "idle", "done", "cwait", "cready"}]
  BY DEF ChanInv, TypeOK
<1>1. /\ Runners(c) = {} /\ \A k \in Class : queue[c][k] = <<>>
  BY <1>0, NotBusy, QueuesEmpty
<1>2. /\ \A d \in Chan, l \in Class : queue'[d][l] = queue[d][l]
      /\ \A d \in Chan : cdone'[d] = IF d = c THEN <<>> ELSE cdone[d]
      /\ \A d \in Chan : opc'[d] = "done" <=> opc[d] = "done"
      /\ UNCHANGED <<wpc, wjob, ojob>>
  BY <1>0, <1>1 DEF Unlink, workerVars
<1>3. /\ \A id \in JobId, d \in Chan, l \in Class : InQueue(id, d, l)' <=> InQueue(id, d, l)
      /\ \A id \in JobId, d \in Chan, w \in Worker : AtWork(id, d, w)' <=> AtWork(id, d, w)
      /\ \A id \in JobId, d \in Chan : InDone(id, d)' <=> InDone(id, d) /\ d # c
      /\ \A id \in JobId, d \in Chan : AtOwner(id, d)' <=> AtOwner(id, d)
  BY <1>2 DEF InQueue, AtWork, InDone, AtOwner, Ids
<1>4. \A st : \A id \in JobId : Placed(id, st, c) => st = "finished"
  <2>1. \A id \in JobId, l \in Class : ~InQueue(id, c, l)
    BY <1>1 DEF InQueue, Ids
  <2>2. \A id \in JobId, w \in Worker : ~AtWork(id, c, w)
    BY <1>1 DEF AtWork, Runners
  <2> QED
    BY <2>1, <2>2 DEF Placed, AtOwner
<1>5. ASSUME NEW id \in JobId, InDone(id, c)
      PROVE  OnePlace(id)' /\ Hops(id, "finished", "idle", c)
  <2>1. OnePlace(id)
    BY DEF PlaceInv
  <2>2. /\ \A d \in Chan : ~AtOwner(id, d)' /\ ~InDone(id, d)'
        /\ \A d \in Chan, l \in Class : ~InQueue(id, d, l)'
        /\ \A d \in Chan, w \in Worker : ~AtWork(id, d, w)'
    BY <1>3, <1>5, <2>1 DEF OnePlace
  <2> QED
    BY <1>5, <2>2 DEF OnePlace, Hops, Stands, Placed
<1>6. ASSUME NEW id \in JobId, ~InDone(id, c) PROVE Still(id)
  BY <1>3, <1>6 DEF Still
<1>7. PlaceShape'
  <2>1. \A d \in Chan : Distinct(cdone'[d])
    BY <1>2 DEF PlaceInv, PlaceShape, Distinct
  <2> QED
    BY <1>2, <2>1 DEF PlaceInv, PlaceShape
<1>8. \A id \in JobId : OnePlace(id)'
  BY <1>5, <1>6, StillOne DEF PlaceInv
<1> QED
  BY <1>4, <1>5, <1>6, <1>7, <1>8 DEF PlaceInv

\* The pool goes with all its channels: every job that is left is complete.
LEMMA PlacePoolFree ==
  ASSUME ChanInv, PlaceInv, PoolFree, \A c \in Chan, k \in Class : queue[c][k] = <<>>
  PROVE  /\ PlaceInv'
         /\ \A st : \A id \in JobId, c \in Chan : Placed(id, st, c) => st = "finished"
         /\ \A st : \A id \in JobId, c \in Chan : ~Placed(id, st, c)'
<1>1. /\ \A c \in Chan, k \in Class : queue'[c][k] = <<>>
      /\ \A c \in Chan : cdone'[c] = <<>> /\ opc[c] # "done" /\ opc'[c] = "none"
      /\ \A w \in Worker : wpc[w] = "exit" /\ wpc'[w] = "exit"
  BY DEF PoolFree, workerVars
<1>2. \A id \in JobId :
        /\ \A c \in Chan, k \in Class : ~InQueue(id, c, k) /\ ~InQueue(id, c, k)'
        /\ \A c \in Chan, w \in Worker : ~AtWork(id, c, w) /\ ~AtWork(id, c, w)'
        /\ \A c \in Chan : ~InDone(id, c)' /\ ~AtOwner(id, c) /\ ~AtOwner(id, c)'
  BY <1>1 DEF InQueue, AtWork, InDone, AtOwner, Ids
<1>3. \A id \in JobId : OnePlace(id)'
  BY <1>2 DEF OnePlace
<1>4. PlaceShape'
  BY <1>1 DEF PlaceShape, Distinct
<1> QED
  BY <1>2, <1>3, <1>4 DEF PlaceInv, Placed

\* The mapped variables are functions.
BarShapes ==
    /\ statusBar = [id \in JobId |-> statusBar[id]]
    /\ ownerBar = [id \in JobId |-> ownerBar[id]]
    /\ doorBar = [c \in Chan |-> doorBar[c]]

\* They are by definition.
LEMMA Shapes == BarShapes
<1>1. statusBar = [id \in JobId |-> statusBar[id]]
  BY DEF statusBar
<1>2. ownerBar = [id \in JobId |-> ownerBar[id]]
  BY DEF ownerBar
<1>3. doorBar = [c \in Chan |-> doorBar[c]]
  BY DEF doorBar
<1> QED
  BY <1>1, <1>2, <1>3 DEF BarShapes

\* The same after a step.
LEMMA ShapesNext == BarShapes'
BY Shapes, PTL

\* A channel's door by where its owner is.
DoorsFollow ==
    \A c \in Chan :
        /\ opc[c] = "none" => doorBar[c] = "absent"
        /\ opc[c] \in {"cwait", "cready"} => doorBar[c] = "closing"
        /\ opc[c] \in {"idle", "done"} => doorBar[c] = "open"

\* Every owner is somewhere.
LEMMA Doors == DoorsFollow
BY DEF DoorsFollow, doorBar

\* The same after a step.
LEMMA DoorsNext == DoorsFollow'
BY Doors, PTL

\* An owner that stays on its side of the doors leaves them alone.
LEMMA DoorsStay ==
  ASSUME ChanInv,
         \A c \in Chan : \/ opc'[c] = opc[c]
                         \/ opc[c] \in {"idle", "done"} /\ opc'[c] \in {"idle", "done"}
                         \/ opc[c] \in {"cwait", "cready"} /\ opc'[c] \in {"cwait", "cready"}
  PROVE  doorBar' = doorBar
<1>1. ASSUME NEW c \in Chan PROVE doorBar'[c] = doorBar[c]
  <2>1. opc[c] \in {"none", "idle", "done", "cwait", "cready"}
    BY DEF ChanInv, TypeOK
  <2> QED
    BY <2>1, Doors, DoorsNext DEF DoorsFollow
<1> QED
  BY <1>1, Shapes, ShapesNext DEF BarShapes

\* An owner that goes through a door changes no other.
LEMMA DoorsOne ==
  ASSUME ChanInv, NEW c \in Chan, NEW st, doorBar'[c] = st,
         \A d \in Chan : d # c => opc'[d] = opc[d]
  PROVE  doorBar' = [doorBar EXCEPT ![c] = st]
<1>1. ASSUME NEW d \in Chan, d # c PROVE doorBar'[d] = doorBar[d]
  <2>1. opc[d] \in {"none", "idle", "done", "cwait", "cready"}
    BY DEF ChanInv, TypeOK
  <2> QED
    BY <1>1, <2>1, Doors, DoorsNext DEF DoorsFollow
<1> QED
  BY <1>1, Shapes, ShapesNext DEF BarShapes

\* A step of the pool is a step of JobService or none.
ServiceStep == [Service!Next]_(Service!svars)

\* No job moves.
LEMMA JobsStay ==
  ASSUME BarsFollow, BarsFollow', \A id \in JobId : Still(id)
  PROVE  statusBar' = statusBar /\ ownerBar' = ownerBar
BY StillBars, Shapes, ShapesNext DEF BarShapes

\* No job moves, and no door.
LEMMA StepStutters ==
  ASSUME BarsFollow, BarsFollow', \A id \in JobId : Still(id), doorBar' = doorBar
  PROVE  ServiceStep
<1>1. statusBar' = statusBar /\ ownerBar' = ownerBar
  BY JobsStay
<1> QED
  BY <1>1 DEF ServiceStep, Service!svars

\* One job that is somewhere moves.
LEMMA HopMoves ==
  ASSUME BarsFollow, BarsFollow', NEW j, NEW c, NEW st, NEW su, Hops(j, st, su, c),
         st # "idle", \A id \in JobId \ {j} : Still(id)
  PROVE  /\ j \in JobId /\ c \in Chan /\ statusBar[j] = st /\ ownerBar[j] = c
         /\ Service!Move({j}, su)
<1>1. /\ j \in JobId /\ c \in Chan /\ statusBar[j] = st /\ ownerBar[j] = c
      /\ statusBar'[j] = su /\ ownerBar'[j] = Whose(su, c)
  BY StandsBars, StandsBarsNext DEF Hops, Whose
<1>2. \A id \in JobId \ {j} : statusBar'[id] = statusBar[id] /\ ownerBar'[id] = ownerBar[id]
  BY StillBars
<1>3. statusBar' = [i \in JobId |-> IF i \in {j} THEN su ELSE statusBar[i]]
  BY <1>1, <1>2, ShapesNext DEF BarShapes
<1>4. ownerBar' = [i \in JobId |-> IF i \in {j} /\ su = "idle" THEN NULL ELSE ownerBar[i]]
  BY <1>1, <1>2, ShapesNext DEF Whose, BarShapes
<1> QED
  BY <1>1, <1>3, <1>4 DEF Service!Move

\* The mapping is right before a step and after it.
LEMMA BarsBoth ==
  ASSUME ChanInv, ChanInv', PlaceInv, PlaceInv'
  PROVE  BarsFollow /\ BarsFollow'
BY Bars, BarsNext

\* pool_worker takes a job: Start.
LEMMA StepTake ==
  ASSUME ChanInv, ChanInv', PlaceInv, NEW w \in Worker, Take(w)
  PROVE  PlaceInv' /\ ServiceStep
<1>1. PICK j, c : Hops(j, "queued", "running", c) /\ \A id \in JobId \ {j} : Still(id)
  BY PlaceTake
<1>2. PlaceInv' /\ BarsFollow /\ BarsFollow'
  BY PlaceTake, BarsBoth
<1>3. doorBar' = doorBar
  BY DoorsStay DEF Take, ownerVars
<1>4. j \in JobId /\ statusBar[j] = "queued" /\ Service!Move({j}, "running")
  BY <1>1, <1>2, HopMoves
<1>5. Service!Start(j)
  BY <1>3, <1>4 DEF Service!Start
<1> QED
  BY <1>2, <1>4, <1>5 DEF ServiceStep, Service!Next

\* pool_worker is done with a job: Complete.
LEMMA StepFinish ==
  ASSUME ChanInv, ChanInv', PlaceInv, NEW w \in Worker, Finish(w)
  PROVE  PlaceInv' /\ ServiceStep
<1>1. PICK j, c : /\ \A id \in JobId \ {j} : Still(id)
                  /\ \/ closing[c] /\ Hops(j, "running", "idle", c)
                     \/ ~closing[c] /\ Hops(j, "running", "finished", c)
  BY PlaceFinish
<1>2. PlaceInv' /\ BarsFollow /\ BarsFollow'
  BY PlaceFinish, BarsBoth
<1>3. doorBar' = doorBar
  <2>1. opc' = opc \/ BroadcastQuiesce
    BY DEF Finish, FinishClosing, FinishOpen
  <2>2. \A d \in Chan : opc'[d] = opc[d] \/ (opc[d] = "cwait" /\ opc'[d] = "cready")
    BY <2>1 DEF BroadcastQuiesce
  <2> QED
    BY <2>2, DoorsStay
<1>4. j \in JobId /\ c \in Chan /\ statusBar[j] = "running" /\ ownerBar[j] = c
  BY <1>1, <1>2, HopMoves
<1>5. /\ closing[c] => doorBar[c] = "closing" /\ Service!Move({j}, "idle")
      /\ ~closing[c] => doorBar[c] # "closing" /\ Service!Move({j}, "finished")
  <2>1. /\ closing[c] => doorBar[c] = "closing"
        /\ ~closing[c] => doorBar[c] # "closing"
    BY <1>4, Doors DEF DoorsFollow, ChanInv, DoorsAgree, TypeOK
  <2>2. closing[c] => Service!Move({j}, "idle")
    BY <1>1, <1>2, HopMoves
  <2>3. ~closing[c] => Service!Move({j}, "finished")
    BY <1>1, <1>2, HopMoves
  <2> QED
    BY <2>1, <2>2, <2>3
<1>6. Service!Complete(j)
  BY <1>3, <1>4, <1>5 DEF Service!Complete
<1> QED
  BY <1>2, <1>4, <1>6 DEF ServiceStep, Service!Next

\* pool_submit accepts a job: Submit.
LEMMA StepSubmit ==
  ASSUME ChanInv, ChanInv', PlaceInv, NEW c \in Chan, NEW id \in JobId, NEW k \in Class, Submit(c, id, k)
  PROVE  PlaceInv' /\ ServiceStep
<1>1. PlaceInv' /\ Hops(id, "idle", "queued", c) /\ \A i \in JobId \ {id} : Still(i)
  BY PlaceSubmit
<1>2. BarsFollow /\ BarsFollow'
  BY <1>1, BarsBoth
<1>3. doorBar' = doorBar /\ doorBar[c] = "open"
  <2>1. opc' = opc /\ opc[c] \in {"idle", "done"}
    BY DEF Submit, ownerVars
  <2> QED
    BY <2>1, DoorsStay, Doors DEF DoorsFollow
<1>4. statusBar[id] = "idle" /\ statusBar'[id] = "queued" /\ ownerBar'[id] = c
  BY <1>1, <1>2, StandsBars, StandsBarsNext DEF Hops, Whose
<1>5. \A i \in JobId \ {id} : statusBar'[i] = statusBar[i] /\ ownerBar'[i] = ownerBar[i]
  BY <1>1, <1>2, StillBars
<1>6. /\ statusBar' = [statusBar EXCEPT ![id] = "queued"]
      /\ ownerBar' = [ownerBar EXCEPT ![id] = c]
  BY <1>4, <1>5, Shapes, ShapesNext DEF BarShapes
<1>7. Service!Submit(id, c)
  BY <1>3, <1>4, <1>6 DEF Service!Submit
<1> QED
  BY <1>1, <1>7 DEF ServiceStep, Service!Next

\* dyn_pool_drain hands over a completion: Report.
LEMMA StepPop ==
  ASSUME ChanInv, ChanInv', PlaceInv, NEW c \in Chan, opc[c] \in {"idle", "done"},
         cdone[c] # <<>>, PopDone(c), UNCHANGED <<queue, wpc, wjob>>
  PROVE  PlaceInv' /\ ServiceStep
<1>1. PICK j : /\ Hops(j, "finished", "reporting", c)
               /\ \A id \in JobId \ {j} : IF AtOwner(id, c) THEN Hops(id, "reporting", "idle", c)
                                          ELSE Still(id)
  BY PlacePop
<1>2. PlaceInv' /\ BarsFollow /\ BarsFollow'
  BY PlacePop, BarsBoth
<1>3. doorBar' = doorBar /\ doorBar[c] = "open"
  <2>1. opc \in [Chan -> {"none", "idle", "done", "cwait", "cready"}]
    BY DEF ChanInv, TypeOK
  <2>2. opc'[c] = "done" /\ \A d \in Chan : d # c => opc'[d] = opc[d]
    BY <2>1 DEF PopDone
  <2> QED
    BY <2>2, DoorsStay, Doors DEF DoorsFollow
<1>4. /\ j \in JobId /\ statusBar[j] = "finished" /\ ownerBar[j] = c
      /\ statusBar'[j] = "reporting" /\ ownerBar'[j] = c
  BY <1>1, <1>2, StandsBars, StandsBarsNext DEF Hops, Whose
<1>5. PICK B : B = Service!Of(c, "reporting")
  OBVIOUS
<1>6. \A id \in JobId : id \in B <=> AtOwner(id, c)
  <2>1. \A id \in JobId : id \in B <=> ownerBar[id] = c /\ statusBar[id] = "reporting"
    BY <1>5 DEF Service!Of
  <2>2. ASSUME NEW id \in JobId, AtOwner(id, c) PROVE ownerBar[id] = c /\ statusBar[id] = "reporting"
    BY <1>2, <2>2 DEF BarsFollow, Placed
  <2>3. ASSUME NEW id \in JobId, ownerBar[id] = c, statusBar[id] = "reporting" PROVE AtOwner(id, c)
    <3>1. Placed(id, "reporting", c)
      BY <1>2, <2>3, BarsPlace
    <3> QED
      BY <3>1 DEF Placed
  <2> QED
    BY <2>1, <2>2, <2>3
<1>7. \A id \in JobId \ {j} :
        /\ statusBar'[id] = IF id \in B THEN "idle" ELSE statusBar[id]
        /\ ownerBar'[id] = IF id \in B THEN NULL ELSE ownerBar[id]
  <2>1. ASSUME NEW id \in JobId \ {j}, id \in B PROVE statusBar'[id] = "idle" /\ ownerBar'[id] = NULL
    <3>1. Hops(id, "reporting", "idle", c)
      BY <1>1, <1>6, <2>1
    <3> QED
      BY <1>2, <3>1, StandsBarsNext DEF Hops, Whose
  <2>2. ASSUME NEW id \in JobId \ {j}, id \notin B
        PROVE  statusBar'[id] = statusBar[id] /\ ownerBar'[id] = ownerBar[id]
    <3>1. Still(id)
      BY <1>1, <1>6, <2>2
    <3> QED
      BY <1>2, <3>1, StillBars
  <2> QED
    BY <2>1, <2>2
<1>8. j \notin B
  BY <1>4, <1>5 DEF Service!Of
<1>9. /\ statusBar' = [i \in JobId |-> IF i = j THEN "reporting"
                                       ELSE IF i \in B THEN "idle" ELSE statusBar[i]]
      /\ ownerBar' = [i \in JobId |-> IF i \in B THEN NULL ELSE ownerBar[i]]
  BY <1>4, <1>7, <1>8, ShapesNext DEF BarShapes
<1>10. Service!Report(j)
  BY <1>3, <1>4, <1>5, <1>9 DEF Service!Report
<1> QED
  BY <1>2, <1>4, <1>10 DEF ServiceStep, Service!Next

\* dyn_pool_drain is back from the last callback: Reported.
LEMMA StepDrainEnd ==
  ASSUME ChanInv, ChanInv', PlaceInv, NEW c \in Chan, DrainEnd(c)
  PROVE  PlaceInv' /\ ServiceStep
<1>1. PICK j : Hops(j, "reporting", "idle", c) /\ \A id \in JobId \ {j} : Still(id)
  BY PlaceDrainEnd
<1>2. PlaceInv' /\ BarsFollow /\ BarsFollow'
  BY PlaceDrainEnd, BarsBoth
<1>3. doorBar' = doorBar
  <2>1. opc[c] = "done" /\ opc'[c] = "idle" /\ \A d \in Chan : d # c => opc'[d] = opc[d]
    BY DEF DrainEnd, ChanInv, TypeOK
  <2> QED
    BY <2>1, DoorsStay
<1>4. j \in JobId /\ statusBar[j] = "reporting" /\ Service!Move({j}, "idle")
  BY <1>1, <1>2, HopMoves
<1>5. Service!Reported(j)
  BY <1>3, <1>4 DEF Service!Reported
<1> QED
  BY <1>2, <1>4, <1>5 DEF ServiceStep, Service!Next

\* A channel is made: Open.
LEMMA StepChanNew ==
  ASSUME ChanInv, ChanInv', PlaceInv, NEW c \in Chan, ChanNew(c)
  PROVE  PlaceInv' /\ ServiceStep
<1>0. /\ opc \in [Chan -> {"none", "idle", "done", "cwait", "cready"}]
      /\ opc[c] = "none" /\ opc' = [opc EXCEPT ![c] = "idle"]
      /\ UNCHANGED <<queue, cdone, wjob, ojob, wpc>>
  BY DEF ChanInv, TypeOK, ChanNew, chanVars, workerVars
<1>1. PlaceInv' /\ \A id \in JobId : Still(id)
  BY <1>0, PlaceSame
<1>2. statusBar' = statusBar /\ ownerBar' = ownerBar
  BY <1>1, BarsBoth, JobsStay
<1>3. doorBar[c] = "absent" /\ doorBar' = [doorBar EXCEPT ![c] = "open"]
  <2>1. doorBar[c] = "absent" /\ doorBar'[c] = "open"
    BY <1>0, Doors, DoorsNext DEF DoorsFollow
  <2>2. \A d \in Chan : d # c => opc'[d] = opc[d]
    BY <1>0
  <2> QED
    BY <2>1, <2>2, DoorsOne
<1>4. Service!Open(c)
  BY <1>2, <1>3 DEF Service!Open
<1> QED
  BY <1>1, <1>4 DEF ServiceStep, Service!Next

\* dyn_pool_chan_free finds jobs and waits: Closing.
LEMMA StepCloseWait ==
  ASSUME ChanInv, ChanInv', PlaceInv, NEW c \in Chan, CloseWait(c)
  PROVE  PlaceInv' /\ ServiceStep
<1>0. /\ opc \in [Chan -> {"none", "idle", "done", "cwait", "cready"}]
      /\ opc[c] = "idle" /\ opc' = [opc EXCEPT ![c] = "cwait"]
      /\ UNCHANGED <<queue, cdone, wjob, ojob, wpc>>
  BY DEF ChanInv, TypeOK, CloseWait, workerVars
<1>1. PlaceInv' /\ \A id \in JobId : Still(id)
  BY <1>0, PlaceSame
<1>2. statusBar' = statusBar /\ ownerBar' = ownerBar /\ BarsFollow
  BY <1>1, BarsBoth, JobsStay
<1>3. doorBar[c] = "open" /\ doorBar' = [doorBar EXCEPT ![c] = "closing"]
  <2>1. doorBar[c] = "open" /\ doorBar'[c] = "closing"
    BY <1>0, Doors, DoorsNext DEF DoorsFollow
  <2>2. \A d \in Chan : d # c => opc'[d] = opc[d]
    BY <1>0
  <2> QED
    BY <2>1, <2>2, DoorsOne
<1>4. Service!Of(c, "reporting") = {}
  <2>1. ASSUME NEW id \in JobId, ownerBar[id] = c, statusBar[id] = "reporting" PROVE FALSE
    <3>1. Placed(id, "reporting", c)
      BY <1>2, <2>1, BarsPlace
    <3> QED
      BY <1>0, <3>1 DEF Placed, AtOwner
  <2> QED
    BY <2>1 DEF Service!Of
<1>5. Service!Closing(c)
  BY <1>2, <1>3, <1>4 DEF Service!Closing
<1> QED
  BY <1>1, <1>5 DEF ServiceStep, Service!Next

\* Channels whose jobs are all complete go: what JobService says of it.
LEMMA ClosedBy ==
  ASSUME BarsFollow, BarsFollow', NEW C \in SUBSET Chan,
         \A st : \A id \in JobId, c \in C : Placed(id, st, c) => st = "finished",
         \A id \in JobId : IF \E c \in C : InDone(id, c)
                           THEN \A st : \A c \in Chan : ~Placed(id, st, c)'
                           ELSE Still(id),
         doorBar' = [c \in Chan |-> IF c \in C THEN "absent" ELSE doorBar[c]]
  PROVE  Service!Closed(C)
<1>1. ASSUME NEW c \in C, NEW st \in {"queued", "running", "reporting"} PROVE Service!Of(c, st) = {}
  <2>1. ASSUME NEW id \in JobId, ownerBar[id] = c, statusBar[id] = st PROVE FALSE
    <3>1. Placed(id, st, c)
      BY <2>1, BarsPlace
    <3> QED
      BY <3>1
  <2> QED
    BY <2>1 DEF Service!Of
<1>2. PICK F : F = UNION {Service!Of(c, "finished") : c \in C}
  OBVIOUS
<1>3. ASSUME NEW id \in JobId PROVE id \in F <=> \E c \in C : InDone(id, c)
  <2>1. id \in F <=> \E c \in C : ownerBar[id] = c /\ statusBar[id] = "finished"
    BY <1>2 DEF Service!Of
  <2>2. ASSUME NEW c \in C, InDone(id, c) PROVE ownerBar[id] = c /\ statusBar[id] = "finished"
    BY <2>2 DEF BarsFollow, Placed
  <2>3. ASSUME NEW c \in C, ownerBar[id] = c, statusBar[id] = "finished" PROVE InDone(id, c)
    <3>1. Placed(id, "finished", c)
      BY <2>3, BarsPlace
    <3> QED
      BY <3>1 DEF Placed
  <2> QED
    BY <2>1, <2>2, <2>3
<1>4. ASSUME NEW id \in JobId
      PROVE  /\ statusBar'[id] = IF id \in F THEN "idle" ELSE statusBar[id]
             /\ ownerBar'[id] = IF id \in F THEN NULL ELSE ownerBar[id]
  <2>1. CASE id \in F
    BY <1>3, <2>1 DEF BarsFollow
  <2>2. CASE id \notin F
    BY <1>3, <2>2, StillBars
  <2> QED
    BY <2>1, <2>2
<1>5. Service!Move(F, "idle")
  BY <1>4, ShapesNext DEF BarShapes, Service!Move
<1>6. \A c \in C : Service!Of(c, "queued") \cup Service!Of(c, "running") \cup Service!Of(c, "reporting") = {}
  BY <1>1
<1> QED
  BY <1>2, <1>5, <1>6 DEF Service!Closed

\* dyn_pool_chan_free unlinks a channel: Closed.
LEMMA StepUnlink ==
  ASSUME ChanInv, ChanInv', PlaceInv, NEW c \in Chan, ~Busy(c), opc[c] # "done", Unlink(c)
  PROVE  PlaceInv' /\ ServiceStep
<1>1. /\ PlaceInv'
      /\ \A st : \A id \in JobId : Placed(id, st, c) => st = "finished"
      /\ \A id \in JobId : IF InDone(id, c) THEN Hops(id, "finished", "idle", c) ELSE Still(id)
  BY PlaceUnlink
<1>2. BarsFollow /\ BarsFollow'
  BY <1>1, BarsBoth
<1>3. doorBar' = [d \in Chan |-> IF d \in {c} THEN "absent" ELSE doorBar[d]]
  <2>1. opc'[c] = "none" /\ \A d \in Chan : d # c => opc'[d] = opc[d]
    BY DEF Unlink, ChanInv, TypeOK
  <2>2. doorBar'[c] = "absent"
    BY <2>1, DoorsNext DEF DoorsFollow
  <2>3. doorBar' = [doorBar EXCEPT ![c] = "absent"]
    BY <2>1, <2>2, DoorsOne
  <2> QED
    BY <2>3, Shapes DEF BarShapes
<1>4. \A id \in JobId : IF \E d \in {c} : InDone(id, d)
                        THEN \A st : \A d \in Chan : ~Placed(id, st, d)'
                        ELSE Still(id)
  BY <1>1 DEF Hops, Stands
<1>5. Service!Closed({c})
  BY <1>1, <1>2, <1>3, <1>4, ClosedBy
<1> QED
  BY <1>1, <1>5 DEF ServiceStep, Service!Next

\* dyn_pool_free frees the channels that are left: Closed, for all of them.
LEMMA StepPoolFree ==
  ASSUME ChanInv, ChanInv', PlaceInv, PoolFree, \A c \in Chan, k \in Class : queue[c][k] = <<>>
  PROVE  PlaceInv' /\ ServiceStep
<1>1. /\ PlaceInv'
      /\ \A st : \A id \in JobId, c \in Chan : Placed(id, st, c) => st = "finished"
      /\ \A st : \A id \in JobId, c \in Chan : ~Placed(id, st, c)'
  BY PlacePoolFree
<1>2. BarsFollow /\ BarsFollow'
  BY <1>1, BarsBoth
<1>3. doorBar' = [d \in Chan |-> IF d \in Chan THEN "absent" ELSE doorBar[d]]
  <2>1. \A d \in Chan : opc'[d] = "none"
    BY DEF PoolFree
  <2>2. \A d \in Chan : doorBar'[d] = "absent"
    BY <2>1, DoorsNext DEF DoorsFollow
  <2> QED
    BY <2>2, ShapesNext DEF BarShapes
<1>4. ASSUME NEW id \in JobId, ~\E c \in Chan : InDone(id, c) PROVE Still(id)
  <2>1. \A st : \A c \in Chan : ~Placed(id, st, c) /\ ~Placed(id, st, c)'
    BY <1>1, <1>4 DEF Placed
  <2>2. /\ \A c \in Chan, k \in Class : ~InQueue(id, c, k) /\ ~InQueue(id, c, k)'
        /\ \A c \in Chan, w \in Worker : ~AtWork(id, c, w) /\ ~AtWork(id, c, w)'
        /\ \A c \in Chan : ~InDone(id, c) /\ ~InDone(id, c)'
        /\ \A c \in Chan : ~AtOwner(id, c) /\ ~AtOwner(id, c)'
    BY <2>1 DEF Placed
  <2> QED
    BY <2>2 DEF Still
<1>5. Service!Closed(Chan)
  BY <1>1, <1>2, <1>3, <1>4, ClosedBy
<1> QED
  BY <1>1, <1>5 DEF ServiceStep, Service!Next

\* A step that moves no job and no door.
LEMMA StepQuiet ==
  ASSUME ChanInv, ChanInv', PlaceInv, UNCHANGED <<queue, cdone, wjob, ojob>>,
         \A w \in Worker : wpc'[w] = "work" <=> wpc[w] = "work",
         \A c \in Chan : \/ opc'[c] = opc[c]
                         \/ opc[c] \in {"cwait", "cready"} /\ opc'[c] \in {"cwait", "cready"}
  PROVE  PlaceInv' /\ ServiceStep
<1>1. PlaceInv' /\ \A id \in JobId : Still(id)
  BY PlaceSame
<1>2. doorBar' = doorBar
  BY DoorsStay
<1> QED
  BY <1>1, <1>2, BarsBoth, StepStutters

\* Every step of a thread.
LEMMA StepWorker ==
  ASSUME ChanInv, ChanInv', PlaceInv, NEW w \in Worker, WorkerStep(w)
  PROVE  PlaceInv' /\ ServiceStep
<1>1. CASE Sleep(w) \/ SpuriousWake(w) \/ Exit(w)
  <2>1. UNCHANGED <<queue, cdone, wjob, ojob, opc>>
    BY <1>1 DEF Sleep, SpuriousWake, Exit, chanVars, ownerVars
  <2>2. \A v \in Worker : wpc'[v] = "work" <=> wpc[v] = "work"
    BY <1>1 DEF Sleep, SpuriousWake, Exit, ChanInv, TypeOK
  <2> QED
    BY <2>1, <2>2, StepQuiet
<1> QED
  BY <1>1, StepTake, StepFinish DEF WorkerStep

\* Every step of an owner.
LEMMA StepOwner ==
  ASSUME ChanInv, ChanInv', PlaceInv, NEW c \in Chan, OwnerStep(c)
  PROVE  PlaceInv' /\ ServiceStep
<1>1. CASE DrainBegin(c)
  <2>1. CASE cdone[c] = <<>>
    <3>1. UNCHANGED <<queue, cdone, wjob, ojob, opc, wpc>>
      BY <1>1, <2>1 DEF DrainBegin, ownerVars, workerVars
    <3> QED
      BY <3>1, StepQuiet
  <2>2. CASE cdone[c] # <<>>
    <3>1. opc[c] = "idle" /\ PopDone(c) /\ UNCHANGED <<queue, wpc, wjob>>
      BY <1>1, <2>2 DEF DrainBegin, workerVars
    <3> QED
      BY <2>2, <3>1, StepPop
  <2> QED
    BY <2>1, <2>2
<1>2. CASE DrainNext(c)
  <2>1. opc[c] = "done" /\ cdone[c] # <<>> /\ PopDone(c) /\ UNCHANGED <<queue, wpc, wjob>>
    BY <1>2 DEF DrainNext, workerVars
  <2> QED
    BY <2>1, StepPop
<1>3. CASE CloseBegin(c)
  <2>1. opc[c] # "done" /\ ~Busy(c) /\ Unlink(c)
    BY <1>3 DEF CloseBegin
  <2> QED
    BY <2>1, StepUnlink
<1>4. CASE CloseRecheck(c) /\ ~Busy(c)
  <2>1. opc[c] # "done" /\ Unlink(c)
    BY <1>4 DEF CloseRecheck
  <2> QED
    BY <1>4, <2>1, StepUnlink
<1>5. CASE (CloseRecheck(c) /\ Busy(c)) \/ SpuriousQuiesce(c)
  <2>1. /\ UNCHANGED <<queue, cdone, wjob, ojob, wpc>> /\ opc[c] \in {"cwait", "cready"}
        /\ \E st \in {"cwait", "cready"} : opc' = [opc EXCEPT ![c] = st]
    BY <1>5 DEF CloseRecheck, SpuriousQuiesce, chanVars, workerVars
  <2>2. \A d \in Chan : \/ opc'[d] = opc[d]
                        \/ opc[d] \in {"cwait", "cready"} /\ opc'[d] \in {"cwait", "cready"}
    BY <2>1 DEF ChanInv, TypeOK
  <2> QED
    BY <2>1, <2>2, StepQuiet
<1>6. ASSUME NEW id \in JobId, NEW k \in Class, Submit(c, id, k) PROVE PlaceInv' /\ ServiceStep
  BY <1>6, StepSubmit
<1> QED
  BY <1>1, <1>2, <1>3, <1>4, <1>5, <1>6, StepChanNew, StepDrainEnd, StepCloseWait DEF OwnerStep

\* Every step keeps each job in one place and is a step of JobService.
LEMMA StepRefines ==
  ASSUME ChanInv, ChanInv', StopDrains, PlaceInv, [Next]_vars
  PROVE  PlaceInv' /\ ServiceStep
<1>1. CASE Stop
  <2>1. UNCHANGED <<queue, cdone, wjob, ojob, opc>>
    BY <1>1 DEF Stop, chanVars, ownerVars
  <2>2. \A v \in Worker : wpc'[v] = "work" <=> wpc[v] = "work"
    BY <1>1 DEF Stop, Awakened
  <2> QED
    BY <2>1, <2>2, StepQuiet
<1>2. CASE PoolFree
  <2>1. \A c \in Chan, k \in Class : queue[c][k] = <<>>
    BY <1>2 DEF PoolFree, StopDrains
  <2> QED
    BY <1>2, <2>1, StepPoolFree
<1>3. CASE UNCHANGED vars
  <2>1. UNCHANGED <<queue, cdone, wjob, ojob, opc, wpc>>
    BY <1>3 DEF vars, chanVars, ownerVars, workerVars
  <2> QED
    BY <2>1, StepQuiet
<1> QED
  BY <1>1, <1>2, <1>3, StepWorker, StepOwner DEF Next, Terminated

\* A new pool has no job and no channel.
LEMMA ServiceInit == Init => PlaceInv /\ Service!Init
<1> SUFFICES ASSUME Init PROVE PlaceInv /\ Service!Init
  OBVIOUS
<1>1. /\ \A c \in Chan, k \in Class : queue[c][k] = <<>>
      /\ \A c \in Chan : cdone[c] = <<>> /\ opc[c] = "none"
      /\ \A w \in Worker : wpc[w] = "awake"
  BY DEF Init
<1>2. \A id \in JobId :
        /\ \A c \in Chan, k \in Class : ~InQueue(id, c, k)
        /\ \A c \in Chan, w \in Worker : ~AtWork(id, c, w)
        /\ \A c \in Chan : ~InDone(id, c) /\ ~AtOwner(id, c)
  BY <1>1 DEF InQueue, AtWork, InDone, AtOwner, Ids
<1>3. PlaceInv
  <2>1. PlaceShape
    BY <1>1 DEF PlaceShape, Distinct
  <2>2. \A id \in JobId : OnePlace(id)
    BY <1>2 DEF OnePlace
  <2> QED
    BY <2>1, <2>2 DEF PlaceInv
<1>4. \A id \in JobId : statusBar[id] = "idle" /\ ownerBar[id] = NULL
  <2>1. BarsFollow
    BY <1>3, ChanInvInit, Bars
  <2> QED
    BY <1>2, <2>1 DEF BarsFollow, Placed
<1>5. \A c \in Chan : doorBar[c] = "absent"
  BY <1>1, Doors DEF DoorsFollow
<1>6. Service!Init
  BY <1>4, <1>5, Shapes DEF BarShapes, Service!Init
<1> QED
  BY <1>3, <1>6

\* For any number of threads, channels and jobs, the pool keeps the promise of
\* JobService: an accepted job runs exactly once and is reported at most once,
\* one report at a time per channel, and no job of a channel runs or is
\* reported after dyn_pool_chan_free or dyn_pool_free has returned.
THEOREM PoolImplementsJobService == Spec => ImplementsJobService
<1>1. Init => PlaceInv /\ Service!Init
  BY ServiceInit
<1>2. ChanInv /\ ChanInv' /\ StopDrains /\ PlaceInv /\ [Next]_vars => PlaceInv' /\ [Service!Next]_(Service!svars)
  BY StepRefines DEF ServiceStep
<1> QED
  BY <1>1, <1>2, ChanInvAlways, StopRunsEverything, PTL DEF Spec, ImplementsJobService, Service!Spec
=============================================================================
