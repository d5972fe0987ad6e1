--------------------------- MODULE AioParkProofs ---------------------------
(***************************************************************************)
(* The park of module AioPark, for every channel size, park limit and      *)
(* number of jobs: parked jobs have a wake to come, completions have       *)
(* raised it, and the order of submission is kept.                         *)
(***************************************************************************)
EXTENDS AioPark, FiniteSetTheorems, TLAPS

\* The channel never holds more than its rings can.
WithinCap == inflight <= Cap

\* A drain has no larger budget than there are completions, for only the loop
\* takes them.
BudgetCovered == pc \in {"drain", "dcb"} => budget <= Len(cdone)

\* From the end of a drain on, completions that wait have a wake.
LeftoverHasWake == pc \in {"idle", "flush", "fcb"} /\ cdone # <<>> => wake

\* Names are handed out in order.
NamesAhead == last < next /\ \A k \in DOMAIN park : park[k].id < next

ParkInv ==
    /\ TypeOK
    /\ WithinCap
    /\ BudgetCovered
    /\ LeftoverHasWake
    /\ NamesAhead
    /\ ParkInOrder
    /\ ParkedHasWake

-----------------------------------------------------------------------------
\* The jobs in the pool are finitely many, and one more or one less of them
\* changes their number by at most, respectively exactly, one.
LEMMA PoolCount ==
    ASSUME NEW P \in SUBSET Job
    PROVE  /\ IsFiniteSet(P) /\ Cardinality(P) \in Nat
           /\ \A x \in Job : Cardinality(P \cup {x}) <= Cardinality(P) + 1
           /\ \A x \in P : Cardinality(P \ {x}) = Cardinality(P) - 1
<1>1. IsFiniteSet(Job)
  BY ParkAssumption, FS_Interval DEF Job
<1>2. IsFiniteSet(P) /\ Cardinality(P) \in Nat
  BY <1>1, FS_Subset, FS_CardinalityType
<1>3. ASSUME NEW x \in Job PROVE Cardinality(P \cup {x}) <= Cardinality(P) + 1
  BY <1>2, FS_AddElement
<1>4. ASSUME NEW x \in P PROVE Cardinality(P \ {x}) = Cardinality(P) - 1
  BY <1>2, FS_RemoveElement
<1> QED
  BY <1>2, <1>3, <1>4

\* Tail moves every element one position down, and Head is the one it drops.
LEMMA TailFacts ==
    ASSUME NEW S, NEW s \in Seq(S), s # <<>>
    PROVE  /\ Tail(s) \in Seq(S) /\ Len(Tail(s)) = Len(s) - 1 /\ Len(s) > 0
           /\ \A k \in DOMAIN Tail(s) : k + 1 \in DOMAIN s /\ Tail(s)[k] = s[k + 1]
           /\ Head(s) = s[1] /\ 1 \in DOMAIN s /\ Head(s) \in S
  OBVIOUS

\* Append keeps what was there and puts the element last.
LEMMA AppendFacts ==
    ASSUME NEW S, NEW s \in Seq(S), NEW e \in S
    PROVE  /\ Append(s, e) \in Seq(S) /\ Len(Append(s, e)) = Len(s) + 1
           /\ Append(s, e) # <<>>
           /\ \A k \in DOMAIN Append(s, e) :
                 \/ k \in DOMAIN s /\ Append(s, e)[k] = s[k]
                 \/ k = Len(s) + 1 /\ Append(s, e)[k] = e
  OBVIOUS

\* A parked job's name is the name of a job.
LEMMA ParkedId ==
    ASSUME NEW p \in Parked
    PROVE  p.id \in Job
  BY DEF Parked

\* The first parked job leaves: the park stays in order behind it.
LEMMA HeadLeaves ==
    ASSUME TypeOK, NamesAhead, ParkInOrder, park # <<>>, park' = Tail(park),
           last' = Head(park).id, next' = next
    PROVE  NamesAhead' /\ ParkInOrder' /\ park' \in Seq(Parked)
           /\ Len(park') <= ParkMax /\ last' \in 0..MaxJob
<1>1. park \in Seq(Parked) /\ Len(park) \in Nat /\ next \in Nat /\ last \in Nat
  BY ParkAssumption DEF TypeOK
<1>2. \A k \in DOMAIN park : park[k] \in Parked /\ park[k].id \in Job
  BY <1>1, ParkedId
<1>3. /\ Tail(park) \in Seq(Parked) /\ Len(Tail(park)) = Len(park) - 1
      /\ \A k \in DOMAIN Tail(park) : k + 1 \in DOMAIN park /\ Tail(park)[k] = park[k + 1]
      /\ Head(park) = park[1] /\ 1 \in DOMAIN park
  BY <1>1, TailFacts
<1>4. NamesAhead'
  BY <1>1, <1>3 DEF NamesAhead
<1>5. ParkInOrder'
  <2> SUFFICES ASSUME NEW k \in DOMAIN Tail(park)
               PROVE  /\ Tail(park)[k].id > park[1].id
                      /\ \A m \in 1..k - 1 : Tail(park)[m].id < Tail(park)[k].id
    BY <1>3 DEF ParkInOrder
  <2>1. k \in Nat \ {0} /\ k + 1 \in DOMAIN park
    BY <1>1, <1>3
  <2>2. \A m \in 1..k : park[m].id < park[k + 1].id
    BY <2>1 DEF ParkInOrder
  <2>3. park[1].id < park[k + 1].id
    BY <2>1, <2>2
  <2>4. park[1].id \in Int /\ park[k + 1].id \in Int
    BY <1>2, <1>3, <2>1 DEF Job
  <2>5. \A m \in 1..k - 1 : m \in DOMAIN Tail(park) /\ m + 1 \in 1..k
    BY <2>1, <1>1, <1>3
  <2> QED
    BY <1>3, <2>2, <2>3, <2>4, <2>5
<1>6. last' \in 0..MaxJob
  BY <1>2, <1>3 DEF Job
<1> QED
  BY <1>1, <1>3, <1>4, <1>5, <1>6, ParkAssumption DEF TypeOK

-----------------------------------------------------------------------------
\* A new reactor has nothing parked and nothing in flight.
LEMMA InitParkInv == Init => ParkInv
<1> SUFFICES ASSUME Init PROVE ParkInv
  OBVIOUS
<1> USE DEF Init
<1>1. TypeOK
  <2>1. park \in Seq(Parked) /\ cdone \in Seq(Job) /\ Len(park) = 0
    OBVIOUS
  <2>2. pool \in SUBSET Job /\ wake \in BOOLEAN
    OBVIOUS
  <2>3. /\ Len(park) <= ParkMax /\ budget \in Nat
        /\ next \in 1..MaxJob + 1 /\ last \in 0..MaxJob
    BY <2>1, ParkAssumption
  <2> QED
    BY <2>1, <2>2, <2>3 DEF TypeOK
<1>2. inflight = 0
  BY FS_EmptySet DEF inflight
<1> QED
  BY <1>1, <1>2, ParkAssumption
     DEF ParkInv, WithinCap, BudgetCovered, LeftoverHasWake, NamesAhead, ParkInOrder, ParkedHasWake

\* A submission, from wherever user code runs.
LEMMA SubmitKeeps ==
    ASSUME ParkInv, NEW cpu \in BOOLEAN, NEW room \in BOOLEAN,
           aio_pool_submit_class(cpu, room)
    PROVE  ParkInv'
<1> USE DEF ParkInv
<1>0. /\ UserRuns /\ next <= MaxJob /\ next' = next + 1
      /\ cdone' = cdone /\ wake' = wake /\ pc' = pc /\ budget' = budget
  BY DEF aio_pool_submit_class
<1>1. /\ next \in Job /\ next \in Nat /\ last \in Nat /\ last < next
      /\ park \in Seq(Parked) /\ Len(park) \in Nat
      /\ pool \in SUBSET Job /\ cdone \in Seq(Job) /\ Len(cdone) \in Nat
      /\ Cap \in Nat /\ ParkMax \in Nat /\ MaxJob \in Nat
  BY <1>0, ParkAssumption DEF TypeOK, Job, NamesAhead
<1>2. \A k \in DOMAIN park : park[k].id \in Nat
  <2>1. \A k \in DOMAIN park : park[k].id \in Job
    BY <1>1, ParkedId
  <2> QED
    BY <2>1, <1>1 DEF Job
<1>3. BudgetCovered' /\ LeftoverHasWake'
  BY <1>0 DEF BudgetCovered, LeftoverHasWake
<1>a. CASE ToPool(cpu, room)
  <2>1. /\ park = <<>> /\ park' = <<>> /\ inflight < Cap
        /\ pool' = pool \cup {next} /\ last' = next
    BY <1>a DEF ToPool, Direct, HasRoom
  <2>2. Cardinality(pool') <= Cardinality(pool) + 1 /\ Cardinality(pool) \in Nat
        /\ Cardinality(pool') \in Nat /\ pool' \in SUBSET Job
    BY <1>1, <2>1, PoolCount
  <2>3. WithinCap'
    BY <1>0, <1>1, <2>1, <2>2 DEF WithinCap, inflight
  <2>4. TypeOK'
    BY <1>0, <1>1, <2>1, <2>2, ParkAssumption DEF TypeOK, Job
  <2>5. NamesAhead' /\ ParkInOrder' /\ ParkedHasWake'
    BY <1>0, <1>1, <2>1 DEF NamesAhead, ParkInOrder, ParkedHasWake
  <2> QED
    BY <1>3, <2>3, <2>4, <2>5
<1>b. CASE CrowdedOut(cpu, room) \/ ParkRefuses(cpu, room)
  <2>1. park' = park /\ pool' = pool /\ last' = last
    BY <1>b DEF CrowdedOut, ParkRefuses
  <2>2. TypeOK'
    BY <1>0, <1>1, <2>1, ParkAssumption DEF TypeOK
  <2>3. NamesAhead'
    BY <1>0, <1>1, <1>2, <2>1 DEF NamesAhead
  <2>4. ParkInOrder'
    BY <2>1 DEF ParkInOrder
  <2>5. WithinCap' /\ ParkedHasWake'
    BY <1>0, <2>1 DEF WithinCap, ParkedHasWake, inflight
  <2> QED
    BY <1>3, <2>2, <2>3, <2>4, <2>5
<1>c. CASE ToPark(cpu, room)
  <2> DEFINE e == [id |-> next, cpu |-> cpu]
  <2>1. /\ park' = Append(park, e) /\ pool' = pool /\ last' = last
        /\ MustPark(cpu, room) /\ ~(Len(park) >= ParkMax)
    BY <1>c DEF ToPark, ParkFull
  <2>2. e \in Parked /\ e.id = next
    BY <1>1 DEF Parked
  <2> HIDE DEF e
  <2>3. /\ park' \in Seq(Parked) /\ Len(park') = Len(park) + 1
        /\ \A k \in DOMAIN park' : \/ k \in DOMAIN park /\ park'[k] = park[k]
                                   \/ k = Len(park) + 1 /\ park'[k] = e
    BY <1>1, <2>1, <2>2, AppendFacts
  <2>4. TypeOK'
    BY <1>0, <1>1, <2>1, <2>3, ParkAssumption DEF TypeOK
  <2>5. NamesAhead'
    BY <1>0, <1>1, <1>2, <2>1, <2>2, <2>3 DEF NamesAhead
  <2>6. ParkInOrder'
    <3> SUFFICES ASSUME NEW k \in DOMAIN park'
                 PROVE  /\ park'[k].id > last
                        /\ \A m \in 1..k - 1 : park'[m].id < park'[k].id
      BY <2>1 DEF ParkInOrder
    <3>1. DOMAIN park = 1..Len(park) /\ DOMAIN park' = 1..Len(park) + 1
      BY <1>1, <2>3
    <3>2. CASE k \in DOMAIN park /\ park'[k] = park[k]
      <4>1. \A m \in 1..k - 1 : m \in DOMAIN park /\ m \in DOMAIN park' /\ park'[m] = park[m]
        BY <3>1, <3>2, <1>1, <2>3
      <4> QED
        BY <3>2, <4>1 DEF ParkInOrder
    <3>3. CASE k = Len(park) + 1 /\ park'[k] = e
      <4>1. \A m \in 1..k - 1 : m \in DOMAIN park /\ m \in DOMAIN park' /\ park'[m] = park[m]
        BY <3>1, <3>3, <1>1, <2>3
      <4> QED
        BY <3>3, <4>1, <2>2, <1>1 DEF NamesAhead
    <3> QED
      BY <2>3, <3>2, <3>3
  <2>7. inflight' = inflight
    BY <1>0, <2>1 DEF inflight
  <2>8. WithinCap'
    BY <2>7 DEF WithinCap
  <2>9. ParkedHasWake'
    <3>1. CASE park = <<>>
      <4>1. ~(inflight < Cap)
        BY <2>1, <3>1 DEF MustPark, Direct, HasRoom
      <4>2. inflight \in Nat
        BY <1>1, PoolCount DEF inflight
      <4> QED
        BY <1>1, <2>7, <4>1, <4>2 DEF ParkedHasWake, WithinCap
    <3>2. CASE park # <<>>
      BY <1>0, <2>7, <3>2 DEF ParkedHasWake
    <3> QED
      BY <3>1, <3>2
  <2> QED
    BY <1>3, <2>4, <2>5, <2>6, <2>8, <2>9
<1> QED
  BY <1>a, <1>b, <1>c DEF aio_pool_submit_class

\* A worker finishes a job: the channel holds as many jobs as before.
LEMMA CompleteKeeps ==
    ASSUME ParkInv, NEW j \in Job, Complete(j)
    PROVE  ParkInv'
<1> USE DEF ParkInv
<1>0. /\ j \in pool /\ pool' = pool \ {j} /\ cdone' = Append(cdone, j) /\ wake' = TRUE
      /\ park' = park /\ pc' = pc /\ budget' = budget /\ next' = next /\ last' = last
  BY DEF Complete
<1>1. pool \in SUBSET Job /\ cdone \in Seq(Job) /\ Len(cdone) \in Nat /\ budget \in Nat
  BY DEF TypeOK
<1>2. Len(cdone') = Len(cdone) + 1 /\ cdone' \in Seq(Job)
  BY <1>0, <1>1
<1>3. Cardinality(pool) \in Nat /\ Cardinality(pool') = Cardinality(pool) - 1
  BY <1>0, <1>1, PoolCount
<1>4. inflight' = inflight
  BY <1>1, <1>2, <1>3 DEF inflight
<1>5. TypeOK'
  BY <1>0, <1>1, <1>2 DEF TypeOK
<1>6. WithinCap' /\ ParkedHasWake'
  BY <1>0, <1>4 DEF WithinCap, ParkedHasWake
<1>7. BudgetCovered' /\ LeftoverHasWake'
  BY <1>0, <1>1, <1>2 DEF BudgetCovered, LeftoverHasWake
<1>8. NamesAhead' /\ ParkInOrder'
  BY <1>0 DEF NamesAhead, ParkInOrder
<1> QED
  BY <1>5, <1>6, <1>7, <1>8

\* The drain: it takes completions away and ends with a wake for the rest.
LEMMA DrainKeeps ==
    ASSUME ParkInv, DrainStarts \/ DrainOne \/ DoneReturns \/ DrainEnds
    PROVE  ParkInv'
<1> USE DEF ParkInv
<1>0. park' = park /\ pool' = pool /\ next' = next /\ last' = last
  BY DEF DrainStarts, DrainOne, DoneReturns, DrainEnds
<1>1. NamesAhead' /\ ParkInOrder'
  BY <1>0 DEF NamesAhead, ParkInOrder
<1>2. /\ cdone \in Seq(Job) /\ Len(cdone) \in Nat /\ budget \in Nat
      /\ Cardinality(pool) \in Nat /\ Cap \in Nat
  BY PoolCount, ParkAssumption DEF TypeOK
<1>a. CASE DrainStarts
  <2>1. pc' = "drain" /\ wake' = FALSE /\ budget' = Len(cdone) /\ cdone' = cdone
    BY <1>a DEF DrainStarts
  <2>2. TypeOK'
    BY <1>0, <1>2, <2>1 DEF TypeOK
  <2> QED
    BY <1>0, <1>1, <1>2, <2>1, <2>2
       DEF WithinCap, BudgetCovered, LeftoverHasWake, ParkedHasWake, inflight
<1>b. CASE DrainOne
  <2>1. pc = "drain" /\ pc' = "dcb" /\ budget > 0 /\ budget' = budget - 1
        /\ cdone' = Tail(cdone) /\ wake' = wake
    BY <1>b DEF DrainOne
  <2>2. cdone # <<>>
    BY <1>2, <2>1 DEF BudgetCovered
  <2>3. cdone' \in Seq(Job) /\ Len(cdone') = Len(cdone) - 1
    BY <1>2, <2>1, <2>2, TailFacts
  <2>4. TypeOK'
    BY <1>0, <1>2, <2>1, <2>3 DEF TypeOK
  <2>5. WithinCap'
    BY <1>0, <1>2, <2>3 DEF WithinCap, inflight
  <2> QED
    BY <1>1, <1>2, <2>1, <2>3, <2>4, <2>5 DEF BudgetCovered, LeftoverHasWake, ParkedHasWake
<1>c. CASE DoneReturns
  BY <1>0, <1>1, <1>2, <1>c
     DEF DoneReturns, TypeOK, WithinCap, BudgetCovered, LeftoverHasWake, ParkedHasWake, inflight
<1>d. CASE DrainEnds
  BY <1>0, <1>1, <1>2, <1>d
     DEF DrainEnds, Leftover, AfterDrain, TypeOK, WithinCap, BudgetCovered, LeftoverHasWake,
         ParkedHasWake, inflight
<1> QED
  BY <1>a, <1>b, <1>c, <1>d

\* The flush: it stops only with an empty park or a full channel.
LEMMA FlushKeeps ==
    ASSUME ParkInv, FlushSubmits \/ FlushInline \/ InlineReturns \/ FlushEnds
    PROVE  ParkInv'
<1> USE DEF ParkInv
<1>1. /\ cdone' = cdone /\ wake' = wake /\ budget' = budget /\ next' = next
      /\ pc \in {"flush", "fcb"} /\ pc' \in {"flush", "fcb", "idle"}
  BY DEF FlushSubmits, FlushInline, InlineReturns, FlushEnds
<1>2. BudgetCovered' /\ LeftoverHasWake'
  BY <1>1 DEF BudgetCovered, LeftoverHasWake
<1>3. /\ Len(cdone) \in Nat /\ Cardinality(pool) \in Nat /\ Cap \in Nat
      /\ pool \in SUBSET Job /\ park \in Seq(Parked)
  BY PoolCount, ParkAssumption DEF TypeOK
<1>a. CASE FlushSubmits
  <2>1. /\ pc' = "flush" /\ park # <<>> /\ park' = Tail(park) /\ last' = Head(park).id
        /\ pool' = pool \cup {Head(park).id} /\ inflight < Cap
    BY <1>1, <1>a DEF FlushSubmits, HasRoom
  <2>2. NamesAhead' /\ ParkInOrder' /\ park' \in Seq(Parked) /\ Len(park') <= ParkMax
        /\ last' \in 0..MaxJob
    BY <1>1, <2>1, HeadLeaves
  <2>3. Head(park).id \in Job
    BY <1>3, <2>1, TailFacts, ParkedId
  <2>4. Cardinality(pool') <= Cardinality(pool) + 1 /\ Cardinality(pool') \in Nat
        /\ pool' \in SUBSET Job
    BY <1>3, <2>1, <2>3, PoolCount
  <2>5. TypeOK'
    BY <1>1, <2>1, <2>2, <2>4 DEF TypeOK
  <2>6. WithinCap'
    BY <1>1, <1>3, <2>1, <2>4 DEF WithinCap, inflight
  <2> QED
    BY <1>2, <2>1, <2>2, <2>5, <2>6 DEF ParkedHasWake
<1>b. CASE FlushInline
  <2>1. /\ pc' = "fcb" /\ park # <<>> /\ park' = Tail(park) /\ last' = Head(park).id
        /\ pool' = pool
    BY <1>b DEF FlushInline
  <2>2. NamesAhead' /\ ParkInOrder' /\ park' \in Seq(Parked) /\ Len(park') <= ParkMax
        /\ last' \in 0..MaxJob
    BY <1>1, <2>1, HeadLeaves
  <2>3. TypeOK'
    BY <1>1, <2>1, <2>2 DEF TypeOK
  <2> QED
    BY <1>1, <1>2, <2>1, <2>2, <2>3 DEF ParkedHasWake, WithinCap, inflight
<1>c. CASE InlineReturns
  BY <1>1, <1>2, <1>c
     DEF InlineReturns, TypeOK, WithinCap, NamesAhead, ParkInOrder, ParkedHasWake, inflight
<1>d. CASE FlushEnds
  <2>1. /\ pc' = "idle" /\ park' = park /\ pool' = pool /\ last' = last
        /\ park = <<>> \/ ~(inflight < Cap)
    BY <1>d DEF FlushEnds, HasRoom
  <2>2. inflight' = inflight /\ inflight \in Nat
    BY <1>1, <1>3, <2>1 DEF inflight
  <2>3. ParkedHasWake'
    BY <1>3, <2>1, <2>2 DEF ParkedHasWake, WithinCap
  <2>4. TypeOK' /\ WithinCap' /\ NamesAhead' /\ ParkInOrder'
    BY <1>1, <2>1, <2>2 DEF TypeOK, WithinCap, NamesAhead, ParkInOrder
  <2> QED
    BY <1>2, <2>3, <2>4
<1> QED
  BY <1>a, <1>b, <1>c, <1>d

\* A freed reactor holds nothing.
LEMMA FreeKeeps ==
    ASSUME ParkInv, dyn_aio_free
    PROVE  ParkInv'
<1> USE DEF ParkInv
<1>1. /\ pc' = "freed" /\ park' = <<>> /\ pool' = {} /\ cdone' = <<>> /\ wake' = FALSE
      /\ budget' = budget /\ next' = next /\ last' = last
  BY DEF dyn_aio_free
<1>2. inflight' = 0
  BY <1>1, FS_EmptySet DEF inflight
<1>3. TypeOK'
  <2>1. park' \in Seq(Parked) /\ cdone' \in Seq(Job) /\ Len(park') = 0
    BY <1>1
  <2>2. pool' \in SUBSET Job /\ wake' \in BOOLEAN
    BY <1>1
  <2>3. Len(park') <= ParkMax
    BY <2>1, ParkAssumption
  <2> QED
    BY <1>1, <2>1, <2>2, <2>3 DEF TypeOK
<1> QED
  BY <1>1, <1>2, <1>3, ParkAssumption
     DEF WithinCap, BudgetCovered, LeftoverHasWake, NamesAhead, ParkInOrder, ParkedHasWake

\* ParkInv is inductive.
LEMMA ParkInvInductive == ParkInv /\ [Next]_vars => ParkInv'
<1> SUFFICES ASSUME ParkInv, [Next]_vars PROVE ParkInv'
  OBVIOUS
<1>1. CASE UNCHANGED vars
  BY <1>1 DEF vars, ParkInv, TypeOK, WithinCap, BudgetCovered, LeftoverHasWake, NamesAhead,
              ParkInOrder, ParkedHasWake, inflight
<1>2. CASE Next
  BY <1>2, SubmitKeeps, CompleteKeeps, DrainKeeps, FlushKeeps, FreeKeeps DEF Next, Loop
<1> QED
  BY <1>1, <1>2

\* ParkInv holds in every reachable state.
LEMMA ParkInvHolds == Spec => []ParkInv
  BY InitParkInv, ParkInvInductive, PTL DEF Spec

-----------------------------------------------------------------------------
\* When aio_disk_wake has returned and jobs are still parked, the channel is
\* full, so that a completion will wake the reactor and flush them.
THEOREM ParkedJobsAreWoken == Spec => []ParkedHasWake
<1>1. ParkInv => ParkedHasWake
  BY DEF ParkInv
<1> QED
  BY <1>1, ParkInvHolds, PTL

\* aio_pool_submit_class and aio_park_flush hand jobs over in the order in
\* which the reactor accepted them.
THEOREM ParkKeepsOrder == Spec => []ParkInOrder
<1>1. ParkInv => ParkInOrder
  BY DEF ParkInv
<1> QED
  BY <1>1, ParkInvHolds, PTL

\* A drain cut short by its time slice leaves the wake descriptor raised.
THEOREM CompletionsAreWoken == Spec => []CompletionHasWake
<1>1. ParkInv => CompletionHasWake
  BY DEF ParkInv, LeftoverHasWake, CompletionHasWake
<1> QED
  BY <1>1, ParkInvHolds, PTL

=============================================================================
