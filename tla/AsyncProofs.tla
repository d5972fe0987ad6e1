---------------------------- MODULE AsyncProofs -----------------------------
(***************************************************************************)
(* Proofs about Async: a Semaphore hands its permits over in order, and a  *)
(* Channel delivers in order, for any number of tasks, permits, values and *)
(* places, beside whatever else shares the queue of promise jobs; and what *)
(* is handed to Pool, pmap, retry, debounce and throttle is called as      *)
(* often as promised.                                                      *)
(***************************************************************************)
EXTENDS Async, FiniteSetTheorems, TLAPS

-----------------------------------------------------------------------------
(* The inductive invariant of the Semaphore *)

TaskState == {"idle", "waiting", "gone", "granted", "holding", "released", "leaked"}

SemTyped ==
    sem \in [n : Nat, waiters : Seq(Task), st : [Task -> TaskState],
             asked : Seq(Task), given : Seq(Task)]

\* The other users of the job queue, as far as their reactions depend on it.
QueueTyped ==
    /\ \E S : micro \in Seq(S)
    /\ pool.active \in Int /\ \E S : pool.q \in Seq(S)
    /\ {"active", "q"} \subseteq DOMAIN pool
    /\ pm.inFlight \in Int /\ pm.next \in Int
    /\ {"inFlight", "next"} \subseteq DOMAIN pm

\* Who is in the line waits, and stands there once.
WaitersWait ==
    /\ \A i \in DOMAIN sem.waiters : sem.st[sem.waiters[i]] \in {"waiting", "gone"}
    /\ \A i, k \in DOMAIN sem.waiters : sem.waiters[i] = sem.waiters[k] => i = k

\* A permit on its way is for somebody who has not got it yet, once.
GrantsDue ==
    \A i \in DOMAIN micro : micro[i].op = "grant" =>
        /\ micro[i].x \in Task /\ sem.st[micro[i].x] = "granted"
        /\ \A k \in DOMAIN micro : micro[k].op = "grant" /\ micro[k].x = micro[i].x => k = i

SemInv == SemTyped /\ QueueTyped /\ WaitersWait /\ GrantsDue /\ NoQueueJumping

-----------------------------------------------------------------------------
(* Sequences and sets *)

\* What Append does, index by index.
LEMMA AppendFacts ==
    ASSUME NEW S, NEW s \in Seq(S), NEW e \in S
    PROVE  /\ Append(s, e) \in Seq(S) /\ Len(Append(s, e)) = Len(s) + 1
           /\ \A i \in 1..Len(s) : Append(s, e)[i] = s[i]
           /\ Append(s, e)[Len(s) + 1] = e
  OBVIOUS

\* What Tail does, index by index.
LEMMA TailFacts ==
    ASSUME NEW S, NEW s \in Seq(S), s # <<>>
    PROVE  /\ Head(s) \in S /\ Head(s) = s[1]
           /\ Tail(s) \in Seq(S) /\ Len(Tail(s)) = Len(s) - 1 /\ Len(s) \in Nat \ {0}
           /\ \A i \in 1..Len(Tail(s)) : Tail(s)[i] = s[i + 1]
  OBVIOUS

\* What concatenation does, index by index.
LEMMA ConcatFacts ==
    ASSUME NEW S, NEW s \in Seq(S), NEW t \in Seq(S)
    PROVE  /\ s \o t \in Seq(S) /\ Len(s \o t) = Len(s) + Len(t)
           /\ \A i \in 1..Len(s) : (s \o t)[i] = s[i]
           /\ \A i \in 1..Len(t) : (s \o t)[Len(s) + i] = t[i]
  OBVIOUS

\* Two sequences of one length with the same elements are the same.
LEMMA SeqEqual ==
    ASSUME NEW S, NEW s \in Seq(S), NEW t \in Seq(S), Len(s) = Len(t),
           \A i \in 1..Len(s) : s[i] = t[i]
    PROVE  s = t
  OBVIOUS

\* A sequence over a set is one over a larger set.
LEMMA SeqWider ==
    ASSUME NEW S, NEW T
    PROVE  (\A s \in Seq(S) : s \in Seq(S \cup T)) /\ (\A s \in Seq(T) : s \in Seq(S \cup T))
  OBVIOUS

\* Appending to the second of two is appending to the whole.
LEMMA AppendInside ==
    ASSUME NEW S, NEW s \in Seq(S), NEW t \in Seq(S), NEW e \in S
    PROVE  s \o Append(t, e) = Append(s \o t, e)
  <1>1. s \o Append(t, e) \in Seq(S) /\ Append(s \o t, e) \in Seq(S)
    OBVIOUS
  <1>2. Len(s \o Append(t, e)) = Len(Append(s \o t, e))
    OBVIOUS
  <1>3. \A i \in 1..Len(s \o Append(t, e)) : (s \o Append(t, e))[i] = Append(s \o t, e)[i]
    OBVIOUS
  <1> QED BY <1>1, <1>2, <1>3, SeqEqual

\* Moving the head of the second of two to the end of the first changes nothing.
LEMMA HeadOver ==
    ASSUME NEW S, NEW s \in Seq(S), NEW t \in Seq(S), t # <<>>
    PROVE  Append(s, Head(t)) \o Tail(t) = s \o t
  <1>1. Append(s, Head(t)) \o Tail(t) \in Seq(S) /\ s \o t \in Seq(S)
    OBVIOUS
  <1>2. Len(Append(s, Head(t)) \o Tail(t)) = Len(s \o t)
    OBVIOUS
  <1>3. \A i \in 1..Len(s \o t) : (Append(s, Head(t)) \o Tail(t))[i] = (s \o t)[i]
    OBVIOUS
  <1> QED BY <1>1, <1>2, <1>3, SeqEqual

\* Permits on their way stay due when other reactions come and one that was
\* served goes.
LEMMA GrantsCarried ==
    ASSUME SemInv, sem' = sem, NEW a, NEW T, NEW jobs \in Seq(T),
           a = micro \/ (micro # <<>> /\ a = Tail(micro)),
           \A i \in 1..Len(jobs) : jobs[i].op # "grant",
           micro' = a \o jobs
    PROVE  GrantsDue' /\ \E S : micro' \in Seq(S)
  <1>1. PICK S : micro \in Seq(S)
    BY DEF SemInv, QueueTyped
  <1>2. a \in Seq(S \cup T) /\ jobs \in Seq(S \cup T)
    <2>1. a \in Seq(S)
      <3>1. CASE a = micro
        BY <1>1, <3>1
      <3>2. CASE micro # <<>> /\ a = Tail(micro)
        BY <1>1, <3>2, TailFacts
      <3> QED BY <3>1, <3>2
    <2> QED BY <2>1, SeqWider
  <1>3. micro' \in Seq(S \cup T)
    BY <1>2
  <1>4. PICK d \in {0, 1} : /\ \A i \in 1..Len(a) : i + d \in DOMAIN micro /\ a[i] = micro[i + d]
                            /\ Len(a) \in Nat
    <2>1. CASE a = micro
      <3>1. \A i \in 1..Len(a) : i + 0 \in DOMAIN micro /\ a[i] = micro[i + 0]
        BY <1>1, <2>1
      <3> QED BY <1>1, <2>1, <3>1
    <2>2. CASE micro # <<>> /\ a = Tail(micro)
      <3>1. \A i \in 1..Len(a) : i + 1 \in DOMAIN micro /\ a[i] = micro[i + 1]
        BY <1>1, <2>2, TailFacts
      <3> QED BY <1>1, <2>2, <3>1, TailFacts
    <2> QED BY <2>1, <2>2
  <1>5. ASSUME NEW i \in DOMAIN micro', micro'[i].op = "grant"
        PROVE  i \in 1..Len(a) /\ micro'[i] = a[i]
    <2>1. i \in 1..(Len(a) + Len(jobs)) /\ Len(a) \in Nat /\ Len(jobs) \in Nat
      BY <1>2, <1>5
    <2>2. CASE i > Len(a)
      <3>1. i - Len(a) \in 1..Len(jobs) /\ i = Len(a) + (i - Len(a))
        BY <2>1, <2>2
      <3>2. micro'[i] = jobs[i - Len(a)]
        BY <1>2, <3>1, ConcatFacts
      <3> QED BY <1>5, <3>1, <3>2
    <2> QED BY <1>2, <2>1, <2>2
  <1>6. GrantsDue'
    <2>1. SUFFICES ASSUME NEW i \in DOMAIN micro', micro'[i].op = "grant"
                   PROVE  /\ micro'[i].x \in Task /\ sem.st[micro'[i].x] = "granted"
                          /\ \A k \in DOMAIN micro' :
                                 micro'[k].op = "grant" /\ micro'[k].x = micro'[i].x => k = i
      BY DEF GrantsDue
    <2>2. \A k \in DOMAIN micro' : micro'[k].op = "grant" =>
              k \in Nat /\ k + d \in DOMAIN micro /\ micro'[k] = micro[k + d]
      <3>1. ASSUME NEW k \in DOMAIN micro', micro'[k].op = "grant"
            PROVE  k \in Nat /\ k + d \in DOMAIN micro /\ micro'[k] = micro[k + d]
        <4>1. k \in 1..Len(a) /\ micro'[k] = a[k]
          BY <1>5, <3>1
        <4> QED BY <1>4, <4>1
      <3> QED BY <3>1
    <2>3. micro[i + d].x \in Task /\ sem.st[micro[i + d].x] = "granted"
      BY <2>1, <2>2 DEF SemInv, GrantsDue
    <2>4. ASSUME NEW k \in DOMAIN micro', micro'[k].op = "grant", micro'[k].x = micro'[i].x
          PROVE  k = i
      <3>1. k + d = i + d
        BY <2>1, <2>2, <2>4 DEF SemInv, GrantsDue
      <3> QED BY <2>1, <2>2, <2>4, <3>1
    <2> QED BY <2>1, <2>2, <2>3, <2>4
  <1> QED BY <1>3, <1>6

\* The same for one reaction that comes.
LEMMA GrantsCarriedOne ==
    ASSUME SemInv, sem' = sem, NEW a, NEW r,
           a = micro \/ (micro # <<>> /\ a = Tail(micro)), r.op # "grant",
           micro' = Append(a, r)
    PROVE  GrantsDue' /\ \E S : micro' \in Seq(S)
  <1>1. PICK S : a \in Seq(S)
    <2>1. PICK S : micro \in Seq(S)
      BY DEF SemInv, QueueTyped
    <2>2. a \in Seq(S)
      BY <2>1, TailFacts
    <2> QED BY <2>2
  <1>2. <<r>> \in Seq({r}) /\ \A i \in 1..Len(<<r>>) : <<r>>[i].op # "grant"
    OBVIOUS
  <1>3. Append(a, r) = a \o <<r>>
    BY <1>1
  <1> QED BY <1>2, <1>3, GrantsCarried

\* The same for none.
LEMMA GrantsCarriedNone ==
    ASSUME SemInv, sem' = sem, micro' = micro \/ (micro # <<>> /\ micro' = Tail(micro))
    PROVE  GrantsDue' /\ \E S : micro' \in Seq(S)
  <1>1. PICK S : micro' \in Seq(S)
    BY DEF SemInv, QueueTyped
  <1>2. <<>> \in Seq({})
    OBVIOUS
  <1>3. micro' = micro' \o <<>>
    BY <1>1
  <1>4. \A i \in 1..Len(<<>>) : <<>>[i].op # "grant"
    OBVIOUS
  <1> QED BY <1>2, <1>3, <1>4, GrantsCarried

\* A step that leaves the Semaphore alone keeps its invariant when the queue
\* keeps what it must.
LEMMA SemFrame ==
    ASSUME SemInv, sem' = sem, QueueTyped', GrantsDue'
    PROVE  SemInv'
  BY DEF SemInv, SemTyped, WaitersWait, NoQueueJumping, Holders

\* A new permit on its way to t, who has none.
LEMMA GrantAdded ==
    ASSUME SemInv, NEW t \in Task, sem.st[t] # "granted", sem'.st[t] = "granted",
           \A u \in Task : sem.st[u] = "granted" => sem'.st[u] = "granted",
           micro' = Append(micro, Reaction("grant", t, TRUE))
    PROVE  GrantsDue' /\ \E S : micro' \in Seq(S)
  <1> DEFINE r == Reaction("grant", t, TRUE)
  <1>0. micro' = Append(micro, r)
    OBVIOUS
  <1>1. PICK S : micro \in Seq(S)
    BY DEF SemInv, QueueTyped
  <1>2. micro \in Seq(S \cup {r}) /\ r \in S \cup {r}
    BY <1>1, SeqWider
  <1>3. r.op = "grant" /\ r.x = t
    BY DEF Reaction
  <1> HIDE DEF r
  <1>4. /\ micro' \in Seq(S \cup {r}) /\ Len(micro') = Len(micro) + 1 /\ Len(micro) \in Nat
        /\ \A i \in 1..Len(micro) : micro'[i] = micro[i]
        /\ micro'[Len(micro) + 1] = r
    <2>1. /\ Append(micro, r) \in Seq(S \cup {r}) /\ Len(Append(micro, r)) = Len(micro) + 1
          /\ \A i \in 1..Len(micro) : Append(micro, r)[i] = micro[i]
          /\ Append(micro, r)[Len(micro) + 1] = r
      BY <1>2, AppendFacts
    <2>2. Len(micro) \in Nat
      BY <1>2
    <2> QED BY <1>0, <2>1, <2>2
  <1>5. \A i \in 1..Len(micro) : micro[i].op = "grant" =>
            micro[i].x \in Task /\ sem'.st[micro[i].x] = "granted" /\ micro[i].x # t
    BY <1>1 DEF SemInv, GrantsDue
  <1>6. ASSUME NEW i \in DOMAIN micro', micro'[i].op = "grant"
        PROVE  /\ micro'[i].x \in Task /\ sem'.st[micro'[i].x] = "granted"
               /\ \A k \in DOMAIN micro' :
                      micro'[k].op = "grant" /\ micro'[k].x = micro'[i].x => k = i
    <2>1. DOMAIN micro' = 1..(Len(micro) + 1)
      BY <1>4
    <2>2. CASE i = Len(micro) + 1
      <3>1. micro'[i] = r
        BY <1>4, <2>2
      <3>2. ASSUME NEW k \in DOMAIN micro', micro'[k].op = "grant", micro'[k].x = micro'[i].x
            PROVE  k = i
        <4>1. CASE k \in 1..Len(micro)
          BY <1>4, <1>3, <1>5, <3>1, <3>2, <4>1
        <4> QED BY <1>4, <2>1, <2>2, <4>1
      <3> QED BY <1>3, <3>1, <3>2
    <2>3. CASE i \in 1..Len(micro)
      <3>1. micro'[i] = micro[i] /\ micro[i].op = "grant" /\ i \in DOMAIN micro
        BY <1>1, <1>4, <1>6, <2>3
      <3>2. \A k \in 1..Len(micro) : micro[k].op = "grant" /\ micro[k].x = micro[i].x => k = i
        BY <1>1, <3>1 DEF SemInv, GrantsDue
      <3>3. ASSUME NEW k \in DOMAIN micro', micro'[k].op = "grant", micro'[k].x = micro'[i].x
            PROVE  k = i
        <4>1. k # Len(micro) + 1
          BY <1>4, <1>3, <1>5, <2>3, <3>1, <3>3
        <4>2. k \in 1..Len(micro)
          BY <1>4, <2>1, <4>1
        <4> QED BY <1>4, <3>1, <3>2, <3>3, <4>2
      <3> QED BY <1>5, <2>3, <3>1, <3>3
    <2>4. i = Len(micro) + 1 \/ i \in 1..Len(micro)
      BY <1>4, <2>1
    <2> QED BY <2>2, <2>3, <2>4
  <1> QED BY <1>4, <1>6 DEF GrantsDue

\* Holders are finitely many.
LEMMA HoldersFinite == IsFiniteSet(Holders) /\ Cardinality(Holders) \in Nat
  <1>1. Holders \subseteq Task
    BY DEF Holders
  <1> QED BY <1>1, AsyncAssumption, FS_Subset, FS_CardinalityType DEF AsyncAssumption

-----------------------------------------------------------------------------
(* The Semaphore's own steps *)

\* acquire: a free permit is taken only when nobody waits, else the caller
\* joins the end of the line.
LEMMA AcquireKeeps ==
    ASSUME SemInv, NEW t \in Task, acquire(t)
    PROVE  SemInv'
  <1>0. /\ sem.st[t] = "idle" /\ SemTyped /\ QueueTyped /\ WaitersWait /\ GrantsDue
        /\ NoQueueJumping
    BY DEF acquire, SemInv
  <1>1. t \notin Holders
    BY <1>0 DEF Holders
  <1>2. CASE sem.n > 0
    <2>0. /\ sem' = Given([[sem EXCEPT !.asked = Append(@, t)] EXCEPT !.n = @ - 1], t)
          /\ Resolves(t)
      <3>1. ~(sem.n <= 0)
        BY <1>0, <1>2 DEF SemTyped
      <3> QED BY <3>1 DEF acquire
    <2>1. /\ sem'.n = sem.n - 1 /\ sem'.waiters = sem.waiters
          /\ sem'.st = [sem.st EXCEPT ![t] = "granted"]
          /\ sem'.asked = Append(sem.asked, t) /\ sem'.given = Append(sem.given, t)
          /\ sem' = [n |-> sem'.n, waiters |-> sem'.waiters, st |-> sem'.st,
                     asked |-> sem'.asked, given |-> sem'.given]
      BY <1>0, <2>0 DEF Given, SemTyped
    <2>2. micro' = Append(micro, Reaction("grant", t, TRUE))
      BY <1>0, <2>0 DEF Resolves
    <2>3. SemTyped'
      <3>1. /\ sem'.n \in Nat /\ sem'.waiters \in Seq(Task) /\ sem'.asked \in Seq(Task)
            /\ sem'.given \in Seq(Task)
        BY <1>0, <1>2, <2>1 DEF SemTyped
      <3>2. sem'.st \in [Task -> TaskState]
        BY <1>0, <2>1 DEF SemTyped, TaskState
      <3> QED BY <2>1, <3>1, <3>2 DEF SemTyped
    <2>4. GrantsDue' /\ \E S : micro' \in Seq(S)
      BY <1>0, <2>1, <2>2, GrantAdded DEF SemTyped
    <2>5. QueueTyped'
      BY <1>0, <2>4 DEF acquire, QueueTyped
    <2>6. sem.waiters = <<>>
      BY <1>0, <1>2 DEF NoQueueJumping
    <2>7. WaitersWait'
      BY <2>1, <2>6 DEF WaitersWait
    <2>8. Holders' = Holders \cup {t}
      BY <1>0, <2>1 DEF Holders, SemTyped
    <2>9. Cardinality(Holders') = Cardinality(Holders) + 1
      BY <1>1, <2>8, HoldersFinite, FS_AddElement
    <2>10. sem'.asked = sem'.given \o sem'.waiters
      <3>1. sem.asked = sem.given
        BY <1>0, <2>6 DEF NoQueueJumping, SemTyped
      <3> QED BY <1>0, <2>1, <2>6, <3>1 DEF SemTyped
    <2>11. sem'.n + Cardinality(Holders') = Permits
      BY <1>0, <2>1, <2>9, HoldersFinite DEF NoQueueJumping, SemTyped
    <2>12. NoQueueJumping'
      BY <2>1, <2>6, <2>10, <2>11 DEF NoQueueJumping
    <2> QED BY <2>3, <2>4, <2>5, <2>7, <2>12 DEF SemInv
  <1>3. CASE sem.n <= 0
    <2>0. /\ sem' = [[sem EXCEPT !.asked = Append(@, t)] EXCEPT !.waiters = Append(@, t),
                                                                !.st[t] = "waiting"]
          /\ UNCHANGED <<micro, pool, pm>>
      <3>1. ~(sem.n > 0)
        BY <1>0, <1>3 DEF SemTyped
      <3> QED BY <3>1 DEF acquire
    <2>1. /\ sem'.n = sem.n /\ sem'.waiters = Append(sem.waiters, t)
          /\ sem'.st = [sem.st EXCEPT ![t] = "waiting"]
          /\ sem'.asked = Append(sem.asked, t) /\ sem'.given = sem.given
          /\ sem' = [n |-> sem'.n, waiters |-> sem'.waiters, st |-> sem'.st,
                     asked |-> sem'.asked, given |-> sem'.given]
          /\ UNCHANGED <<micro, pool, pm>>
      BY <1>0, <2>0 DEF SemTyped
    <2>3. SemTyped'
      <3>1. /\ sem'.n \in Nat /\ sem'.waiters \in Seq(Task) /\ sem'.asked \in Seq(Task)
            /\ sem'.given \in Seq(Task)
        BY <1>0, <2>1 DEF SemTyped
      <3>2. sem'.st \in [Task -> TaskState]
        BY <1>0, <2>1 DEF SemTyped, TaskState
      <3> QED BY <2>1, <3>1, <3>2 DEF SemTyped
    <2>4. GrantsDue'
      BY <1>0, <2>1 DEF GrantsDue, SemTyped
    <2>5. QueueTyped'
      BY <1>0, <2>1 DEF QueueTyped
    <2>6. sem.n = 0
      BY <1>0, <1>3 DEF SemTyped
    <2>7. WaitersWait'
      <3>1. /\ sem.waiters \in Seq(Task) /\ Len(sem.waiters) \in Nat
            /\ \A i \in 1..Len(sem.waiters) : sem'.waiters[i] = sem.waiters[i] /\ sem.waiters[i] \in Task
            /\ sem'.waiters[Len(sem.waiters) + 1] = t
            /\ DOMAIN sem'.waiters = 1..(Len(sem.waiters) + 1)
        BY <1>0, <2>1, AppendFacts DEF SemTyped
      <3>2. \A i \in 1..Len(sem.waiters) :
                sem.st[sem.waiters[i]] \in {"waiting", "gone"} /\ sem.waiters[i] # t
        BY <1>0, <3>1 DEF WaitersWait
      <3>3. \A i, k \in 1..Len(sem.waiters) : sem.waiters[i] = sem.waiters[k] => i = k
        BY <1>0, <3>1 DEF WaitersWait
      <3>4. \A i \in DOMAIN sem'.waiters : i \in 1..Len(sem.waiters) \/ i = Len(sem.waiters) + 1
        BY <3>1
      <3>5. \A u \in Task : sem'.st[u] = IF u = t THEN "waiting" ELSE sem.st[u]
        BY <1>0, <2>1 DEF SemTyped
      <3>6. \A i \in DOMAIN sem'.waiters : sem'.st[sem'.waiters[i]] \in {"waiting", "gone"}
        BY <3>1, <3>2, <3>4, <3>5
      <3>7. \A i, k \in DOMAIN sem'.waiters : sem'.waiters[i] = sem'.waiters[k] => i = k
        BY <3>1, <3>2, <3>3, <3>4
      <3> QED BY <3>6, <3>7 DEF WaitersWait
    <2>8. Holders' = Holders
      BY <1>0, <2>1 DEF Holders, SemTyped
    <2>9. sem'.asked = sem'.given \o sem'.waiters
      <3>1. /\ sem.given \in Seq(Task) /\ sem.waiters \in Seq(Task)
            /\ sem.asked = sem.given \o sem.waiters
        BY <1>0 DEF NoQueueJumping, SemTyped
      <3>2. \A g, w \in Seq(Task) : g \o Append(w, t) = Append(g \o w, t)
        BY AppendInside
      <3> QED BY <2>1, <3>1, <3>2
    <2>10. NoQueueJumping'
      BY <1>0, <2>1, <2>6, <2>8, <2>9 DEF NoQueueJumping
    <2> QED BY <2>3, <2>4, <2>5, <2>7, <2>10 DEF SemInv
  <1> QED BY <1>0, <1>2, <1>3 DEF SemTyped

\* The reaction of acquire's promise: the permit on its way has come.
LEMMA GrantedKeeps ==
    ASSUME SemInv, Granted
    PROVE  SemInv'
  <1> DEFINE t == Head(micro).x
  <1>0. /\ SemTyped /\ QueueTyped /\ WaitersWait /\ GrantsDue /\ NoQueueJumping
        /\ micro # <<>> /\ Head(micro).op = "grant" /\ micro' = Tail(micro)
        /\ sem' = [sem EXCEPT !.st[t] = "holding"] /\ UNCHANGED <<pool, pm>>
    BY DEF Granted, SemInv, Next_, Subject
  <1>1. PICK S : micro \in Seq(S)
    BY <1>0 DEF QueueTyped
  <1>2. /\ Head(micro) = micro[1] /\ 1 \in DOMAIN micro /\ micro' \in Seq(S)
        /\ \A i \in DOMAIN micro' : i \in Nat \ {0} /\ i + 1 \in DOMAIN micro /\ micro'[i] = micro[i + 1]
    BY <1>0, <1>1, TailFacts
  <1>3. /\ t \in Task /\ sem.st[t] = "granted"
        /\ \A k \in DOMAIN micro : micro[k].op = "grant" /\ micro[k].x = t => k = 1
    BY <1>0, <1>2 DEF GrantsDue
  <1> HIDE DEF t
  <1>4. /\ sem'.n = sem.n /\ sem'.waiters = sem.waiters /\ sem'.asked = sem.asked
        /\ sem'.given = sem.given /\ sem'.st = [sem.st EXCEPT ![t] = "holding"]
    BY <1>0 DEF SemTyped
  <1>5. SemTyped'
    BY <1>0, <1>3 DEF SemTyped, TaskState
  <1>6. QueueTyped'
    BY <1>0, <1>2 DEF QueueTyped
  <1>7. WaitersWait'
    BY <1>0, <1>3, <1>4 DEF WaitersWait, SemTyped
  <1>8. Holders' = Holders
    BY <1>0, <1>3, <1>4 DEF Holders, SemTyped
  <1>9. NoQueueJumping'
    BY <1>0, <1>4, <1>8 DEF NoQueueJumping
  <1>10. GrantsDue'
    <2>1. ASSUME NEW i \in DOMAIN micro', micro'[i].op = "grant"
          PROVE  /\ micro'[i].x \in Task /\ sem'.st[micro'[i].x] = "granted"
                 /\ \A k \in DOMAIN micro' :
                        micro'[k].op = "grant" /\ micro'[k].x = micro'[i].x => k = i
      <3>1. /\ i \in Nat \ {0} /\ i + 1 \in DOMAIN micro /\ micro[i + 1].op = "grant"
            /\ micro'[i] = micro[i + 1]
        BY <1>2, <2>1
      <3>2. /\ micro[i + 1].x \in Task /\ sem.st[micro[i + 1].x] = "granted"
            /\ \A k \in DOMAIN micro : micro[k].op = "grant" /\ micro[k].x = micro[i + 1].x => k = i + 1
        BY <1>0, <3>1 DEF GrantsDue
      <3>3. micro[i + 1].x # t
        BY <1>3, <3>1
      <3>4. \A k \in DOMAIN micro' :
                micro'[k].op = "grant" /\ micro'[k].x = micro'[i].x => k = i
        BY <1>2, <3>1, <3>2
      <3> QED BY <1>0, <1>4, <3>1, <3>2, <3>3, <3>4 DEF SemTyped
    <2> QED BY <2>1 DEF GrantsDue
  <1> QED BY <1>5, <1>6, <1>7, <1>9, <1>10 DEF SemInv

\* A waiter that gives up keeps its place.
LEMMA TimesOutKeeps ==
    ASSUME SemInv, NEW t \in Task, AcquireTimesOut(t)
    PROVE  SemInv'
  <1>0. /\ SemTyped /\ QueueTyped /\ WaitersWait /\ GrantsDue /\ NoQueueJumping
        /\ sem.st[t] = "waiting" /\ sem' = [sem EXCEPT !.st[t] = "gone"]
        /\ UNCHANGED <<micro, pool, pm>>
    BY DEF AcquireTimesOut, SemInv
  <1>1. /\ sem'.n = sem.n /\ sem'.waiters = sem.waiters /\ sem'.asked = sem.asked
        /\ sem'.given = sem.given /\ sem'.st = [sem.st EXCEPT ![t] = "gone"]
    BY <1>0 DEF SemTyped
  <1>2. SemTyped'
    BY <1>0 DEF SemTyped, TaskState
  <1>3. QueueTyped' /\ GrantsDue'
    BY <1>0, <1>1 DEF QueueTyped, GrantsDue, SemTyped
  <1>4. WaitersWait'
    BY <1>0, <1>1 DEF WaitersWait, SemTyped
  <1>5. Holders' = Holders
    BY <1>0, <1>1 DEF Holders, SemTyped
  <1>6. NoQueueJumping'
    BY <1>0, <1>1, <1>5 DEF NoQueueJumping
  <1> QED BY <1>2, <1>3, <1>4, <1>6 DEF SemInv

\* A release hands the permit to the first in the line, or puts it back.
LEMMA ReleaseKeeps ==
    ASSUME SemInv, NEW t \in Task, Release(t)
    PROVE  SemInv'
  <1>0. /\ SemTyped /\ QueueTyped /\ WaitersWait /\ GrantsDue /\ NoQueueJumping
        /\ sem.st[t] = "holding" /\ UNCHANGED <<pool, pm>>
    BY DEF Release, Once, SemInv
  <1>1. t \in Holders
    BY <1>0 DEF Holders
  <1>2. /\ IsFiniteSet(Holders \ {t}) /\ Cardinality(Holders \ {t}) = Cardinality(Holders) - 1
        /\ Cardinality(Holders) \in Nat
    BY <1>1, HoldersFinite, FS_RemoveElement
  <1>3. CASE sem.waiters = <<>>
    <2>1. /\ sem' = [[sem EXCEPT !.st[t] = "released"] EXCEPT !.n = @ + 1]
          /\ micro' = micro
      BY <1>3 DEF Release
    <2>2. /\ sem'.n = sem.n + 1 /\ sem'.waiters = sem.waiters
          /\ sem'.st = [sem.st EXCEPT ![t] = "released"]
          /\ sem'.asked = sem.asked /\ sem'.given = sem.given
          /\ sem' = [n |-> sem'.n, waiters |-> sem'.waiters, st |-> sem'.st,
                     asked |-> sem'.asked, given |-> sem'.given]
      BY <1>0, <2>1 DEF SemTyped
    <2>3. SemTyped'
      <3>1. sem'.n \in Nat
        BY <1>0, <2>2 DEF SemTyped
      <3>2. sem'.st \in [Task -> TaskState]
        BY <1>0, <2>2 DEF SemTyped, TaskState
      <3> QED BY <1>0, <2>2, <3>1, <3>2 DEF SemTyped
    <2>4. QueueTyped' /\ GrantsDue'
      BY <1>0, <2>1, <2>2 DEF QueueTyped, GrantsDue, SemTyped
    <2>5. WaitersWait'
      BY <1>3, <2>2 DEF WaitersWait
    <2>6. Holders' = Holders \ {t}
      BY <1>0, <2>2 DEF Holders, SemTyped
    <2>7. sem'.n + Cardinality(Holders') = Permits
      BY <1>0, <1>2, <2>2, <2>6 DEF NoQueueJumping, SemTyped
    <2>8. NoQueueJumping'
      BY <1>0, <1>3, <2>2, <2>7 DEF NoQueueJumping
    <2> QED BY <2>3, <2>4, <2>5, <2>8 DEF SemInv
  <1>4. CASE sem.waiters # <<>>
    <2> DEFINE h == Head(sem.waiters)
    <2>0. /\ sem' = Given([[sem EXCEPT !.st[t] = "released"] EXCEPT !.waiters = Tail(@)], h)
          /\ Resolves(h)
      BY <1>4 DEF Release
    <2>1. /\ h \in Task /\ h = sem.waiters[1] /\ 1 \in DOMAIN sem.waiters
          /\ sem.waiters \in Seq(Task) /\ Tail(sem.waiters) \in Seq(Task)
          /\ \A i \in DOMAIN Tail(sem.waiters) :
                 i \in Nat \ {0} /\ i + 1 \in DOMAIN sem.waiters /\ Tail(sem.waiters)[i] = sem.waiters[i + 1]
      <3>1. sem.waiters \in Seq(Task)
        BY <1>0 DEF SemTyped
      <3> QED BY <1>4, <3>1, TailFacts
    <2>2. sem.st[h] \in {"waiting", "gone"} /\ h # t /\ h \notin Holders
      BY <1>0, <2>1 DEF WaitersWait, Holders
    <2> DEFINE now == IF sem.st[h] = "gone" THEN "leaked" ELSE "granted"
    <2>3. /\ sem'.n = sem.n /\ sem'.waiters = Tail(sem.waiters)
          /\ sem'.st = [[sem.st EXCEPT ![t] = "released"] EXCEPT ![h] = now]
          /\ sem'.asked = sem.asked /\ sem'.given = Append(sem.given, h)
          /\ sem' = [n |-> sem'.n, waiters |-> sem'.waiters, st |-> sem'.st,
                     asked |-> sem'.asked, given |-> sem'.given]
      BY <1>0, <2>0, <2>1, <2>2 DEF Given, SemTyped
    <2>4. micro' = IF sem.st[h] = "gone" THEN micro
                   ELSE Append(micro, Reaction("grant", h, TRUE))
      BY <2>0 DEF Resolves
    <2> HIDE DEF h
    <2>5. \A u \in Task : sem'.st[u] = IF u = h THEN now ELSE IF u = t THEN "released" ELSE sem.st[u]
      BY <1>0, <2>1, <2>3 DEF SemTyped
    <2>6. SemTyped'
      <3>1. sem'.given \in Seq(Task)
        BY <1>0, <2>1, <2>3 DEF SemTyped
      <3>2. sem'.st \in [Task -> TaskState]
        BY <1>0, <2>1, <2>3 DEF SemTyped, TaskState
      <3> QED BY <1>0, <2>1, <2>3, <3>1, <3>2 DEF SemTyped
    <2>7. GrantsDue' /\ \E S : micro' \in Seq(S)
      <3>1. CASE sem.st[h] = "gone"
        <4>1. \A u \in Task : sem.st[u] = "granted" => sem'.st[u] = "granted"
          BY <1>0, <2>2, <2>5
        <4> QED BY <1>0, <2>4, <3>1, <4>1 DEF GrantsDue, QueueTyped
      <3>2. CASE sem.st[h] # "gone"
        <4>1. \A u \in Task : sem.st[u] = "granted" => sem'.st[u] = "granted"
          BY <1>0, <2>2, <2>5
        <4>2. sem'.st[h] = "granted" /\ sem.st[h] # "granted"
          BY <2>1, <2>2, <2>5, <3>2
        <4> QED BY <2>1, <2>4, <3>2, <4>1, <4>2, GrantAdded
      <3> QED BY <3>1, <3>2
    <2>8. QueueTyped'
      BY <1>0, <2>7 DEF QueueTyped
    <2>9. WaitersWait'
      <3>1. \A i \in DOMAIN sem'.waiters :
                /\ i \in Nat \ {0} /\ i + 1 \in DOMAIN sem.waiters
                /\ sem'.waiters[i] = sem.waiters[i + 1]
        BY <2>1, <2>3
      <3>2. \A i \in DOMAIN sem.waiters :
                sem.waiters[i] \in Task /\ sem.st[sem.waiters[i]] \in {"waiting", "gone"}
        BY <1>0, <2>1 DEF WaitersWait
      <3>3. \A i \in DOMAIN sem'.waiters : sem'.waiters[i] # h
        BY <1>0, <2>1, <3>1 DEF WaitersWait
      <3>4. \A i \in DOMAIN sem'.waiters : sem'.st[sem'.waiters[i]] \in {"waiting", "gone"}
        BY <1>0, <2>5, <3>1, <3>2, <3>3
      <3>5. \A i, k \in DOMAIN sem'.waiters : sem'.waiters[i] = sem'.waiters[k] => i = k
        BY <1>0, <3>1 DEF WaitersWait
      <3> QED BY <3>4, <3>5 DEF WaitersWait
    <2>10. Holders' = (Holders \ {t}) \cup {h}
      BY <2>1, <2>2, <2>5 DEF Holders
    <2>11. Cardinality(Holders') = Cardinality(Holders)
      <3>1. h \notin Holders \ {t}
        BY <2>2
      <3>2. Cardinality((Holders \ {t}) \cup {h}) = Cardinality(Holders \ {t}) + 1
        BY <1>2, <3>1, FS_AddElement
      <3> QED BY <1>2, <2>10, <3>2
    <2>12. sem'.asked = sem'.given \o sem'.waiters
      <3>1. \A g, w \in Seq(Task) : w # <<>> => Append(g, Head(w)) \o Tail(w) = g \o w
        BY HeadOver
      <3> QED BY <1>0, <1>4, <2>1, <2>3, <3>1 DEF NoQueueJumping, SemTyped, h
    <2>13. sem.n = 0
      BY <1>0, <1>4 DEF NoQueueJumping
    <2>14. NoQueueJumping'
      BY <1>0, <2>3, <2>11, <2>12, <2>13 DEF NoQueueJumping
    <2> QED BY <2>6, <2>7, <2>8, <2>9, <2>14 DEF SemInv
  <1> QED BY <1>3, <1>4

-----------------------------------------------------------------------------
(* The steps of the others *)

\* _pump takes jobs off the queue and adds reactions of its own.
LEMMA PumpFacts ==
    ASSUME NEW p, NEW S, p.active \in Int, p.q \in Seq(S), {"active", "q"} \subseteq DOMAIN p
    PROVE  /\ _pump(p).pool.active \in Int
           /\ _pump(p).pool.q \in Seq(S)
           /\ {"active", "q"} \subseteq DOMAIN _pump(p).pool
           /\ \E T : _pump(p).jobs \in Seq(T)
           /\ \A i \in 1..Len(_pump(p).jobs) : _pump(p).jobs[i].op # "grant"
  <1> DEFINE k == Least(Slots - p.active, Len(p.q))
             r == Reaction("call", Len(p.frames) + 1, TRUE)
             more == [p EXCEPT !.active = @ + k,
                               !.frames = Append(@, p.q[k]),
                               !.running = Append(@, 0),
                               !.q = SubSeq(@, k + 1, Len(@))]
  <1>1. k \in Int /\ Len(p.q) \in Nat /\ k <= Len(p.q)
    BY AsyncAssumption DEF AsyncAssumption, Least
  <1>2. r.op # "grant"
    BY DEF Reaction
  <1>3. _pump(p) = IF k <= 0 THEN [pool |-> p, jobs |-> <<>>]
                   ELSE [pool |-> more, jobs |-> [i \in 1..k |-> r]]
    BY DEF _pump
  <1> HIDE DEF k, r
  <1>4. CASE k <= 0
    <2>1. _pump(p).pool = p /\ _pump(p).jobs = <<>>
      BY <1>3, <1>4
    <2>2. <<>> \in Seq({})
      OBVIOUS
    <2> QED BY <2>1, <2>2
  <1>5. CASE ~(k <= 0)
    <2>1. _pump(p).pool = more /\ _pump(p).jobs = [i \in 1..k |-> r]
      BY <1>3, <1>5
    <2>2. k \in Nat \ {0}
      BY <1>1, <1>5
    <2>3. [i \in 1..k |-> r] \in Seq({r}) /\ Len([i \in 1..k |-> r]) = k
      BY <2>2
    <2>4. /\ more.active = p.active + k /\ more.q = SubSeq(p.q, k + 1, Len(p.q))
          /\ {"active", "q"} \subseteq DOMAIN more
      OBVIOUS
    <2>5. SubSeq(p.q, k + 1, Len(p.q)) \in Seq(S)
      BY <1>1, <2>2
    <2> HIDE DEF more
    <2>6. \A i \in 1..k : [j \in 1..k |-> r][i].op # "grant"
      BY <1>2
    <2>7. more.active \in Int /\ more.q \in Seq(S)
      BY <1>1, <2>4, <2>5
    <2>8. \E T : _pump(p).jobs \in Seq(T)
      BY <2>1, <2>3
    <2>9. \A i \in 1..Len(_pump(p).jobs) : _pump(p).jobs[i].op # "grant"
      BY <2>1, <2>3, <2>6
    <2> QED BY <2>1, <2>4, <2>7, <2>8, <2>9
  <1> QED BY <1>4, <1>5

\* launch counts items and adds reactions of its own.
LEMMA LaunchFacts ==
    ASSUME NEW p, p.inFlight \in Int, p.next \in Int, {"inFlight", "next"} \subseteq DOMAIN p
    PROVE  /\ launch(p).pm.inFlight \in Int /\ launch(p).pm.next \in Int
           /\ {"inFlight", "next"} \subseteq DOMAIN launch(p).pm
           /\ \E T : launch(p).jobs \in Seq(T)
           /\ \A i \in 1..Len(launch(p).jobs) : launch(p).jobs[i].op # "grant"
  <1> DEFINE k == Least(Concurrency - p.inFlight, Items - p.next)
             js == [i \in 1..k |-> Reaction("item", p.next + i, TRUE)]
             more == [p EXCEPT !.next = @ + k, !.inFlight = @ + k]
  <1>1. k \in Int
    BY AsyncAssumption DEF AsyncAssumption, Least
  <1>2. \A i \in 1..k : js[i].op # "grant"
    BY DEF Reaction
  <1>3. launch(p) = IF p.failed \/ k <= 0 THEN [pm |-> p, jobs |-> <<>>]
                    ELSE [pm |-> more, jobs |-> js]
    BY DEF launch
  <1>4. js = [i \in 1..k |-> js[i]]
    OBVIOUS
  <1> HIDE DEF k, js
  <1>5. CASE p.failed \/ k <= 0
    <2>1. launch(p).pm = p /\ launch(p).jobs = <<>>
      BY <1>3, <1>5
    <2>2. <<>> \in Seq({})
      OBVIOUS
    <2> QED BY <2>1, <2>2
  <1>6. CASE ~(p.failed \/ k <= 0)
    <2>1. launch(p).pm = more /\ launch(p).jobs = js
      BY <1>3, <1>6
    <2>2. k \in Nat \ {0}
      BY <1>1, <1>6
    <2>3. js \in Seq({js[i] : i \in 1..k}) /\ Len(js) = k
      BY <1>4, <2>2
    <2>4. /\ more.inFlight = p.inFlight + k /\ more.next = p.next + k
          /\ {"inFlight", "next"} \subseteq DOMAIN more
      OBVIOUS
    <2> HIDE DEF more
    <2> QED BY <1>1, <1>2, <2>1, <2>3, <2>4
  <1> QED BY <1>5, <1>6

\* The Pool's steps.
LEMMA PoolKeeps ==
    ASSUME SemInv,
           \/ submit \/ PoolCalls \/ PoolSettles
           \/ \E f \in DOMAIN pool.frames, ok \in BOOLEAN : JobSettles(f, ok)
    PROVE  SemInv'
  <1>0. PICK S : pool.q \in Seq(S)
    BY DEF SemInv, QueueTyped
  <1>1. /\ pool.active \in Int /\ {"active", "q"} \subseteq DOMAIN pool
        /\ pm.inFlight \in Int /\ pm.next \in Int /\ {"inFlight", "next"} \subseteq DOMAIN pm
    BY DEF SemInv, QueueTyped
  <1>2. CASE submit
    <2> DEFINE j == pool.submitted + 1
               p == [pool EXCEPT !.submitted = j, !.q = Append(@, j)]
    <2>1. /\ pool' = _pump(p).pool /\ micro' = micro \o _pump(p).jobs
          /\ sem' = sem /\ pm' = pm
      BY <1>2 DEF submit
    <2>2. pool.q \in Seq(S \cup {j})
      BY <1>0, SeqWider
    <2>3. /\ p.active = pool.active /\ p.q = Append(pool.q, j)
          /\ {"active", "q"} \subseteq DOMAIN p
      BY <1>1
    <2> HIDE DEF p, j
    <2>4. p.q \in Seq(S \cup {j})
      BY <2>2, <2>3
    <2>5. /\ pool'.active \in Int /\ pool'.q \in Seq(S \cup {j})
          /\ {"active", "q"} \subseteq DOMAIN pool'
          /\ \E T : _pump(p).jobs \in Seq(T)
          /\ \A i \in 1..Len(_pump(p).jobs) : _pump(p).jobs[i].op # "grant"
      BY <1>1, <2>1, <2>3, <2>4, PumpFacts
    <2>6. GrantsDue' /\ \E T : micro' \in Seq(T)
      BY <2>1, <2>5, GrantsCarried
    <2>7. QueueTyped'
      BY <1>1, <2>1, <2>5, <2>6 DEF QueueTyped
    <2> QED BY <2>1, <2>6, <2>7, SemFrame
  <1>3. CASE PoolCalls
    <2>1. /\ pool' = [pool EXCEPT !.calls[pool.frames[Subject]] = @ + 1, !.running[Subject] = @ + 1]
          /\ micro # <<>> /\ micro' = Tail(micro) /\ sem' = sem /\ pm' = pm
      BY <1>3 DEF PoolCalls, Next_
    <2>2. /\ pool'.active = pool.active /\ pool'.q = pool.q
          /\ {"active", "q"} \subseteq DOMAIN pool'
      BY <1>1, <2>1
    <2>3. GrantsDue' /\ \E T : micro' \in Seq(T)
      BY <2>1, GrantsCarriedNone
    <2>4. QueueTyped'
      BY <1>0, <1>1, <2>1, <2>2, <2>3 DEF QueueTyped
    <2> QED BY <2>1, <2>3, <2>4, SemFrame
  <1>4. ASSUME NEW f \in DOMAIN pool.frames, NEW ok \in BOOLEAN, JobSettles(f, ok)
        PROVE  SemInv'
    <2>1. /\ pool' = [pool EXCEPT !.running[f] = @ - 1]
          /\ micro' = Append(micro, Reaction("settled", f, ok)) /\ sem' = sem /\ pm' = pm
      BY <1>4 DEF JobSettles
    <2>2. /\ pool'.active = pool.active /\ pool'.q = pool.q
          /\ {"active", "q"} \subseteq DOMAIN pool'
      BY <1>1, <2>1
    <2>3. Reaction("settled", f, ok).op # "grant"
      BY DEF Reaction
    <2>4. GrantsDue' /\ \E T : micro' \in Seq(T)
      BY <2>1, <2>3, GrantsCarriedOne
    <2>5. QueueTyped'
      BY <1>0, <1>1, <2>1, <2>2, <2>4 DEF QueueTyped
    <2> QED BY <2>1, <2>4, <2>5, SemFrame
  <1>5. CASE PoolSettles
    <2> DEFINE p == [pool EXCEPT !.active = @ - 1, !.settled[pool.frames[Subject]] = @ + 1]
    <2>1. /\ pool' = _pump(p).pool /\ micro # <<>> /\ micro' = Tail(micro) \o _pump(p).jobs
          /\ sem' = sem /\ pm' = pm
      BY <1>5 DEF PoolSettles, PoolEnded, Next_
    <2>2. /\ p.active = pool.active - 1 /\ p.q = pool.q
          /\ {"active", "q"} \subseteq DOMAIN p
      BY <1>1
    <2> HIDE DEF p
    <2>3. p.active \in Int /\ p.q \in Seq(S)
      BY <1>0, <1>1, <2>2
    <2>4. /\ pool'.active \in Int /\ pool'.q \in Seq(S)
          /\ {"active", "q"} \subseteq DOMAIN pool'
          /\ \E T : _pump(p).jobs \in Seq(T)
          /\ \A i \in 1..Len(_pump(p).jobs) : _pump(p).jobs[i].op # "grant"
      BY <2>1, <2>2, <2>3, PumpFacts
    <2>5. GrantsDue' /\ \E T : micro' \in Seq(T)
      BY <2>1, <2>4, GrantsCarried
    <2>6. QueueTyped'
      BY <1>1, <2>1, <2>4, <2>5 DEF QueueTyped
    <2> QED BY <2>1, <2>5, <2>6, SemFrame
  <1> QED BY <1>2, <1>3, <1>4, <1>5

\* The steps of pmap.
LEMMA PmapKeeps ==
    ASSUME SemInv,
           \/ pmap \/ ItemCalls \/ PmapSettles
           \/ \E i \in pm.running, ok \in BOOLEAN : ItemSettles(i, ok)
    PROVE  SemInv'
  <1>1. /\ pm.inFlight \in Int /\ pm.next \in Int /\ {"inFlight", "next"} \subseteq DOMAIN pm
        /\ pool.active \in Int /\ (\E S : pool.q \in Seq(S))
        /\ {"active", "q"} \subseteq DOMAIN pool
    BY DEF SemInv, QueueTyped
  <1>2. CASE pmap
    <2>1. /\ pm' = [launch(pm).pm EXCEPT !.pc = IF Items = 0 THEN "resolved" ELSE "pending"]
          /\ micro' = micro \o launch(pm).jobs /\ sem' = sem /\ pool' = pool
      BY <1>2 DEF pmap
    <2>2. /\ launch(pm).pm.inFlight \in Int /\ launch(pm).pm.next \in Int
          /\ {"inFlight", "next"} \subseteq DOMAIN launch(pm).pm
          /\ \E T : launch(pm).jobs \in Seq(T)
          /\ \A i \in 1..Len(launch(pm).jobs) : launch(pm).jobs[i].op # "grant"
      BY <1>1, LaunchFacts
    <2>3. pm'.inFlight \in Int /\ pm'.next \in Int /\ {"inFlight", "next"} \subseteq DOMAIN pm'
      BY <2>1, <2>2
    <2>4. GrantsDue' /\ \E T : micro' \in Seq(T)
      BY <2>1, <2>2, GrantsCarried
    <2>5. QueueTyped'
      BY <1>1, <2>1, <2>3, <2>4 DEF QueueTyped
    <2> QED BY <2>1, <2>4, <2>5, SemFrame
  <1>3. CASE ItemCalls
    <2>1. /\ pm' = [pm EXCEPT !.calls[Subject] = @ + 1, !.running = @ \cup {Subject}]
          /\ micro # <<>> /\ micro' = Tail(micro) /\ sem' = sem /\ pool' = pool
      BY <1>3 DEF ItemCalls, Next_
    <2>2. pm'.inFlight \in Int /\ pm'.next \in Int /\ {"inFlight", "next"} \subseteq DOMAIN pm'
      BY <1>1, <2>1
    <2>3. GrantsDue' /\ \E T : micro' \in Seq(T)
      BY <2>1, GrantsCarriedNone
    <2>4. QueueTyped'
      BY <1>1, <2>1, <2>2, <2>3 DEF QueueTyped
    <2> QED BY <2>1, <2>3, <2>4, SemFrame
  <1>4. ASSUME NEW i \in pm.running, NEW ok \in BOOLEAN, ItemSettles(i, ok)
        PROVE  SemInv'
    <2>1. /\ pm' = [pm EXCEPT !.running = @ \ {i}]
          /\ micro' = Append(micro, Reaction("mapped", i, ok)) /\ sem' = sem /\ pool' = pool
      BY <1>4 DEF ItemSettles
    <2>2. pm'.inFlight \in Int /\ pm'.next \in Int /\ {"inFlight", "next"} \subseteq DOMAIN pm'
      BY <1>1, <2>1
    <2>3. Reaction("mapped", i, ok).op # "grant"
      BY DEF Reaction
    <2>4. GrantsDue' /\ \E T : micro' \in Seq(T)
      BY <2>1, <2>3, GrantsCarriedOne
    <2>5. QueueTyped'
      BY <1>1, <2>1, <2>2, <2>4 DEF QueueTyped
    <2> QED BY <2>1, <2>4, <2>5, SemFrame
  <1>5. CASE PmapSettles
    <2> DEFINE p == [pm EXCEPT !.inFlight = @ - 1]
               q == [p EXCEPT !.settledCount = @ + 1]
               r == IF p.failed THEN [pm |-> p, jobs |-> <<>>] ELSE Mapped(p, Head(micro).ok)
    <2>1. /\ pm' = r.pm /\ micro # <<>> /\ micro' = Tail(micro) \o r.jobs
          /\ sem' = sem /\ pool' = pool
      BY <1>5 DEF PmapSettles, Next_
    <2>2. p.inFlight \in Int /\ p.next \in Int /\ {"inFlight", "next"} \subseteq DOMAIN p
      BY <1>1
    <2>3. \/ r = launch(q)
          \/ \E z \in {p, [p EXCEPT !.failed = TRUE, !.pc = "rejected"],
                       [p EXCEPT !.settledCount = @ + 1, !.pc = "resolved"]} :
                 r = [pm |-> z, jobs |-> <<>>]
      BY DEF Mapped
    <2> HIDE DEF r
    <2>4. q.inFlight \in Int /\ q.next \in Int /\ {"inFlight", "next"} \subseteq DOMAIN q
      BY <2>2
    <2>5. /\ r.pm.inFlight \in Int /\ r.pm.next \in Int
          /\ {"inFlight", "next"} \subseteq DOMAIN r.pm
          /\ \E T : r.jobs \in Seq(T)
          /\ \A i \in 1..Len(r.jobs) : r.jobs[i].op # "grant"
      <3>1. CASE r = launch(q)
        <4> HIDE DEF q, p
        <4> QED BY <2>4, <3>1, LaunchFacts
      <3>2. ASSUME NEW z \in {p, [p EXCEPT !.failed = TRUE, !.pc = "rejected"],
                              [p EXCEPT !.settledCount = @ + 1, !.pc = "resolved"]},
                   r = [pm |-> z, jobs |-> <<>>]
            PROVE  /\ r.pm.inFlight \in Int /\ r.pm.next \in Int
                   /\ {"inFlight", "next"} \subseteq DOMAIN r.pm
                   /\ \E T : r.jobs \in Seq(T)
                   /\ \A i \in 1..Len(r.jobs) : r.jobs[i].op # "grant"
        <4> HIDE DEF q, p
        <4>1. z.inFlight \in Int /\ z.next \in Int /\ {"inFlight", "next"} \subseteq DOMAIN z
          BY <2>2
        <4>2. r.pm = z /\ r.jobs = <<>>
          BY <3>2
        <4>3. <<>> \in Seq({})
          OBVIOUS
        <4> QED BY <4>1, <4>2, <4>3
      <3> QED BY <2>3, <3>1, <3>2
    <2>6. GrantsDue' /\ \E T : micro' \in Seq(T)
      BY <2>1, <2>5, GrantsCarried
    <2>7. QueueTyped'
      BY <1>1, <2>1, <2>5, <2>6 DEF QueueTyped
    <2> QED BY <2>1, <2>6, <2>7, SemFrame
  <1> QED BY <1>2, <1>3, <1>4, <1>5

\* The steps of retry, and those that do not touch the job queue.
LEMMA RetryKeeps ==
    ASSUME SemInv,
           \/ retry \/ RetryRuns \/ RetryCalls \/ RetrySettles \/ BackoffEnds
           \/ \E ok \in BOOLEAN : AttemptSettles(ok)
           \/ UNCHANGED <<sem, micro, pool, pm>>
    PROVE  SemInv'
  <1>1. /\ sem' = sem /\ pool' = pool /\ pm' = pm
        /\ \/ micro' = micro
           \/ micro # <<>> /\ micro' = Tail(micro)
           \/ \E op \in {"attempt", "run", "tried"}, ok \in BOOLEAN,
                 a \in {micro} \cup (IF micro = <<>> THEN {} ELSE {Tail(micro)}) :
                 micro' = Append(a, Reaction(op, 0, ok))
    <2>1. CASE retry \/ BackoffEnds
      BY <2>1 DEF retry, BackoffEnds, Attempts
    <2>2. CASE RetryRuns
      BY <2>2 DEF RetryRuns, Next_
    <2>3. CASE RetryCalls
      BY <2>3 DEF RetryCalls, Next_
    <2>4. CASE RetrySettles
      BY <2>4 DEF RetrySettles, Next_
    <2>5. CASE \E ok \in BOOLEAN : AttemptSettles(ok)
      BY <2>5 DEF AttemptSettles
    <2> QED BY <2>1, <2>2, <2>3, <2>4, <2>5
  <1>2. GrantsDue' /\ \E S : micro' \in Seq(S)
    <2>1. CASE micro' = micro \/ (micro # <<>> /\ micro' = Tail(micro))
      BY <1>1, <2>1, GrantsCarriedNone
    <2>2. ASSUME NEW op \in {"attempt", "run", "tried"}, NEW ok \in BOOLEAN,
                 NEW a \in {micro} \cup (IF micro = <<>> THEN {} ELSE {Tail(micro)}),
                 micro' = Append(a, Reaction(op, 0, ok))
          PROVE  GrantsDue' /\ \E S : micro' \in Seq(S)
      <3>1. Reaction(op, 0, ok).op # "grant"
        BY DEF Reaction
      <3>2. a = micro \/ (micro # <<>> /\ a = Tail(micro))
        OBVIOUS
      <3> QED BY <1>1, <2>2, <3>1, <3>2, GrantsCarriedOne
    <2> QED BY <1>1, <2>1, <2>2
  <1>3. QueueTyped'
    BY <1>1, <1>2 DEF SemInv, QueueTyped
  <1> QED BY <1>1, <1>2, <1>3, SemFrame

-----------------------------------------------------------------------------

\* The invariant holds at the start.
LEMMA SemInit == Init => SemInv
  <1> SUFFICES ASSUME Init PROVE SemInv
    OBVIOUS
  <1>0. <<>> \in Seq(Task)
    OBVIOUS
  <1>1. /\ sem.n = Permits /\ sem.waiters = <<>> /\ sem.asked = <<>> /\ sem.given = <<>>
        /\ sem.st = [t \in Task |-> "idle"] /\ micro = <<>>
    BY DEF Init
  <1>2. SemTyped
    <2>1. Permits \in Nat
      BY AsyncAssumption DEF AsyncAssumption
    <2>2. [t \in Task |-> "idle"] \in [Task -> TaskState]
      BY DEF TaskState
    <2> QED BY <1>0, <2>1, <2>2 DEF Init, SemTyped
  <1>3. QueueTyped
    <2>1. /\ pool.active = 0 /\ pool.q = <<>> /\ {"active", "q"} \subseteq DOMAIN pool
          /\ pm.inFlight = 0 /\ pm.next = 0 /\ {"inFlight", "next"} \subseteq DOMAIN pm
      BY DEF Init
    <2> QED BY <1>0, <1>1, <2>1 DEF QueueTyped
  <1>4. WaitersWait /\ GrantsDue
    BY <1>1 DEF WaitersWait, GrantsDue
  <1>5. Holders = {}
    BY <1>1 DEF Holders
  <1>6. NoQueueJumping
    <2>1. Cardinality({}) = 0
      BY FS_EmptySet
    <2>2. Permits \in Nat
      BY AsyncAssumption DEF AsyncAssumption
    <2>3. <<>> = <<>> \o <<>>
      BY <1>0
    <2> QED BY <1>1, <1>5, <2>1, <2>2, <2>3 DEF NoQueueJumping
  <1> QED BY <1>2, <1>3, <1>4, <1>6 DEF SemInv

\* Every step keeps it.
LEMMA SemStep == SemInv /\ [Next]_vars => SemInv'
  <1> SUFFICES ASSUME SemInv, [Next]_vars PROVE SemInv'
    OBVIOUS
  <1>1. CASE Granted
    BY <1>1, GrantedKeeps
  <1>2. CASE \E t \in Task : acquire(t) \/ Release(t) \/ AcquireTimesOut(t)
    BY <1>2, AcquireKeeps, ReleaseKeeps, TimesOutKeeps
  <1>3. CASE send \/ recv \/ close \/ IteratorStarts \/ IteratorReturns \/ RecvTimesOut
    <2>1. UNCHANGED <<sem, micro, pool, pm>>
      BY <1>3 DEF send, recv, close, IteratorStarts, IteratorReturns, RecvTimesOut
    <2> QED BY <2>1, RetryKeeps
  <1>4. CASE \/ submit \/ PoolCalls \/ PoolSettles
             \/ \E f \in DOMAIN pool.frames, ok \in BOOLEAN : JobSettles(f, ok)
    BY <1>4, PoolKeeps
  <1>5. CASE \/ pmap \/ ItemCalls \/ PmapSettles
             \/ \E i \in pm.running, ok \in BOOLEAN : ItemSettles(i, ok)
    BY <1>5, PmapKeeps
  <1>6. CASE \/ retry \/ RetryRuns \/ RetryCalls \/ RetrySettles \/ BackoffEnds
             \/ \E ok \in BOOLEAN : AttemptSettles(ok)
    BY <1>6, RetryKeeps
  <1>7. CASE debounce \/ throttle \/ RateFires \/ cancel \/ Tick \/ UNCHANGED vars
    <2>1. UNCHANGED <<sem, micro, pool, pm>>
      BY <1>7 DEF debounce, throttle, RateFires, cancel, Tick, vars
    <2> QED BY <2>1, RetryKeeps
  <1> QED BY <1>1, <1>2, <1>3, <1>4, <1>5, <1>6, <1>7 DEF Next, Reactions

\* acquire and _release hand permits over in the order in which they were
\* asked for, and neither make nor destroy one, for any number of tasks and
\* permits, timeouts and repeated releases included.
THEOREM PermitsInOrder == Spec => []NoQueueJumping
  <1>1. SemInv => NoQueueJumping
    BY DEF SemInv
  <1> QED BY <1>1, SemInit, SemStep, PTL DEF Spec

-----------------------------------------------------------------------------
(* The inductive invariant of the Channel *)

Line == chan.out \o chan.q \o chan.blocked

ChanTyped ==
    chan \in [q : Seq(Nat), blocked : Seq(Nat), receiver : {"none", "waiting", "gone"},
              closed : BOOLEAN, iterating : BOOLEAN, sends : Nat, out : Seq(Nat),
              lost : SUBSET Nat, rejected : SUBSET Nat]

\* An open channel has every value sent somewhere in the line, a closed one
\* lets nobody wait, the buffer is never over its capacity, and only a timeout
\* makes a receiver give up.
ChanInv ==
    /\ ChanTyped /\ ChannelInOrder
    /\ ~chan.closed => Len(Line) = chan.sends
    /\ Len(Line) <= chan.sends
    /\ chan.closed => chan.blocked = <<>>
    /\ Len(chan.q) <= Cap
    /\ "timeout" \notin uses => chan.receiver # "gone"

\* A line in order stays so when the next number joins its end.
LEMMA InOrderAppend ==
    ASSUME NEW s \in Seq(Nat), InOrder(s)
    PROVE  InOrder(Append(s, Len(s) + 1)) /\ Append(s, Len(s) + 1) \in Seq(Nat)
           /\ Len(Append(s, Len(s) + 1)) = Len(s) + 1
  BY DEF InOrder

\* The beginning of a line in order is in order, and the rest goes on from it.
LEMMA InOrderSplit ==
    ASSUME NEW s \in Seq(Nat), NEW t \in Seq(Nat), InOrder(s \o t)
    PROVE  /\ InOrder(s)
           /\ {t[i] : i \in DOMAIN t} = (Len(s) + 1)..(Len(s) + Len(t))
  <1>1. \A i \in 1..Len(s) : (s \o t)[i] = s[i]
    BY ConcatFacts
  <1>2. \A i \in 1..Len(t) : (s \o t)[Len(s) + i] = t[i]
    BY ConcatFacts
  <1>3. DOMAIN (s \o t) = 1..(Len(s) + Len(t)) /\ Len(s) \in Nat /\ Len(t) \in Nat
    OBVIOUS
  <1>4. InOrder(s)
    BY <1>1, <1>3 DEF InOrder
  <1>5. \A i \in DOMAIN t : t[i] = Len(s) + i /\ i \in 1..Len(t)
    <2>1. ASSUME NEW i \in DOMAIN t
          PROVE  t[i] = Len(s) + i /\ i \in 1..Len(t)
      <3>1. i \in 1..Len(t) /\ Len(s) + i \in 1..(Len(s) + Len(t))
        BY <1>3
      <3>2. (s \o t)[Len(s) + i] = Len(s) + i
        BY <1>3, <3>1 DEF InOrder
      <3> QED BY <1>2, <3>1, <3>2
    <2> QED BY <2>1
  <1>6. ASSUME NEW v \in (Len(s) + 1)..(Len(s) + Len(t))
        PROVE  \E i \in DOMAIN t : t[i] = v
    <2>1. v - Len(s) \in DOMAIN t /\ Len(s) + (v - Len(s)) = v
      BY <1>3
    <2> QED BY <1>5, <2>1
  <1>7. \A i \in DOMAIN t : t[i] \in (Len(s) + 1)..(Len(s) + Len(t))
    BY <1>3, <1>5
  <1> QED BY <1>4, <1>6, <1>7

\* The facts of the invariant with the line spelled out.
LEMMA ChanFacts ==
    ASSUME ChanInv
    PROVE  /\ ChanTyped /\ InOrder(Line) /\ Line \in Seq(Nat) /\ Len(Line) \in Nat
           /\ chan.rejected = (Len(Line) + 1)..chan.sends
           /\ chan.receiver # "none" => chan.q = <<>> /\ ~chan.closed
           /\ chan.blocked # <<>> => Len(chan.q) = Cap
           /\ "timeout" \notin uses => chan.lost = {}
  <1>1. chan.out \in Seq(Nat) /\ chan.q \in Seq(Nat) /\ chan.blocked \in Seq(Nat)
    BY DEF ChanInv, ChanTyped
  <1>2. Line \in Seq(Nat) /\ Len(Line) \in Nat
    <2>1. \A a, b, c \in Seq(Nat) : a \o b \o c \in Seq(Nat)
      OBVIOUS
    <2>2. \A a \in Seq(Nat) : Len(a) \in Nat
      OBVIOUS
    <2> QED BY <1>1, <2>1, <2>2 DEF Line
  <1> QED BY <1>2 DEF ChanInv, ChannelInOrder, Line

\* A step that leaves the Channel alone keeps its invariant.
LEMMA ChanFrame ==
    ASSUME ChanInv, chan' = chan, uses' = uses
    PROVE  ChanInv'
  BY DEF ChanInv, ChanTyped, ChannelInOrder, Line

\* send: the value joins the end of the line, or is refused.
LEMMA SendKeeps ==
    ASSUME ChanInv, send
    PROVE  ChanInv'
  <1> DEFINE v == chan.sends + 1
  <1>0. /\ ChanTyped /\ InOrder(Line) /\ Line \in Seq(Nat) /\ Len(Line) \in Nat
        /\ chan.rejected = (Len(Line) + 1)..chan.sends
        /\ chan.receiver # "none" => chan.q = <<>> /\ ~chan.closed
        /\ chan.blocked # <<>> => Len(chan.q) = Cap
        /\ "timeout" \notin uses => chan.lost = {}
    BY ChanFacts
  <1>1. /\ chan.out \in Seq(Nat) /\ chan.q \in Seq(Nat) /\ chan.blocked \in Seq(Nat)
        /\ chan.sends \in Nat /\ v \in Nat /\ chan.closed \in BOOLEAN
        /\ Cap \in Nat \ {0} /\ Len(chan.q) \in Nat /\ Len(chan.q) <= Cap
        /\ chan.receiver \in {"none", "waiting", "gone"} /\ uses' = uses
        /\ ~chan.closed => Len(Line) = chan.sends
        /\ Len(Line) <= chan.sends
        /\ chan.closed => chan.blocked = <<>>
        /\ "timeout" \notin uses => chan.receiver # "gone"
    <2>1. /\ chan.out \in Seq(Nat) /\ chan.q \in Seq(Nat) /\ chan.blocked \in Seq(Nat)
          /\ chan.sends \in Nat /\ chan.closed \in BOOLEAN
          /\ chan.receiver \in {"none", "waiting", "gone"}
      BY <1>0 DEF ChanTyped
    <2>2. Cap \in Nat \ {0}
      BY AsyncAssumption DEF AsyncAssumption
    <2>3. Len(chan.q) \in Nat /\ v \in Nat
      BY <2>1
    <2> QED BY <2>1, <2>2, <2>3 DEF ChanInv, send
  <1> HIDE DEF v
  <1>2. CASE chan.closed
    <2>1. chan' = [[chan EXCEPT !.sends = v] EXCEPT !.rejected = @ \cup {v}]
      BY <1>2 DEF send, v
    <2>2. /\ chan'.q = chan.q /\ chan'.blocked = chan.blocked /\ chan'.out = chan.out
          /\ chan'.receiver = chan.receiver /\ chan'.closed = chan.closed /\ chan'.sends = v
          /\ chan'.rejected = chan.rejected \cup {v} /\ chan'.lost = chan.lost
      BY <1>0, <2>1 DEF ChanTyped
    <2>3. ChanTyped'
      BY <1>0, <1>1, <2>1 DEF ChanTyped
    <2>4. Line' = Line
      BY <2>2 DEF Line
    <2>5. chan'.rejected = (Len(Line) + 1)..v
      BY <1>0, <1>1, <2>2 DEF v
    <2>6. ChannelInOrder'
      BY <1>0, <1>1, <2>2, <2>4, <2>5 DEF ChannelInOrder, Line
    <2>7. Len(Line) <= v
      BY <1>0, <1>1 DEF v
    <2> QED BY <1>1, <1>2, <2>2, <2>3, <2>4, <2>6, <2>7 DEF ChanInv
  <1>3. CASE ~chan.closed
    <2>1. Len(Line) = chan.sends /\ chan.rejected = {}
      BY <1>0, <1>1, <1>3
    <2>2. \/ /\ chan.receiver # "none"
             /\ chan' = Delivered([chan EXCEPT !.sends = v], v)
          \/ /\ chan.receiver = "none" /\ Len(chan.q) < Cap
             /\ chan' = [[chan EXCEPT !.sends = v] EXCEPT !.q = Append(@, v)]
          \/ /\ chan.receiver = "none" /\ Len(chan.q) >= Cap
             /\ chan' = [[chan EXCEPT !.sends = v] EXCEPT !.blocked = Append(@, v)]
      BY <1>3 DEF send, v
    <2>3. SUFFICES /\ ChanTyped' /\ Line' = Append(Line, v) /\ chan'.sends = v
                   /\ chan'.rejected = {} /\ ~chan'.closed
                   /\ chan'.receiver # "none" => chan'.q = <<>>
                   /\ chan'.blocked # <<>> => Len(chan'.q) = Cap
                   /\ Len(chan'.q) <= Cap
                   /\ "timeout" \notin uses => chan'.lost = {} /\ chan'.receiver # "gone"
      <3>1. InOrder(Append(Line, v)) /\ Len(Append(Line, v)) = v
        BY <1>0, <1>1, <2>1, InOrderAppend DEF v
      <3>2. (v + 1)..v = {}
        BY <1>1
      <3>3. ChannelInOrder'
        BY <1>1, <2>3, <3>1, <3>2 DEF ChannelInOrder, Line
      <3> QED BY <1>1, <2>3, <3>1, <3>3 DEF ChanInv
    <2>4. CASE /\ chan.receiver # "none"
               /\ chan' = Delivered([chan EXCEPT !.sends = v], v)
      <3>1. chan.q = <<>> /\ chan.blocked = <<>>
        BY <1>0, <1>1, <2>4
      <3>2. /\ chan'.q = chan.q /\ chan'.blocked = chan.blocked /\ chan'.out = Append(chan.out, v)
            /\ chan'.receiver = "none" /\ chan'.closed = chan.closed /\ chan'.sends = v
            /\ chan'.rejected = chan.rejected
            /\ chan'.lost = IF chan.receiver = "gone" THEN chan.lost \cup {v} ELSE chan.lost
        BY <1>0, <2>4 DEF ChanTyped, Delivered
      <3>3. ChanTyped'
        <4>1. Append(chan.out, v) \in Seq(Nat)
          BY <1>1
        <4> QED BY <1>0, <1>1, <2>4, <4>1 DEF ChanTyped, Delivered
      <3>4. Line' = Append(Line, v)
        BY <1>1, <3>1, <3>2 DEF Line
      <3> QED BY <1>0, <1>1, <1>3, <2>1, <3>1, <3>2, <3>3, <3>4
    <2>5. CASE /\ chan.receiver = "none" /\ Len(chan.q) < Cap
               /\ chan' = [[chan EXCEPT !.sends = v] EXCEPT !.q = Append(@, v)]
      <3>1. chan.blocked = <<>>
        BY <1>0, <1>1, <2>5
      <3>2. /\ chan'.q = Append(chan.q, v) /\ chan'.blocked = chan.blocked /\ chan'.out = chan.out
            /\ chan'.receiver = "none" /\ chan'.closed = chan.closed /\ chan'.sends = v
            /\ chan'.rejected = chan.rejected /\ chan'.lost = chan.lost
        BY <1>0, <2>5 DEF ChanTyped
      <3>3. ChanTyped'
        <4>1. Append(chan.q, v) \in Seq(Nat)
          BY <1>1
        <4> QED BY <1>0, <1>1, <2>5, <4>1 DEF ChanTyped
      <3>4. Line' = Append(Line, v)
        <4>1. chan.out \o Append(chan.q, v) = Append(chan.out \o chan.q, v)
          <5>1. \A s, t \in Seq(Nat), e \in Nat : s \o Append(t, e) = Append(s \o t, e)
            BY AppendInside
          <5> QED BY <1>1, <5>1
        <4>2. \A s \in Seq(Nat) : s \o <<>> = s
          OBVIOUS
        <4>3. chan.out \o chan.q \in Seq(Nat) /\ Append(chan.out \o chan.q, v) \in Seq(Nat)
          BY <1>1
        <4> QED BY <3>1, <3>2, <4>1, <4>2, <4>3 DEF Line
      <3>5. Len(chan'.q) <= Cap
        BY <1>1, <2>5, <3>2
      <3> QED BY <1>0, <1>1, <1>3, <2>1, <3>1, <3>2, <3>3, <3>4, <3>5
    <2>6. CASE /\ chan.receiver = "none" /\ Len(chan.q) >= Cap
               /\ chan' = [[chan EXCEPT !.sends = v] EXCEPT !.blocked = Append(@, v)]
      <3>1. /\ chan'.q = chan.q /\ chan'.blocked = Append(chan.blocked, v) /\ chan'.out = chan.out
            /\ chan'.receiver = "none" /\ chan'.closed = chan.closed /\ chan'.sends = v
            /\ chan'.rejected = chan.rejected /\ chan'.lost = chan.lost
        BY <1>0, <2>6 DEF ChanTyped
      <3>2. ChanTyped'
        <4>1. Append(chan.blocked, v) \in Seq(Nat)
          BY <1>1
        <4> QED BY <1>0, <1>1, <2>6, <4>1 DEF ChanTyped
      <3>3. Line' = Append(Line, v)
        <4>1. \A s, t \in Seq(Nat), e \in Nat : s \o Append(t, e) = Append(s \o t, e)
          BY AppendInside
        <4> DEFINE front == chan.out \o chan.q
        <4>2. front \in Seq(Nat)
          BY <1>1
        <4>3. Line = front \o chan.blocked /\ Line' = front \o Append(chan.blocked, v)
          BY <3>1 DEF Line
        <4> HIDE DEF front
        <4> QED BY <1>1, <4>1, <4>2, <4>3
      <3>4. Len(chan.q) = Cap
        BY <1>1, <2>6
      <3> QED BY <1>0, <1>1, <1>3, <2>1, <2>6, <3>1, <3>2, <3>3, <3>4
    <2> QED BY <2>2, <2>4, <2>5, <2>6
  <1> QED BY <1>2, <1>3

\* What _admit's shift takes, and what it leaves, when one place is free.
LEMMA FirstAndRest ==
    ASSUME NEW S, NEW s \in Seq(S), s # <<>>
    PROVE  SubSeq(s, 1, 1) = <<Head(s)>> /\ SubSeq(s, 2, Len(s)) = Tail(s)
  <1>1. Len(s) \in Nat \ {0} /\ Head(s) = s[1]
    BY TailFacts
  <1>2. SubSeq(s, 1, 1) = <<Head(s)>>
    <2>1. /\ SubSeq(s, 1, 1) \in Seq(S) /\ Len(SubSeq(s, 1, 1)) = 1
          /\ SubSeq(s, 1, 1)[1] = s[1]
      BY <1>1
    <2>2. s[1] \in S
      BY <1>1
    <2>3. <<s[1]>> \in Seq(S) /\ Len(<<s[1]>>) = 1 /\ <<s[1]>>[1] = s[1]
      BY <2>2
    <2>4. \A a, b \in Seq(S) : Len(a) = 1 /\ Len(b) = 1 /\ a[1] = b[1] => a = b
      <3>1. \A i \in 1..1 : i = 1
        OBVIOUS
      <3> QED BY <3>1, SeqEqual
    <2> DEFINE a == SubSeq(s, 1, 1)
               b == <<s[1]>>
    <2>5. /\ a \in Seq(S) /\ Len(a) = 1 /\ a[1] = s[1]
          /\ b \in Seq(S) /\ Len(b) = 1 /\ b[1] = s[1]
      BY <2>1, <2>3
    <2> HIDE DEF a, b
    <2>6. a = b
      BY <2>4, <2>5
    <2> QED BY <1>1, <2>6 DEF a, b
  <1>3. SubSeq(s, 2, Len(s)) = Tail(s)
    BY <1>1
  <1> QED BY <1>2, <1>3

\* recv takes the first of the line, and who waited longest gets its place.
LEMMA RecvKeeps ==
    ASSUME ChanInv, recv
    PROVE  ChanInv'
  <1>0. /\ ChanTyped /\ InOrder(Line) /\ Line \in Seq(Nat) /\ Len(Line) \in Nat
        /\ chan.rejected = (Len(Line) + 1)..chan.sends
        /\ chan.blocked # <<>> => Len(chan.q) = Cap
        /\ "timeout" \notin uses => chan.lost = {}
    BY ChanFacts
  <1>1. /\ chan.out \in Seq(Nat) /\ chan.q \in Seq(Nat) /\ chan.blocked \in Seq(Nat)
        /\ Cap \in Nat \ {0} /\ Len(chan.q) \in Nat /\ Len(chan.blocked) \in Nat
    <2>1. chan.out \in Seq(Nat) /\ chan.q \in Seq(Nat) /\ chan.blocked \in Seq(Nat)
      BY <1>0 DEF ChanTyped
    <2>2. Cap \in Nat \ {0}
      BY AsyncAssumption DEF AsyncAssumption
    <2> QED BY <2>1, <2>2
  <1>2. /\ Len(chan.q) <= Cap /\ uses' = uses /\ chan.receiver = "none"
        /\ ~chan.closed => Len(Line) = chan.sends
        /\ Len(Line) <= chan.sends
        /\ chan.closed => chan.blocked = <<>>
    BY DEF ChanInv, recv
  <1>3. CASE chan.q = <<>>
    <2>1. chan' \in {[chan EXCEPT !.iterating = FALSE], [chan EXCEPT !.receiver = "waiting"]}
      BY <1>3 DEF recv
    <2>2. /\ chan'.q = chan.q /\ chan'.blocked = chan.blocked /\ chan'.out = chan.out
          /\ chan'.closed = chan.closed /\ chan'.sends = chan.sends
          /\ chan'.rejected = chan.rejected /\ chan'.lost = chan.lost
          /\ chan'.receiver # "gone"
      BY <1>0, <1>2, <2>1 DEF ChanTyped
    <2>3. chan'.receiver # "none" => ~chan'.closed
      BY <1>0, <1>2, <1>3, <2>2 DEF recv, ChanTyped
    <2>4. ChanTyped'
      BY <1>0, <2>1 DEF ChanTyped
    <2>5. Line' = Line
      BY <2>2 DEF Line
    <2>6. ChannelInOrder'
      BY <1>0, <1>2, <1>3, <2>2, <2>3, <2>5 DEF ChannelInOrder, Line
    <2> QED BY <1>2, <2>2, <2>4, <2>5, <2>6 DEF ChanInv
  <1>4. CASE chan.q # <<>>
    <2> DEFINE h == Head(chan.q)
               w == Tail(chan.q)
               c == Delivered([chan EXCEPT !.q = w], h)
               k == Least(Cap - Len(w), Len(chan.blocked))
    <2>1. chan' = Admit(c)
      BY <1>4 DEF recv
    <2>2. h \in Nat /\ w \in Seq(Nat) /\ Len(w) = Len(chan.q) - 1 /\ Len(chan.q) > 0
      BY <1>1, <1>4, TailFacts
    <2>3. /\ c.q = w /\ c.blocked = chan.blocked /\ c.out = Append(chan.out, h)
          /\ c.receiver = "none" /\ c.closed = chan.closed /\ c.sends = chan.sends
          /\ c.rejected = chan.rejected /\ c.lost = chan.lost
      BY <1>0, <1>2 DEF ChanTyped, Delivered
    <2>4. c \in [q : Seq(Nat), blocked : Seq(Nat), receiver : {"none", "waiting", "gone"},
                 closed : BOOLEAN, iterating : BOOLEAN, sends : Nat, out : Seq(Nat),
                 lost : SUBSET Nat, rejected : SUBSET Nat]
      <3>1. Append(chan.out, h) \in Seq(Nat)
        BY <1>1, <2>2
      <3> QED BY <1>0, <1>2, <2>2, <3>1 DEF ChanTyped, Delivered
    <2> HIDE DEF c, h, w
    <2>5. chan' = [c EXCEPT !.q = w \o SubSeq(chan.blocked, 1, k),
                            !.blocked = SubSeq(chan.blocked, k + 1, Len(chan.blocked))]
      BY <2>1, <2>3, <2>4 DEF Admit
    <2>6. /\ chan'.q = w \o SubSeq(chan.blocked, 1, k)
          /\ chan'.blocked = SubSeq(chan.blocked, k + 1, Len(chan.blocked))
          /\ chan'.out = Append(chan.out, h) /\ chan'.receiver = "none"
          /\ chan'.closed = chan.closed /\ chan'.sends = chan.sends
          /\ chan'.rejected = chan.rejected /\ chan'.lost = chan.lost
      BY <2>3, <2>4, <2>5
    <2>7. Append(chan.out, h) \o w = chan.out \o chan.q
      <3>1. \A s, t \in Seq(Nat) : t # <<>> => Append(s, Head(t)) \o Tail(t) = s \o t
        BY HeadOver
      <3> QED BY <1>1, <1>4, <3>1 DEF h, w
    <2>8. /\ chan'.q \in Seq(Nat) /\ chan'.blocked \in Seq(Nat) /\ Line' = Line
          /\ Len(chan'.q) <= Cap
          /\ chan'.blocked # <<>> => Len(chan'.q) = Cap
          /\ chan.blocked = <<>> => chan'.blocked = <<>>
      <3>1. CASE chan.blocked = <<>>
        <4>1. k = 0 /\ Len(chan.blocked) = 0
          <5>1. \A a \in Int : a >= 0 => Least(a, 0) = 0
            BY DEF Least
          <5>2. Cap - Len(w) \in Int /\ Cap - Len(w) >= 0
            BY <1>1, <1>2, <2>2
          <5>3. Len(chan.blocked) = 0
            BY <3>1
          <5> QED BY <5>1, <5>2, <5>3
        <4>2. SubSeq(chan.blocked, 1, k) = <<>> /\ SubSeq(chan.blocked, k + 1, Len(chan.blocked)) = <<>>
          BY <3>1, <4>1
        <4>3. w \o <<>> = w
          BY <2>2
        <4>4. chan'.q = w /\ chan'.blocked = <<>>
          BY <2>6, <4>2, <4>3
        <4>5. Line' = Line
          BY <2>6, <2>7, <3>1, <4>4 DEF Line
        <4>6. <<>> \in Seq(Nat)
          OBVIOUS
        <4> QED BY <1>1, <1>2, <2>2, <4>4, <4>5, <4>6
      <3>2. CASE chan.blocked # <<>>
        <4> DEFINE b == Head(chan.blocked)
                   rest == Tail(chan.blocked)
        <4>1. /\ b \in Nat /\ rest \in Seq(Nat) /\ Len(chan.blocked) \in Nat \ {0}
              /\ b = chan.blocked[1]
          BY <1>1, <3>2, TailFacts
        <4>2. k = 1 /\ k + 1 = 2
          <5>1. \A n \in Nat \ {0} : Least(1, n) = 1
            BY DEF Least
          <5>2. Cap - Len(w) = 1
            BY <1>0, <1>1, <2>2, <3>2
          <5> QED BY <4>1, <5>1, <5>2
        <4>3. SubSeq(chan.blocked, 1, 1) = <<b>> /\ SubSeq(chan.blocked, 2, Len(chan.blocked)) = rest
          <5>1. \A s \in Seq(Nat) : s # <<>> => /\ SubSeq(s, 1, 1) = <<Head(s)>>
                                               /\ SubSeq(s, 2, Len(s)) = Tail(s)
            BY FirstAndRest
          <5> QED BY <1>1, <3>2, <5>1
        <4> HIDE DEF b, rest, k
        <4>4. w \o <<b>> = Append(w, b)
          BY <2>2, <4>1
        <4>5. chan'.q = Append(w, b) /\ chan'.blocked = rest
          BY <2>6, <4>2, <4>3, <4>4
        <4>6. Len(Append(w, b)) = Cap /\ Append(w, b) \in Seq(Nat)
          BY <1>0, <1>1, <2>2, <3>2, <4>1
        <4>7. Line' = Line
          <5>1. \A s, t \in Seq(Nat), e \in Nat : s \o Append(t, e) = Append(s \o t, e)
            BY AppendInside
          <5>2. \A s, t \in Seq(Nat) : t # <<>> => Append(s, Head(t)) \o Tail(t) = s \o t
            BY HeadOver
          <5>3. Append(chan.out, h) \in Seq(Nat) /\ chan.out \o chan.q \in Seq(Nat)
            BY <1>1, <2>2
          <5>4. Append(chan.out, h) \o Append(w, b) = Append(chan.out \o chan.q, b)
            <6>1. Append(chan.out, h) \o Append(w, b) = Append(Append(chan.out, h) \o w, b)
              BY <2>2, <4>1, <5>1, <5>3
            <6> QED BY <2>7, <6>1
          <5>5. Append(chan.out \o chan.q, b) \o rest = chan.out \o chan.q \o chan.blocked
            BY <1>1, <3>2, <5>2, <5>3 DEF b, rest
          <5> QED BY <2>6, <4>5, <5>4, <5>5 DEF Line
        <4> QED BY <1>1, <3>2, <4>1, <4>5, <4>6, <4>7
      <3> QED BY <3>1, <3>2
    <2>9. ChanTyped'
      BY <2>4, <2>5, <2>6, <2>8 DEF ChanTyped
    <2>10. ChannelInOrder'
      BY <1>0, <1>2, <2>6, <2>8 DEF ChannelInOrder, Line
    <2> QED BY <1>2, <2>6, <2>8, <2>9, <2>10 DEF ChanInv
  <1> QED BY <1>3, <1>4

\* close refuses those that wait; what is buffered stays.
LEMMA CloseKeeps ==
    ASSUME ChanInv, close
    PROVE  ChanInv'
  <1>0. /\ ChanTyped /\ InOrder(Line) /\ Line \in Seq(Nat) /\ Len(Line) \in Nat
        /\ chan.rejected = (Len(Line) + 1)..chan.sends
        /\ "timeout" \notin uses => chan.lost = {}
    BY ChanFacts
  <1> DEFINE buffered == chan.out \o chan.q
             refused == {chan.blocked[i] : i \in DOMAIN chan.blocked}
  <1>1. /\ chan.blocked \in Seq(Nat) /\ buffered \in Seq(Nat) /\ Line = buffered \o chan.blocked
        /\ Len(Line) = Len(buffered) + Len(chan.blocked)
        /\ Len(buffered) \in Nat /\ Len(chan.blocked) \in Nat /\ chan.sends \in Nat
    <2>1. chan.out \in Seq(Nat) /\ chan.q \in Seq(Nat) /\ chan.blocked \in Seq(Nat) /\ chan.sends \in Nat
      BY <1>0 DEF ChanTyped
    <2>2. buffered \in Seq(Nat)
      BY <2>1
    <2>3. Line = buffered \o chan.blocked
      BY DEF Line
    <2>4. \A s, t \in Seq(Nat) : Len(s) \in Nat /\ Len(s \o t) = Len(s) + Len(t)
      OBVIOUS
    <2> HIDE DEF buffered
    <2> QED BY <2>1, <2>2, <2>3, <2>4
  <1>2. /\ Len(chan.q) <= Cap /\ uses' = uses
        /\ ~chan.closed => Len(Line) = chan.sends
        /\ Len(Line) <= chan.sends
        /\ chan.closed => chan.blocked = <<>>
    BY DEF ChanInv, close
  <1>3. /\ chan'.q = chan.q /\ chan'.blocked = <<>> /\ chan'.out = chan.out
        /\ chan'.receiver = "none" /\ chan'.closed = TRUE /\ chan'.sends = chan.sends
        /\ chan'.rejected = chan.rejected \cup refused /\ chan'.lost = chan.lost
    BY <1>0 DEF close, ChanTyped
  <1>4. Line' = buffered
    BY <1>1, <1>3 DEF Line
  <1>5. InOrder(buffered) /\ refused = (Len(buffered) + 1)..(Len(buffered) + Len(chan.blocked))
    BY <1>0, <1>1, InOrderSplit
  <1>6. refused \in SUBSET Nat
    BY <1>1
  <1>7. ChanTyped'
    <2>1. <<>> \in Seq(Nat)
      OBVIOUS
    <2> QED BY <1>0, <1>6, <2>1 DEF close, ChanTyped
  <1> HIDE DEF refused, buffered
  <1>8. chan'.rejected = (Len(buffered) + 1)..chan.sends
    BY <1>0, <1>1, <1>2, <1>3, <1>5
  <1>9. ChannelInOrder'
    BY <1>0, <1>2, <1>3, <1>4, <1>5, <1>8 DEF ChannelInOrder, Line
  <1>10. Len(buffered) <= chan.sends
    BY <1>1, <1>2
  <1> QED BY <1>2, <1>3, <1>4, <1>7, <1>9, <1>10 DEF ChanInv

\* The iterator and the timeout change nothing in the line.
LEMMA SideKeeps ==
    ASSUME ChanInv, IteratorStarts \/ IteratorReturns \/ RecvTimesOut
    PROVE  ChanInv'
  <1>0. /\ ChanTyped /\ uses' = uses
        /\ chan' \in {[chan EXCEPT !.iterating = TRUE], [chan EXCEPT !.iterating = FALSE]}
           \/ (chan' = [chan EXCEPT !.receiver = "gone"] /\ chan.receiver = "waiting" /\ "timeout" \in uses)
    BY DEF ChanInv, IteratorStarts, IteratorReturns, RecvTimesOut
  <1>1. /\ chan'.q = chan.q /\ chan'.blocked = chan.blocked /\ chan'.out = chan.out
        /\ chan'.closed = chan.closed /\ chan'.sends = chan.sends
        /\ chan'.rejected = chan.rejected /\ chan'.lost = chan.lost
        /\ chan'.receiver # chan.receiver => chan.receiver = "waiting" /\ "timeout" \in uses
    BY <1>0 DEF ChanTyped
  <1>2. ChanTyped'
    BY <1>0 DEF ChanTyped
  <1>3. Line' = Line
    BY <1>1 DEF Line
  <1>4. ChannelInOrder'
    BY <1>0, <1>1, <1>3 DEF ChanInv, ChannelInOrder, Line
  <1> QED BY <1>0, <1>1, <1>2, <1>3, <1>4 DEF ChanInv

\* The invariant holds at the start.
LEMMA ChanInit == Init => ChanInv
  <1> SUFFICES ASSUME Init PROVE ChanInv
    OBVIOUS
  <1>0. <<>> \in Seq(Nat) /\ Len(<<>>) = 0 /\ <<>> \o <<>> \o <<>> = <<>>
    OBVIOUS
  <1>1. /\ chan.q = <<>> /\ chan.blocked = <<>> /\ chan.out = <<>> /\ chan.receiver = "none"
        /\ chan.closed = FALSE /\ chan.sends = 0 /\ chan.rejected = {} /\ chan.lost = {}
    BY DEF Init
  <1>2. ChanTyped
    BY <1>0 DEF Init, ChanTyped
  <1>3. Line = <<>> /\ Len(Line) = 0
    BY <1>0, <1>1 DEF Line
  <1>4. ChannelInOrder
    <2>1. (0 + 1)..0 = {}
      OBVIOUS
    <2>2. InOrder(<<>>)
      BY DEF InOrder
    <2> QED BY <1>0, <1>1, <2>1, <2>2 DEF ChannelInOrder
  <1>5. Cap \in Nat
    BY AsyncAssumption DEF AsyncAssumption
  <1> QED BY <1>0, <1>1, <1>2, <1>3, <1>4, <1>5 DEF ChanInv

\* Every step keeps it.
LEMMA ChanStep == ChanInv /\ [Next]_vars => ChanInv'
  <1> SUFFICES ASSUME ChanInv, [Next]_vars PROVE ChanInv'
    OBVIOUS
  <1>1. CASE send
    BY <1>1, SendKeeps
  <1>2. CASE recv
    BY <1>2, RecvKeeps
  <1>3. CASE close
    BY <1>3, CloseKeeps
  <1>4. CASE IteratorStarts \/ IteratorReturns \/ RecvTimesOut
    BY <1>4, SideKeeps
  <1>5. CASE UNCHANGED <<chan, uses>>
    BY <1>5, ChanFrame
  <1>6. CASE Reactions \/ \E t \in Task : acquire(t) \/ Release(t) \/ AcquireTimesOut(t)
    <2>1. UNCHANGED <<chan, uses>>
      BY <1>6 DEF Reactions, Granted, PoolCalls, PoolSettles, ItemCalls, PmapSettles, RetryRuns,
                  RetryCalls, RetrySettles, acquire, Release, AcquireTimesOut
    <2> QED BY <1>5, <2>1
  <1>7. CASE \/ submit \/ \E f \in DOMAIN pool.frames, ok \in BOOLEAN : JobSettles(f, ok)
             \/ pmap \/ \E i \in pm.running, ok \in BOOLEAN : ItemSettles(i, ok)
             \/ retry \/ (\E ok \in BOOLEAN : AttemptSettles(ok)) \/ BackoffEnds
             \/ debounce \/ throttle \/ RateFires \/ cancel \/ Tick
    <2>1. UNCHANGED <<chan, uses>>
      BY <1>7 DEF submit, JobSettles, pmap, ItemSettles, retry, AttemptSettles, BackoffEnds,
                  debounce, throttle, RateFires, cancel, Tick
    <2> QED BY <1>5, <2>1
  <1> QED BY <1>1, <1>2, <1>3, <1>4, <1>5, <1>6, <1>7 DEF Next, vars

\* send, recv and close deliver the values in the order they were sent, with
\* none skipped, doubled or overtaken, for any capacity and number of values.
THEOREM ValuesInOrder == Spec => []ChannelInOrder
  <1>1. ChanInv => ChannelInOrder
    BY DEF ChanInv
  <1> QED BY <1>1, ChanInit, ChanStep, PTL DEF Spec

-----------------------------------------------------------------------------
(* The queue of promise jobs, op by op *)

\* The subjects of the reactions of op o in the queue s, each there once.
DueIn(s, o) == {s[i].x : i \in {k \in DOMAIN s : s[k].op = o}}
OnceIn(s, o) == \A i, k \in DOMAIN s : s[i].op = o /\ s[k].op = o /\ s[i].x = s[k].x => i = k

\* What DueIn says, element by element.
LEMMA DueIs ==
    ASSUME NEW S, NEW s \in Seq(S), NEW o
    PROVE  /\ \A x : x \in DueIn(s, o) <=> \E i \in 1..Len(s) : s[i].op = o /\ s[i].x = x
           /\ OnceIn(s, o) <=> \A i, k \in 1..Len(s) : s[i].op = o /\ s[k].op = o /\ s[i].x = s[k].x => i = k
  <1>1. DOMAIN s = 1..Len(s)
    OBVIOUS
  <1> QED BY <1>1 DEF DueIn, OnceIn

\* The reaction at the head of the queue is served.
LEMMA DuePop ==
    ASSUME NEW S, NEW s \in Seq(S), s # <<>>, NEW o, OnceIn(s, o)
    PROVE  /\ OnceIn(Tail(s), o)
           /\ Head(s).op = o => Head(s).x \in DueIn(s, o) /\ DueIn(Tail(s), o) = DueIn(s, o) \ {Head(s).x}
           /\ Head(s).op # o => DueIn(Tail(s), o) = DueIn(s, o)
  <1> DEFINE t == Tail(s)
             n == Len(s)
  <1>1. /\ t \in Seq(S) /\ Len(t) = n - 1 /\ n \in Nat \ {0} /\ Head(s) = s[1]
        /\ \A i \in 1..Len(t) : t[i] = s[i + 1]
    BY TailFacts
  <1>2. \A i \in 1..Len(t) : i + 1 \in 1..n /\ t[i] = s[i + 1]
    BY <1>1
  <1>3. \A i \in 1..n : i # 1 => i - 1 \in 1..Len(t) /\ t[i - 1] = s[i]
    BY <1>1
  <1>4. /\ \A x : x \in DueIn(s, o) <=> \E i \in 1..n : s[i].op = o /\ s[i].x = x
        /\ \A i, k \in 1..n : s[i].op = o /\ s[k].op = o /\ s[i].x = s[k].x => i = k
    BY DueIs
  <1> HIDE DEF t
  <1>5. /\ \A x : x \in DueIn(t, o) <=> \E i \in 1..Len(t) : t[i].op = o /\ t[i].x = x
        /\ OnceIn(t, o) <=> \A i, k \in 1..Len(t) : t[i].op = o /\ t[k].op = o /\ t[i].x = t[k].x => i = k
    BY <1>1, DueIs
  <1>6. OnceIn(t, o)
    <2>1. ASSUME NEW i \in 1..Len(t), NEW k \in 1..Len(t), t[i].op = o, t[k].op = o, t[i].x = t[k].x PROVE i = k
      <3>1. i + 1 = k + 1
        BY <1>2, <1>4, <2>1
      <3> QED BY <1>1, <3>1
    <2> QED BY <1>5, <2>1
  <1>7. \A x : x \in DueIn(t, o) => x \in DueIn(s, o)
    <2>1. ASSUME NEW x, NEW i \in 1..Len(t), t[i].op = o, t[i].x = x PROVE x \in DueIn(s, o)
      BY <1>2, <1>4, <2>1
    <2> QED BY <1>5, <2>1
  <1>8. \A x : x \in DueIn(s, o) => x \in DueIn(t, o) \/ (s[1].op = o /\ x = s[1].x)
    <2>1. ASSUME NEW x, NEW i \in 1..n, s[i].op = o, s[i].x = x, i # 1 PROVE x \in DueIn(t, o)
      BY <1>3, <1>5, <2>1
    <2> QED BY <1>4, <2>1
  <1>9. CASE s[1].op = o
    <2>1. 1 \in 1..n
      BY <1>1
    <2>2. s[1].x \in DueIn(s, o)
      BY <1>4, <1>9, <2>1
    <2>3. s[1].x \notin DueIn(t, o)
      <3>1. ASSUME NEW i \in 1..Len(t), t[i].op = o, t[i].x = s[1].x PROVE FALSE
        <4>1. i + 1 = 1
          BY <1>2, <1>4, <1>9, <2>1, <3>1
        <4> QED BY <4>1
      <3> QED BY <1>5, <3>1
    <2>4. DueIn(t, o) = DueIn(s, o) \ {s[1].x}
      BY <1>7, <1>8, <2>2, <2>3
    <2> QED BY <1>1, <1>6, <1>9, <2>2, <2>4 DEF t
  <1>10. CASE s[1].op # o
    <2>1. DueIn(t, o) = DueIn(s, o)
      BY <1>7, <1>8, <1>10
    <2> QED BY <1>1, <1>6, <1>10, <2>1 DEF t
  <1> QED BY <1>9, <1>10

\* A reaction comes, to none that is due already.
LEMMA DueAdd ==
    ASSUME NEW S, NEW s \in Seq(S), NEW r, NEW o, OnceIn(s, o), r.op = o => r.x \notin DueIn(s, o)
    PROVE  /\ OnceIn(Append(s, r), o)
           /\ \A x : x \in DueIn(Append(s, r), o) <=> x \in DueIn(s, o) \/ (r.op = o /\ x = r.x)
           /\ Append(s, r) \in Seq(S \cup {r})
  <1> DEFINE t == Append(s, r)
             n == Len(s)
  <1>0. s \in Seq(S \cup {r}) /\ r \in S \cup {r}
    BY SeqWider
  <1>1. /\ t \in Seq(S \cup {r}) /\ Len(t) = n + 1 /\ t[n + 1] = r
        /\ \A i \in 1..n : t[i] = s[i]
    BY <1>0, AppendFacts
  <1>2. n \in Nat
    OBVIOUS
  <1>4. /\ \A x : x \in DueIn(s, o) <=> \E i \in 1..n : s[i].op = o /\ s[i].x = x
        /\ \A i, k \in 1..n : s[i].op = o /\ s[k].op = o /\ s[i].x = s[k].x => i = k
    BY DueIs
  <1> HIDE DEF t
  <1>5. /\ \A x : x \in DueIn(t, o) <=> \E i \in 1..(n + 1) : t[i].op = o /\ t[i].x = x
        /\ OnceIn(t, o) <=> \A i, k \in 1..(n + 1) : t[i].op = o /\ t[k].op = o /\ t[i].x = t[k].x => i = k
    BY <1>1, DueIs
  <1> HIDE DEF n
  <1>6. \A i \in 1..(n + 1) : (i \in 1..n /\ t[i] = s[i]) \/ (i = n + 1 /\ t[i] = r)
    BY <1>1, <1>2
  <1>7. OnceIn(t, o)
    <2>1. ASSUME NEW i \in 1..(n + 1), NEW k \in 1..(n + 1), t[i].op = o, t[k].op = o, t[i].x = t[k].x PROVE i = k
      <3>1. CASE i \in 1..n /\ t[i] = s[i] /\ k \in 1..n /\ t[k] = s[k]
        BY <1>4, <2>1, <3>1
      <3>2. CASE i \in 1..n /\ t[i] = s[i] /\ t[k] = r
        BY <1>4, <2>1, <3>2
      <3>3. CASE k \in 1..n /\ t[k] = s[k] /\ t[i] = r
        BY <1>4, <2>1, <3>3
      <3>4. CASE i = n + 1 /\ k = n + 1
        BY <3>4
      <3> QED BY <1>6, <3>1, <3>2, <3>3, <3>4
    <2> QED BY <1>5, <2>1
  <1>8. \A x \in DueIn(t, o) : x \in DueIn(s, o) \/ (r.op = o /\ x = r.x)
    BY <1>4, <1>5, <1>6
  <1>9. \A x \in DueIn(s, o) : x \in DueIn(t, o)
    <2>1. ASSUME NEW i \in 1..n, s[i].op = o PROVE s[i].x \in DueIn(t, o)
      <3>1. i \in 1..(n + 1) /\ t[i] = s[i]
        BY <1>1, <1>2 DEF n
      <3> QED BY <1>5, <2>1, <3>1
    <2> QED BY <1>4, <2>1
  <1>10. r.op = o => r.x \in DueIn(t, o)
    <2>1. n + 1 \in 1..(n + 1) /\ t[n + 1] = r
      BY <1>1, <1>2 DEF n
    <2> QED BY <1>5, <2>1
  <1>11. \A x : x \in DueIn(t, o) <=> x \in DueIn(s, o) \/ (r.op = o /\ x = r.x)
    BY <1>8, <1>9, <1>10
  <1> QED BY <1>1, <1>7, <1>11 DEF t

\* The k numbers after n, and what is due when t is s and reactions of p to them.
Fresh(n, k) == (n + 1)..(n + k)
Comes(s, t, o, p, new) == DueIn(t, o) = IF p = o THEN DueIn(s, o) \cup new ELSE DueIn(s, o)

\* Reactions of one op come, to a run of subjects none of which is due.
LEMMA DueJobs ==
    ASSUME NEW S, NEW s \in Seq(S), NEW k \in Nat, NEW n \in Nat, NEW p, NEW o, OnceIn(s, o),
           p = o => \A x \in DueIn(s, o) : x \notin Fresh(n, k),
           NEW J, NEW jobs \in Seq(J), Len(jobs) = k, \A i \in 1..k : jobs[i].op = p /\ jobs[i].x = n + i
    PROVE  /\ OnceIn(s \o jobs, o)
           /\ Comes(s, s \o jobs, o, p, Fresh(n, k))
           /\ s \o jobs \in Seq(S \cup J)
  <1>1. Fresh(n, k) = (n + 1)..(n + k)
    BY DEF Fresh
  <1> DEFINE t == s \o jobs
             m == Len(s)
  <1>3. s \in Seq(S \cup J) /\ jobs \in Seq(S \cup J)
    BY SeqWider
  <1>4. /\ t \in Seq(S \cup J) /\ Len(t) = m + k
        /\ \A i \in 1..m : t[i] = s[i]
        /\ \A j \in 1..k : t[m + j] = jobs[j]
    <2>1. /\ t \in Seq(S \cup J) /\ Len(t) = m + Len(jobs)
          /\ \A i \in 1..m : t[i] = s[i]
          /\ \A j \in 1..Len(jobs) : t[m + j] = jobs[j]
      <3>1. \A a, b \in Seq(S \cup J) : /\ a \o b \in Seq(S \cup J) /\ Len(a \o b) = Len(a) + Len(b)
                                        /\ \A i \in 1..Len(a) : (a \o b)[i] = a[i]
                                        /\ \A i \in 1..Len(b) : (a \o b)[Len(a) + i] = b[i]
        BY ConcatFacts
      <3> QED BY <1>3, <3>1
    <2> QED BY <2>1
  <1>5. m \in Nat
    OBVIOUS
  <1>6. /\ \A x : x \in DueIn(s, o) <=> \E i \in 1..m : s[i].op = o /\ s[i].x = x
        /\ \A i, l \in 1..m : s[i].op = o /\ s[l].op = o /\ s[i].x = s[l].x => i = l
    BY DueIs
  <1> HIDE DEF t
  <1>7. /\ \A x : x \in DueIn(t, o) <=> \E i \in 1..(m + k) : t[i].op = o /\ t[i].x = x
        /\ OnceIn(t, o) <=> \A i, l \in 1..(m + k) : t[i].op = o /\ t[l].op = o /\ t[i].x = t[l].x => i = l
    <2>1. /\ \A x : x \in DueIn(t, o) <=> \E i \in 1..Len(t) : t[i].op = o /\ t[i].x = x
          /\ OnceIn(t, o) <=> \A i, l \in 1..Len(t) : t[i].op = o /\ t[l].op = o /\ t[i].x = t[l].x => i = l
      <3>1. \A u \in Seq(S \cup J) :
                /\ \A x : x \in DueIn(u, o) <=> \E i \in 1..Len(u) : u[i].op = o /\ u[i].x = x
                /\ OnceIn(u, o) <=> \A i, l \in 1..Len(u) : u[i].op = o /\ u[l].op = o /\ u[i].x = u[l].x => i = l
        BY DueIs
      <3> QED BY <1>4, <3>1
    <2>2. Len(t) = m + k
      BY <1>4
    <2> QED BY <2>1, <2>2
  <1> HIDE DEF m
  <1>8. \A i \in 1..(m + k) : \/ i \in 1..m /\ t[i] = s[i]
                              \/ i - m \in 1..k /\ t[i].op = p /\ t[i].x = n + (i - m)
    <2>1. ASSUME NEW i \in 1..(m + k), i > m PROVE i - m \in 1..k /\ t[i].op = p /\ t[i].x = n + (i - m)
      <3>1. PICK j \in 1..k : i = m + j
        <4>1. i - m \in 1..k /\ i = m + (i - m)
          BY <1>5, <2>1
        <4> QED BY <4>1
      <3>2. t[i] = jobs[j] /\ i - m = j
        BY <1>4, <1>5, <3>1 DEF m
      <3> QED BY <3>1, <3>2
    <2>2. ASSUME NEW i \in 1..(m + k), ~(i > m) PROVE i \in 1..m /\ t[i] = s[i]
      BY <1>4, <1>5, <2>2 DEF m
    <2> QED BY <2>1, <2>2
  <1>9. OnceIn(t, o)
    <2>1. ASSUME NEW i \in 1..(m + k), NEW l \in 1..(m + k), t[i].op = o, t[l].op = o, t[i].x = t[l].x PROVE i = l
      <3>0. \A j \in 1..(m + k) : j - m \in 1..k => n + (j - m) \in (n + 1)..(n + k)
        BY <1>5
      <3>1. CASE i \in 1..m /\ t[i] = s[i] /\ l \in 1..m /\ t[l] = s[l]
        BY <1>6, <2>1, <3>1
      <3>2. CASE i \in 1..m /\ t[i] = s[i] /\ l - m \in 1..k /\ t[l].op = p /\ t[l].x = n + (l - m)
        <4>1. t[l].x \in DueIn(s, o) /\ t[l].x \in (n + 1)..(n + k) /\ p = o
          BY <1>6, <2>1, <3>0, <3>2
        <4> QED BY <1>1, <4>1
      <3>3. CASE l \in 1..m /\ t[l] = s[l] /\ i - m \in 1..k /\ t[i].op = p /\ t[i].x = n + (i - m)
        <4>1. t[i].x \in DueIn(s, o) /\ t[i].x \in (n + 1)..(n + k) /\ p = o
          BY <1>6, <2>1, <3>0, <3>3
        <4> QED BY <1>1, <4>1
      <3>4. CASE t[i].x = n + (i - m) /\ t[l].x = n + (l - m)
        <4>1. n + (i - m) = n + (l - m)
          BY <2>1, <3>4
        <4>2. i \in Int /\ l \in Int
          BY <1>5
        <4> QED BY <1>5, <4>1, <4>2
      <3> QED BY <1>8, <3>1, <3>2, <3>3, <3>4
    <2> QED BY <1>7, <2>1
  <1>10. \A x \in DueIn(t, o) : x \in DueIn(s, o) \/ (p = o /\ x \in (n + 1)..(n + k))
    <2>1. ASSUME NEW i \in 1..(m + k), t[i].op = o
          PROVE  t[i].x \in DueIn(s, o) \/ (p = o /\ t[i].x \in (n + 1)..(n + k))
      <3>1. CASE i \in 1..m /\ t[i] = s[i]
        BY <1>6, <2>1, <3>1
      <3>2. CASE i - m \in 1..k /\ t[i].op = p /\ t[i].x = n + (i - m)
        <4>1. n + (i - m) \in (n + 1)..(n + k)
          BY <1>5, <3>2
        <4> QED BY <2>1, <3>2, <4>1
      <3> QED BY <1>8, <3>1, <3>2
    <2> QED BY <1>7, <2>1
  <1>11. \A x \in DueIn(s, o) : x \in DueIn(t, o)
    <2>1. ASSUME NEW i \in 1..m, s[i].op = o PROVE s[i].x \in DueIn(t, o)
      <3>1. i \in 1..(m + k) /\ t[i] = s[i]
        BY <1>4, <1>5 DEF m
      <3> QED BY <1>7, <2>1, <3>1
    <2> QED BY <1>6, <2>1
  <1>12. ASSUME p = o, NEW x \in (n + 1)..(n + k) PROVE x \in DueIn(t, o)
    <2>1. PICK j \in 1..k : x = n + j
      <3>1. x - n \in 1..k /\ x = n + (x - n)
        OBVIOUS
      <3> QED BY <3>1
    <2>2. m + j \in 1..(m + k) /\ t[m + j] = jobs[j]
      BY <1>4, <1>5 DEF m
    <2> QED BY <1>7, <1>12, <2>1, <2>2
  <1>13. \A x : x \in DueIn(t, o) <=> x \in DueIn(s, o) \/ (p = o /\ x \in Fresh(n, k))
    BY <1>1, <1>10, <1>11, <1>12
  <1>14. Comes(s, t, o, p, Fresh(n, k))
    BY <1>13 DEF Comes
  <1> QED BY <1>4, <1>9, <1>14 DEF t

\* The reactions of the facilities that call what user code hands over.
CallOp == {"call", "settled", "item", "mapped", "run", "attempt", "tried"}

QueueOf(s) == (\E S : s \in Seq(S)) /\ \A o \in CallOp : OnceIn(s, o)
Due(o) == DueIn(micro, o)

\* The head of the queue goes.
LEMMA QueuePop ==
    ASSUME NEW s, QueueOf(s), s # <<>>
    PROVE  /\ QueueOf(Tail(s))
           /\ Head(s).op \in CallOp => Head(s).x \in DueIn(s, Head(s).op)
           /\ \A o \in CallOp : DueIn(Tail(s), o) = IF Head(s).op = o THEN DueIn(s, o) \ {Head(s).x} ELSE DueIn(s, o)
  <1>1. PICK S : s \in Seq(S)
    BY DEF QueueOf
  <1>2. Tail(s) \in Seq(S)
    BY <1>1, TailFacts
  <1>3. ASSUME NEW o \in CallOp
        PROVE  /\ OnceIn(Tail(s), o)
               /\ Head(s).op = o => Head(s).x \in DueIn(s, o)
               /\ DueIn(Tail(s), o) = IF Head(s).op = o THEN DueIn(s, o) \ {Head(s).x} ELSE DueIn(s, o)
    <2>1. OnceIn(s, o)
      BY DEF QueueOf
    <2> QED BY <1>1, <2>1, DuePop
  <1>4. QueueOf(Tail(s))
    BY <1>2, <1>3 DEF QueueOf
  <1> QED BY <1>3, <1>4

\* A reaction comes.
LEMMA QueueAdd ==
    ASSUME NEW s, QueueOf(s), NEW r, r.op \in CallOp => r.x \notin DueIn(s, r.op)
    PROVE  /\ QueueOf(Append(s, r))
           /\ \A o \in CallOp : DueIn(Append(s, r), o) = IF r.op = o THEN DueIn(s, o) \cup {r.x} ELSE DueIn(s, o)
  <1>1. PICK S : s \in Seq(S)
    BY DEF QueueOf
  <1>3. ASSUME NEW o \in CallOp
        PROVE  /\ OnceIn(Append(s, r), o)
               /\ DueIn(Append(s, r), o) = IF r.op = o THEN DueIn(s, o) \cup {r.x} ELSE DueIn(s, o)
               /\ Append(s, r) \in Seq(S \cup {r})
    <2> DEFINE D == DueIn(Append(s, r), o)
               E == DueIn(s, o)
    <2>1. OnceIn(s, o) /\ (r.op = o => r.x \notin DueIn(s, o))
      BY DEF QueueOf
    <2>2. /\ OnceIn(Append(s, r), o) /\ Append(s, r) \in Seq(S \cup {r})
          /\ \A x : x \in D <=> x \in E \/ (r.op = o /\ x = r.x)
      BY <1>1, <2>1, DueAdd
    <2> HIDE DEF D, E
    <2>3. D = IF r.op = o THEN E \cup {r.x} ELSE E
      BY <2>2
    <2> QED BY <2>2, <2>3 DEF D, E
  <1>4. Append(s, r) \in Seq(S \cup {r})
    <2>1. "call" \in CallOp
      BY DEF CallOp
    <2> QED BY <1>3, <2>1
  <1>5. QueueOf(Append(s, r))
    BY <1>3, <1>4 DEF QueueOf
  <1> QED BY <1>3, <1>5

\* No reaction comes.
LEMMA QueueNone ==
    ASSUME NEW s, QueueOf(s)
    PROVE  s \o <<>> = s
  <1>1. PICK S : s \in Seq(S)
    BY DEF QueueOf
  <1> QED BY <1>1

\* One reaction comes as a sequence of one.
LEMMA QueueOne ==
    ASSUME NEW s, QueueOf(s), NEW r
    PROVE  s \o [i \in 1..1 |-> r] = Append(s, r)
  <1>1. PICK S : s \in Seq(S)
    BY DEF QueueOf
  <1>2. s \in Seq(S \cup {r}) /\ r \in S \cup {r}
    BY <1>1, SeqWider
  <1>3. [i \in 1..1 |-> r] \in Seq(S \cup {r}) /\ Len([i \in 1..1 |-> r]) = 1 /\ [i \in 1..1 |-> r][1] = r
    BY <1>2
  <1> DEFINE one == [i \in 1..1 |-> r]
             a == s \o one
             b == Append(s, r)
  <1>4. one \in Seq(S \cup {r}) /\ Len(one) = 1 /\ one[1] = r
    BY <1>3
  <1> HIDE DEF one
  <1>5. /\ a \in Seq(S \cup {r}) /\ Len(a) = Len(s) + 1 /\ \A i \in 1..Len(s) : a[i] = s[i]
        /\ a[Len(s) + 1] = r
    <2>1. \A u, w \in Seq(S \cup {r}) : /\ u \o w \in Seq(S \cup {r}) /\ Len(u \o w) = Len(u) + Len(w)
                                        /\ \A i \in 1..Len(u) : (u \o w)[i] = u[i]
                                        /\ \A i \in 1..Len(w) : (u \o w)[Len(u) + i] = w[i]
      BY ConcatFacts
    <2> QED BY <1>2, <1>4, <2>1
  <1>6. /\ b \in Seq(S \cup {r}) /\ Len(b) = Len(s) + 1 /\ \A i \in 1..Len(s) : b[i] = s[i]
        /\ b[Len(s) + 1] = r
    BY <1>2, AppendFacts
  <1>7. Len(s) \in Nat
    BY <1>1
  <1> HIDE DEF a, b
  <1>8. \A i \in 1..Len(a) : a[i] = b[i]
    <2>1. \A i \in 1..(Len(s) + 1) : i \in 1..Len(s) \/ i = Len(s) + 1
      BY <1>7
    <2> QED BY <1>5, <1>6, <2>1
  <1>9. a = b
    BY <1>5, <1>6, <1>8, SeqEqual
  <1> QED BY <1>9 DEF a, b, one

\* A run of reactions comes.
LEMMA QueueJobs ==
    ASSUME NEW s, QueueOf(s), NEW k \in Nat, NEW n \in Nat, NEW p \in CallOp, \A x \in DueIn(s, p) : x \notin Fresh(n, k)
    PROVE  LET t == s \o [i \in 1..k |-> Reaction(p, n + i, TRUE)]
           IN /\ QueueOf(t)
              /\ \A o \in CallOp : Comes(s, t, o, p, Fresh(n, k))
  <1> DEFINE jobs == [i \in 1..k |-> Reaction(p, n + i, TRUE)]
             J == {jobs[i] : i \in 1..k}
  <1>1. PICK S : s \in Seq(S)
    BY DEF QueueOf
  <1>2. \A i \in 1..k : jobs[i].op = p /\ jobs[i].x = n + i
    BY DEF Reaction
  <1>3. jobs = [i \in 1..k |-> jobs[i]]
    OBVIOUS
  <1> HIDE DEF jobs
  <1>4. jobs \in Seq(J) /\ Len(jobs) = k
    BY <1>3
  <1> HIDE DEF J
  <1>5. ASSUME NEW o \in CallOp
        PROVE  /\ OnceIn(s \o jobs, o)
               /\ Comes(s, s \o jobs, o, p, Fresh(n, k))
               /\ s \o jobs \in Seq(S \cup J)
    <2>1. OnceIn(s, o) /\ (p = o => \A x \in DueIn(s, o) : x \notin Fresh(n, k))
      BY DEF QueueOf
    <2>2. /\ OnceIn(s \o jobs, o) /\ s \o jobs \in Seq(S \cup J)
          /\ Comes(s, s \o jobs, o, p, Fresh(n, k))
      <3>1. OnceIn(s \o jobs, o)
        BY <1>1, <1>2, <1>4, <2>1, DueJobs
      <3>2. s \o jobs \in Seq(S \cup J)
        BY <1>1, <1>4, SeqWider
      <3>3. Comes(s, s \o jobs, o, p, Fresh(n, k))
        BY <1>1, <1>2, <1>4, <2>1, DueJobs
      <3> QED BY <3>1, <3>2, <3>3
    <2> QED BY <2>2
  <1>6. QueueOf(s \o jobs)
    <2>1. "call" \in CallOp
      BY DEF CallOp
    <2> QED BY <1>5, <2>1 DEF QueueOf
  <1> QED BY <1>5, <1>6 DEF jobs

\* A reaction of op o is taken from the queue of promise jobs.
LEMMA QueueTakes ==
    ASSUME QueueOf(micro), NEW o \in CallOp, Next_(o)
    PROVE  /\ QueueOf(Tail(micro)) /\ Subject \in Due(o) /\ DueIn(Tail(micro), o) = Due(o) \ {Subject}
           /\ \A p \in CallOp : p # o => DueIn(Tail(micro), p) = Due(p)
  <1>1. micro # <<>> /\ Head(micro).op = o 
    BY DEF Next_
  <1> DEFINE h == Subject
  <1>2. /\ QueueOf(Tail(micro)) /\ h \in Due(o)
        /\ \A p \in CallOp : DueIn(Tail(micro), p) = IF o = p THEN Due(p) \ {h} ELSE Due(p)
    BY <1>1, QueuePop DEF Due, Subject
  <1> HIDE DEF h
  <1>3. DueIn(Tail(micro), o) = Due(o) \ {h}
    BY <1>1, <1>2
  <1>4. \A p \in CallOp : p # o => DueIn(Tail(micro), p) = Due(p)
    BY <1>2
  <1> QED BY <1>2, <1>3, <1>4 DEF h


-----------------------------------------------------------------------------
(* debounce and throttle *)

\* The last call has run, waits or was cancelled; none that ran is waiting; and
\* a call that was cancelled and is still the last has no timer.
RateShape(r) ==
    /\ DOMAIN r = {"last", "t", "due", "clock", "calls", "ran", "dropped"}
    /\ r.last \in Int /\ r.due \in Int /\ r.clock \in Int
    /\ r.t \in Nat /\ r.calls \in Nat /\ r.dropped \in Nat
    /\ r.ran \in Seq(Nat)

RateInv ==
    /\ RateShape(rate)
    /\ rate.t <= rate.calls /\ rate.dropped <= rate.calls
    /\ \A i \in DOMAIN rate.ran : rate.ran[i] <= rate.calls /\ rate.ran[i] # rate.t /\ rate.ran[i] # 0
    /\ rate.calls # 0 /\ rate.dropped = rate.calls => rate.t = 0
    /\ rate.calls = 0 \/ rate.calls \in {rate.t, rate.dropped}
          \/ \E i \in DOMAIN rate.ran : rate.ran[i] = rate.calls
    /\ \A i, k \in DOMAIN rate.ran : rate.ran[i] = rate.ran[k] => i = k

\* One more call has run.
LEMMA RanFacts ==
    ASSUME NEW s \in Seq(Nat), NEW c \in Nat, \A i \in DOMAIN s : s[i] # c,
           \A i, k \in DOMAIN s : s[i] = s[k] => i = k
    PROVE  /\ Append(s, c) \in Seq(Nat)
           /\ \E i \in DOMAIN Append(s, c) : Append(s, c)[i] = c
           /\ \A i \in DOMAIN s : \E k \in DOMAIN Append(s, c) : Append(s, c)[k] = s[i]
           /\ \A i \in DOMAIN Append(s, c) : Append(s, c)[i] = c \/ \E k \in DOMAIN s : Append(s, c)[i] = s[k]
           /\ \A i, k \in DOMAIN Append(s, c) : Append(s, c)[i] = Append(s, c)[k] => i = k
  <1> DEFINE t == Append(s, c)
  <1>1. /\ t \in Seq(Nat) /\ Len(t) = Len(s) + 1 /\ t[Len(s) + 1] = c /\ \A i \in 1..Len(s) : t[i] = s[i]
    BY AppendFacts
  <1>2. DOMAIN s = 1..Len(s) /\ Len(s) \in Nat
    OBVIOUS
  <1> HIDE DEF t
  <1>3. DOMAIN t = 1..(Len(s) + 1)
    BY <1>1
  <1>4. \A i \in DOMAIN t : (i \in DOMAIN s /\ t[i] = s[i]) \/ (i = Len(s) + 1 /\ t[i] = c)
    BY <1>1, <1>2, <1>3
  <1>5. \A i \in DOMAIN s : i \in DOMAIN t /\ t[i] = s[i]
    BY <1>1, <1>2, <1>3
  <1>6. Len(s) + 1 \in DOMAIN t
    BY <1>2, <1>3
  <1>7. \A i, k \in DOMAIN t : t[i] = t[k] => i = k
    BY <1>4
  <1> QED BY <1>1, <1>4, <1>5, <1>6, <1>7 DEF t

\* A step that runs call c and leaves the timer alone or takes it away.
LEMMA RateRuns ==
    ASSUME RateInv, NEW c \in Nat, c # 0, RateShape(rate'), rate'.ran = Append(rate.ran, c),
           rate'.dropped = rate.dropped, rate'.t \in {0, rate.t}, rate'.t # c,
           \/ c = rate.calls + 1 /\ rate'.calls = c
           \/ c = rate.t /\ rate'.calls = rate.calls
    PROVE  RateInv'
  <1>1. /\ rate.calls \in Nat /\ rate.dropped \in Nat /\ rate.t \in Nat /\ rate.ran \in Seq(Nat)
        /\ rate'.calls \in Nat /\ rate'.t \in Nat /\ rate'.ran \in Seq(Nat)
    BY DEF RateInv, RateShape
  <1>2. /\ \A i \in DOMAIN rate.ran : rate.ran[i] \in Nat /\ rate.ran[i] <= rate.calls
        /\ \A i \in DOMAIN rate.ran : rate.ran[i] # rate.t /\ rate.ran[i] # 0
        /\ rate.t <= rate.calls /\ rate.dropped <= rate.calls
        /\ rate.calls # 0 /\ rate.dropped = rate.calls => rate.t = 0
    BY <1>1 DEF RateInv
  <1>3. \A i \in DOMAIN rate.ran : rate.ran[i] # c
    BY <1>1, <1>2
  <1>4. \A i, k \in DOMAIN rate.ran : rate.ran[i] = rate.ran[k] => i = k
    BY DEF RateInv
  <1> DEFINE old == rate.ran
             new == rate'.ran
  <1>5. /\ \E i \in DOMAIN new : new[i] = c
        /\ \A i \in DOMAIN old : \E k \in DOMAIN new : new[k] = old[i]
        /\ \A i \in DOMAIN new : new[i] = c \/ \E k \in DOMAIN old : new[i] = old[k]
        /\ \A i, k \in DOMAIN new : new[i] = new[k] => i = k
    <2>1. old \in Seq(Nat) /\ new = Append(old, c)
      BY <1>1
    <2>2. (\A i \in DOMAIN old : old[i] # c) /\ \A i, k \in DOMAIN old : old[i] = old[k] => i = k
      BY <1>3, <1>4
    <2> HIDE DEF old, new
    <2> DEFINE Grown(u, w) ==
                   /\ \E i \in DOMAIN w : w[i] = c
                   /\ \A i \in DOMAIN u : \E k \in DOMAIN w : w[k] = u[i]
                   /\ \A i \in DOMAIN w : w[i] = c \/ \E k \in DOMAIN u : w[i] = u[k]
                   /\ \A i, k \in DOMAIN w : w[i] = w[k] => i = k
    <2>3. Grown(old, Append(old, c))
      BY <2>1, <2>2, RanFacts
    <2>4. Grown(old, new)
      BY <2>1, <2>3
    <2> QED BY <2>4
  <1>6. \A i \in DOMAIN new : new[i] <= rate'.calls /\ new[i] # rate'.t /\ new[i] # 0
    <2>1. \A k \in DOMAIN old : old[k] <= rate'.calls /\ old[k] # rate'.t /\ old[k] # 0
      BY <1>1, <1>2
    <2>2. c <= rate'.calls
      BY <1>1, <1>2
    <2> HIDE DEF old, new
    <2> QED BY <1>5, <2>1, <2>2
  <1>7. /\ rate'.t <= rate'.calls /\ rate'.dropped <= rate'.calls
        /\ rate'.calls # 0 /\ rate'.dropped = rate'.calls => rate'.t = 0
    BY <1>1, <1>2
  <1>8. rate'.calls = 0 \/ rate'.calls \in {rate'.t, rate'.dropped} \/ \E i \in DOMAIN new : new[i] = rate'.calls
    <2>1. CASE rate'.calls = c
      BY <1>5, <2>1
    <2>2. CASE c = rate.t /\ rate'.calls = rate.calls
      <3>1. rate.calls = 0 \/ rate.calls \in {c, rate.dropped} \/ \E i \in DOMAIN old : old[i] = rate.calls
        BY <2>2 DEF RateInv
      <3> HIDE DEF old, new
      <3> QED BY <1>5, <2>2, <3>1
    <2> QED BY <2>1, <2>2
  <1> QED BY <1>5, <1>6, <1>7, <1>8 DEF RateInv

\* Every step of the two.
LEMMA RateKeeps ==
    ASSUME RateInv, debounce \/ throttle \/ RateFires \/ cancel \/ Tick
    PROVE  RateInv'
  <1>0. RateShape(rate) /\ Window \in Nat
    BY AsyncAssumption DEF RateInv, AsyncAssumption
  <1>1. ASSUME NEW ms \in Int, rate' = SetTimeout([rate EXCEPT !.calls = @ + 1], ms) PROVE RateInv'
    <2>1. /\ RateShape(rate') /\ rate'.t = rate.calls + 1 /\ rate'.calls = rate.calls + 1
          /\ rate'.ran = rate.ran /\ rate'.dropped = rate.dropped
      BY <1>0, <1>1 DEF SetTimeout, RateShape
    <2>2. rate.calls \in Nat /\ rate.dropped \in Nat /\ \A i \in DOMAIN rate.ran : rate.ran[i] \in Nat
      BY <1>0 DEF RateShape
    <2>3. \A i \in DOMAIN rate.ran : rate.ran[i] <= rate.calls /\ rate.ran[i] # 0
      BY DEF RateInv
    <2>4. \A i \in DOMAIN rate.ran : rate.ran[i] <= rate.calls + 1 /\ rate.ran[i] # rate.calls + 1 /\ rate.ran[i] # 0
      BY <2>2, <2>3
    <2>5. rate.dropped <= rate.calls /\ \A i, k \in DOMAIN rate.ran : rate.ran[i] = rate.ran[k] => i = k
      BY DEF RateInv
    <2> QED BY <2>1, <2>2, <2>4, <2>5 DEF RateInv
  <1>3. CASE debounce
    BY <1>0, <1>1, <1>3 DEF debounce
  <1>4. CASE throttle
    <2> DEFINE remain == Window - (rate.clock - rate.last)
               r == [rate EXCEPT !.calls = @ + 1]
    <2>1. remain \in Int
      BY <1>0 DEF RateShape
    <2>2. CASE rate' = SetTimeout(r, remain)
      BY <1>1, <2>1, <2>2
    <2>3. CASE rate' = Ran([r EXCEPT !.last = rate.clock], r.calls)
      <3> DEFINE c == rate.calls + 1
      <3>1. c \in Nat /\ rate.t <= rate.calls /\ rate.t \in Nat
        BY <1>0 DEF RateShape, RateInv
      <3>2. rate.ran \in Seq(Nat) /\ r.calls = c
        BY <1>0 DEF RateShape
      <3>3. Append(rate.ran, c) \in Seq(Nat)
        BY <3>1, <3>2
      <3>4. RateShape(rate') /\ rate'.ran = Append(rate.ran, c) /\ rate'.t = rate.t
            /\ rate'.dropped = rate.dropped /\ rate'.calls = c
        BY <1>0, <2>3, <3>1, <3>2, <3>3 DEF Ran, RateShape
      <3>5. c # 0 /\ rate'.t # c
        BY <1>0, <3>1, <3>4 DEF RateShape
      <3> QED BY <3>1, <3>4, <3>5, RateRuns
    <2> QED BY <1>4, <2>2, <2>3 DEF throttle
  <1>5. CASE RateFires
    <2>1. rate' = Ran(Fires(rate), rate.t) /\ rate.t # 0
      BY <1>5 DEF RateFires
    <2>2. rate.t \in Nat /\ rate.ran \in Seq(Nat) /\ Append(rate.ran, rate.t) \in Seq(Nat)
      BY <1>0 DEF RateShape
    <2>3. RateShape(rate') /\ rate'.ran = Append(rate.ran, rate.t) /\ rate'.t = 0
          /\ rate'.dropped = rate.dropped /\ rate'.calls = rate.calls
      BY <1>0, <2>1, <2>2 DEF Ran, Fires, RateShape
    <2> QED BY <2>1, <2>2, <2>3, RateRuns
  <1>6. CASE cancel
    <2>1. /\ RateShape(rate') /\ rate'.t = 0 /\ rate'.dropped = rate.t /\ rate.t # 0 /\ rate'.calls = rate.calls
          /\ rate'.ran = rate.ran
      BY <1>0, <1>6 DEF cancel, RateShape
    <2>2. rate.calls \in Nat /\ rate.t \in Nat
      BY <1>0 DEF RateShape
    <2> QED BY <2>1, <2>2 DEF RateInv
  <1>7. CASE Tick
    <2>1. /\ RateShape(rate') /\ rate'.t = rate.t /\ rate'.dropped = rate.dropped /\ rate'.calls = rate.calls
          /\ rate'.ran = rate.ran
      BY <1>0, <1>7 DEF Tick, RateShape
    <2> QED BY <2>1 DEF RateInv
  <1> QED BY <1>3, <1>4, <1>5, <1>6, <1>7

-----------------------------------------------------------------------------
(* retry *)

RtShape(r) ==
    /\ DOMAIN r = {"pc", "attempt", "calls"} /\ r.attempt \in Nat /\ r.calls \in Nat
    /\ r.pc \in {"idle", "pending", "running", "settling", "backoff", "resolved", "rejected"}

\* The attempts called are those that were counted, and one more from its
\* call to its outcome.
RtCounts(r) ==
    /\ r.attempt <= Retries /\ r.calls <= r.attempt + 1
    /\ r.pc \in {"idle", "pending", "backoff"} => r.calls = r.attempt
    /\ r.pc \in {"running", "settling"} => r.calls = r.attempt + 1

\* What is in the queue for a retry: the next attempt, at once or after one more
\* turn, or the outcome of the last, and never two of these.
RtDue(r, run, attempt, tried) ==
    /\ run \subseteq {0} /\ attempt \subseteq {0} /\ tried \subseteq {0}
    /\ run # {} \/ attempt # {} => r.pc = "pending"
    /\ tried # {} => r.pc = "settling"
    /\ run = {} \/ attempt = {}

RtInv ==
    /\ RtShape(rt) /\ RtCounts(rt)
    /\ RtDue(rt, Due("run"), Due("attempt"), Due("tried"))

\* A step of retry moves its own reactions only.
RtMoves == QueueOf(micro') /\ \A o \in {"call", "settled", "item", "mapped"} : Due(o)' = Due(o)

\* An attempt or its outcome comes into a queue without any.
LEMMA RtAdds ==
    ASSUME NEW s, QueueOf(s), NEW o \in {"run", "attempt", "tried"}, NEW ok, DueIn(s, o) = {},
           micro' = Append(s, Reaction(o, 0, ok))
    PROVE  /\ QueueOf(micro') /\ Due(o)' = {0}
           /\ \A p \in CallOp : p # o => Due(p)' = DueIn(s, p)
  <1> DEFINE r == Reaction(o, 0, ok)
  <1>1. r.op = o /\ r.x = 0
    BY DEF Reaction
  <1>2. micro' = Append(s, r)
    OBVIOUS
  <1> HIDE DEF r
  <1>3. o \in CallOp
    BY DEF CallOp
  <1>4. r.op \in CallOp => r.x \notin DueIn(s, r.op)
    BY <1>1
  <1>5. /\ QueueOf(Append(s, r))
        /\ \A p \in CallOp : DueIn(Append(s, r), p) = IF r.op = p THEN DueIn(s, p) \cup {r.x} ELSE DueIn(s, p)
    BY <1>4, QueueAdd
  <1>6. /\ \A p \in CallOp : p # o => DueIn(Append(s, r), p) = DueIn(s, p)
        /\ DueIn(Append(s, r), o) = {0}
    <2>1. \A p \in CallOp : p # o => DueIn(Append(s, r), p) = DueIn(s, p)
      BY <1>1, <1>5
    <2>2. DueIn(Append(s, r), o) = DueIn(s, o) \cup {0}
      BY <1>1, <1>3, <1>5
    <2> QED BY <2>1, <2>2
  <1> QED BY <1>2, <1>5, <1>6 DEF Due

\* An attempt or its outcome is taken from the queue.
LEMMA RtTakes ==
    ASSUME QueueOf(micro), RtInv, NEW o \in {"run", "attempt", "tried"}, Next_(o)
    PROVE  /\ QueueOf(Tail(micro)) /\ 0 \in Due(o) /\ DueIn(Tail(micro), o) = {}
           /\ \A p \in CallOp : p # o => DueIn(Tail(micro), p) = Due(p)
  <1>1. /\ QueueOf(Tail(micro)) /\ Subject \in Due(o) /\ DueIn(Tail(micro), o) = Due(o) \ {Subject}
        /\ \A p \in CallOp : p # o => DueIn(Tail(micro), p) = Due(p)
    <2>1. o \in CallOp
      BY DEF CallOp
    <2> QED BY <2>1, QueueTakes
  <1>2. Due(o) \subseteq {0}
    BY DEF RtInv, RtDue
  <1> QED BY <1>1, <1>2

\* Every step of retry.
LEMMA RtKeeps ==
    ASSUME QueueOf(micro), RtInv,
           \/ retry \/ RetryRuns \/ RetryCalls \/ (\E ok \in BOOLEAN : AttemptSettles(ok)) \/ RetrySettles \/ BackoffEnds
    PROVE  RtInv' /\ RtMoves
  <1>0. /\ RtShape(rt) /\ Retries \in Nat /\ RtCounts(rt) /\ RtDue(rt, Due("run"), Due("attempt"), Due("tried"))
        /\ {"run", "attempt", "tried", "call", "settled", "item", "mapped"} \subseteq CallOp
    BY AsyncAssumption DEF RtInv, AsyncAssumption, CallOp
  <1>1. ASSUME RtShape(rt'), RtCounts(rt'), RtDue(rt', Due("run")', Due("attempt")', Due("tried")') PROVE RtInv'
    BY <1>1 DEF RtInv
  <1>2. CASE retry \/ BackoffEnds
    <2>1. /\ rt.pc \in {"idle", "backoff"} /\ rt' = [rt EXCEPT !.pc = "pending"]
          /\ micro' = Append(micro, Reaction("attempt", 0, TRUE))
      BY <1>2 DEF retry, BackoffEnds, Attempts
    <2>2. Due("run") = {} /\ Due("attempt") = {} /\ Due("tried") = {}
      BY <1>0, <2>1 DEF RtDue
    <2>3. /\ QueueOf(micro') /\ Due("attempt")' = {0}
          /\ \A p \in CallOp : p # "attempt" => Due(p)' = Due(p)
      BY <2>1, <2>2, RtAdds DEF Due
    <2>4. RtShape(rt') /\ RtCounts(rt') /\ rt'.pc = "pending"
      BY <1>0, <2>1 DEF RtShape, RtCounts
    <2>5. Due("run")' = {} /\ Due("tried")' = {}
      BY <1>0, <2>2, <2>3
    <2>6. RtDue(rt', Due("run")', Due("attempt")', Due("tried")')
      BY <2>3, <2>4, <2>5 DEF RtDue
    <2> QED BY <1>0, <1>1, <2>3, <2>4, <2>6 DEF RtMoves
  <1>3. CASE RetryRuns
    <2>1. Next_("run") /\ rt' = rt /\ micro' = Append(Tail(micro), Reaction("attempt", 0, TRUE))
      BY <1>3 DEF RetryRuns
    <2>2. /\ QueueOf(Tail(micro)) /\ 0 \in Due("run") /\ DueIn(Tail(micro), "run") = {}
          /\ \A p \in CallOp : p # "run" => DueIn(Tail(micro), p) = Due(p)
      BY <2>1, RtTakes
    <2>3. Due("attempt") = {} /\ Due("tried") = {} /\ rt.pc = "pending"
      BY <1>0, <2>2 DEF RtDue
    <2>4. DueIn(Tail(micro), "attempt") = {}
      BY <1>0, <2>2, <2>3
    <2>5. /\ QueueOf(micro') /\ Due("attempt")' = {0}
          /\ \A p \in CallOp : p # "attempt" => Due(p)' = DueIn(Tail(micro), p)
      BY <2>1, <2>2, <2>4, RtAdds
    <2>6. /\ Due("run")' = {} /\ Due("tried")' = {}
          /\ \A p \in {"call", "settled", "item", "mapped"} : Due(p)' = Due(p)
      BY <1>0, <2>2, <2>3, <2>5
    <2>7. RtDue(rt', Due("run")', Due("attempt")', Due("tried")')
      BY <2>1, <2>3, <2>5, <2>6 DEF RtDue
    <2> QED BY <1>0, <1>1, <2>1, <2>5, <2>6, <2>7 DEF RtMoves
  <1>4. CASE RetryCalls
    <2>1. Next_("attempt") /\ rt' = [rt EXCEPT !.pc = "running", !.calls = @ + 1] /\ micro' = Tail(micro)
      BY <1>4 DEF RetryCalls
    <2>2. /\ QueueOf(micro') /\ 0 \in Due("attempt") /\ Due("attempt")' = {}
          /\ \A p \in CallOp : p # "attempt" => Due(p)' = Due(p)
      BY <2>1, RtTakes DEF Due
    <2>3. Due("run") = {} /\ Due("tried") = {} /\ rt.pc = "pending"
      BY <1>0, <2>2 DEF RtDue
    <2>4. RtShape(rt') /\ RtCounts(rt')
      BY <1>0, <2>1, <2>3 DEF RtShape, RtCounts
    <2>5. /\ Due("run")' = {} /\ Due("tried")' = {}
          /\ \A p \in {"call", "settled", "item", "mapped"} : Due(p)' = Due(p)
      BY <1>0, <2>2, <2>3
    <2>6. RtDue(rt', Due("run")', Due("attempt")', Due("tried")')
      BY <2>2, <2>5 DEF RtDue
    <2> QED BY <1>1, <2>2, <2>4, <2>5, <2>6 DEF RtMoves
  <1>5. ASSUME NEW ok \in BOOLEAN, AttemptSettles(ok) PROVE RtInv' /\ RtMoves
    <2>1. /\ rt.pc = "running" /\ rt' = [rt EXCEPT !.pc = "settling"]
          /\ micro' = Append(micro, Reaction("tried", 0, ok))
      BY <1>5 DEF AttemptSettles
    <2>2. Due("run") = {} /\ Due("attempt") = {} /\ Due("tried") = {}
      BY <1>0, <2>1 DEF RtDue
    <2>3. /\ QueueOf(micro') /\ Due("tried")' = {0}
          /\ \A p \in CallOp : p # "tried" => Due(p)' = Due(p)
      BY <2>1, <2>2, RtAdds DEF Due
    <2>4. RtShape(rt') /\ RtCounts(rt') /\ rt'.pc = "settling"
      BY <1>0, <2>1 DEF RtShape, RtCounts
    <2>5. Due("run")' = {} /\ Due("attempt")' = {}
      BY <1>0, <2>2, <2>3
    <2>6. RtDue(rt', Due("run")', Due("attempt")', Due("tried")')
      BY <2>3, <2>4, <2>5 DEF RtDue
    <2> QED BY <1>0, <1>1, <2>3, <2>4, <2>6 DEF RtMoves
  <1>6. CASE RetrySettles
    <2>1. Next_("tried")
      BY <1>6 DEF RetrySettles
    <2>2. /\ QueueOf(Tail(micro)) /\ 0 \in Due("tried") /\ DueIn(Tail(micro), "tried") = {}
          /\ \A p \in CallOp : p # "tried" => DueIn(Tail(micro), p) = Due(p)
      BY <2>1, RtTakes
    <2>3. Due("run") = {} /\ Due("attempt") = {} /\ rt.pc = "settling"
      BY <1>0, <2>2 DEF RtDue
    <2>4. CASE micro' = Tail(micro) /\ RtShape(rt') /\ RtCounts(rt')
      <3>1. /\ QueueOf(micro') /\ Due("tried")' = {}
            /\ \A p \in CallOp : p # "tried" => Due(p)' = Due(p)
        BY <2>2, <2>4 DEF Due
      <3>2. Due("run")' = {} /\ Due("attempt")' = {}
        BY <1>0, <2>3, <3>1
      <3>3. RtDue(rt', Due("run")', Due("attempt")', Due("tried")')
        BY <3>1, <3>2 DEF RtDue
      <3> QED BY <1>0, <1>1, <2>4, <3>1, <3>3 DEF RtMoves
    <2> DEFINE n == [rt EXCEPT !.attempt = @ + 1]
    <2>5. CASE rt' \in {[rt EXCEPT !.pc = "resolved"], [rt EXCEPT !.pc = "rejected"]} /\ micro' = Tail(micro)
      <3>1. CASE rt' = [rt EXCEPT !.pc = "resolved"]
        <4>1. RtShape(rt') /\ RtCounts(rt')
          BY <1>0, <3>1 DEF RtShape, RtCounts
        <4> QED BY <2>4, <2>5, <4>1
      <3>2. CASE rt' = [rt EXCEPT !.pc = "rejected"]
        <4>1. RtShape(rt') /\ RtCounts(rt')
          BY <1>0, <3>2 DEF RtShape, RtCounts
        <4> QED BY <2>4, <2>5, <4>1
      <3> QED BY <2>5, <3>1, <3>2
    <2>6. CASE rt.attempt < Retries /\ rt' \in {[n EXCEPT !.pc = "rejected"], [n EXCEPT !.pc = "backoff"]} /\ micro' = Tail(micro)
      <3>1. CASE rt' = [n EXCEPT !.pc = "rejected"]
        <4>1. RtShape(rt') /\ RtCounts(rt')
          BY <1>0, <2>3, <2>6, <3>1 DEF RtShape, RtCounts
        <4> QED BY <2>4, <2>6, <4>1
      <3>2. CASE rt' = [n EXCEPT !.pc = "backoff"]
        <4>1. RtShape(rt') /\ RtCounts(rt')
          BY <1>0, <2>3, <2>6, <3>2 DEF RtShape, RtCounts
        <4> QED BY <2>4, <2>6, <4>1
      <3> QED BY <2>6, <3>1, <3>2
    <2>7. CASE /\ rt.attempt < Retries /\ rt' = [n EXCEPT !.pc = "pending"]
               /\ micro' = Append(Tail(micro), Reaction("run", 0, TRUE))
      <3>1. RtShape(rt') /\ RtCounts(rt') /\ rt'.pc = "pending"
        BY <1>0, <2>3, <2>7 DEF RtShape, RtCounts
      <3>2. DueIn(Tail(micro), "run") = {}
        BY <1>0, <2>2, <2>3
      <3>3. /\ QueueOf(micro') /\ Due("run")' = {0}
            /\ \A p \in CallOp : p # "run" => Due(p)' = DueIn(Tail(micro), p)
        BY <2>2, <2>7, <3>2, RtAdds
      <3>4. /\ Due("attempt")' = {} /\ Due("tried")' = {}
            /\ \A p \in {"call", "settled", "item", "mapped"} : Due(p)' = Due(p)
        BY <1>0, <2>2, <2>3, <3>3
      <3>5. RtDue(rt', Due("run")', Due("attempt")', Due("tried")')
        BY <3>1, <3>3, <3>4 DEF RtDue
      <3> QED BY <1>1, <3>1, <3>3, <3>4, <3>5 DEF RtMoves
    <2> QED BY <1>6, <2>5, <2>6, <2>7 DEF RetrySettles
  <1> QED BY <1>2, <1>3, <1>4, <1>5, <1>6

-----------------------------------------------------------------------------
(* Pool *)

PoolShape(p) ==
    /\ DOMAIN p = {"active", "q", "submitted", "frames", "running", "calls", "settled"}
    /\ p.active \in Int /\ p.submitted \in Nat
    /\ p.q \in Seq(Nat) /\ p.frames \in Seq(Nat) /\ p.running \in Seq(Nat)
    /\ p.calls \in [1..MaxJobs -> Nat] /\ p.settled \in [1..MaxJobs -> Nat]

\* The jobs are started in the order of their submission, each by a call of
\* _pump of its own: the variable that the closures share holds the job of the
\* frame.
JobLine(q, frames, running, submitted) ==
    /\ Len(running) = Len(frames)
    /\ Len(frames) + Len(q) = submitted /\ submitted <= MaxJobs
    /\ \A f \in 1..Len(frames) : frames[f] = f
    /\ \A i \in 1..Len(q) : q[i] = Len(frames) + i

PoolLine(p) == JobLine(p.q, p.frames, p.running, p.submitted)

\* No job waits beside a free slot.
PoolSlots(p) == p.active <= Slots /\ (p.q # <<>> => p.active = Slots)

\* A started job is to be called, runs, is to be settled, or is settled, and has
\* been called and settled accordingly.
Stage(f, due, running, done, calls, settled) ==
    \/ f \in due /\ f \notin done /\ running = 0 /\ calls = 0 /\ settled = 0
    \/ f \notin due /\ f \notin done /\ running = 1 /\ calls = 1 /\ settled = 0
    \/ f \notin due /\ f \in done /\ running = 0 /\ calls = 1 /\ settled = 0
    \/ f \notin due /\ f \notin done /\ running = 0 /\ calls = 1 /\ settled = 1

Stages(n, running, calls, settled, due, done) ==
    /\ due \subseteq 1..n /\ done \subseteq 1..n
    /\ \A f \in 1..n : Stage(f, due, running[f], done, calls[f], settled[f])
    /\ \A j \in 1..MaxJobs : j > n => calls[j] = 0 /\ settled[j] = 0

PoolStages(p, due, done) == Stages(Len(p.frames), p.running, p.calls, p.settled, due, done)

PoolInv ==
    /\ PoolShape(pool) /\ PoolLine(pool) /\ PoolSlots(pool)
    /\ PoolStages(pool, Due("call"), Due("settled"))

PoolMoves == QueueOf(micro') /\ \A o \in {"item", "mapped", "run", "attempt", "tried"} : Due(o)' = Due(o)

\* Started(p) is what p becomes when _pump starts one job.
Started(p) ==
    [p EXCEPT !.active = @ + 1, !.frames = Append(@, p.q[1]), !.running = Append(@, 0),
              !.q = SubSeq(@, 2, Len(@))]

\* With one slot free, or one job waiting, _pump starts one or none.
LEMMA PumpOne ==
    ASSUME NEW p, PoolShape(p), p.active <= Slots, Slots - p.active <= 1 \/ Len(p.q) <= 1
    PROVE  \/ /\ _pump(p).pool = p /\ _pump(p).jobs = <<>>
              /\ p.q = <<>> \/ p.active = Slots
           \/ /\ _pump(p).pool = Started(p) /\ p.q # <<>> /\ p.active < Slots
              /\ Slots - p.active = 1 \/ Len(p.q) = 1
              /\ _pump(p).jobs = [i \in 1..1 |-> Reaction("call", Len(p.frames) + 1, TRUE)]
  <1> DEFINE k == Least(Slots - p.active, Len(p.q))
  <1>0. Slots \in Nat /\ p.active \in Int /\ Len(p.q) \in Nat /\ (Len(p.q) = 0 <=> p.q = <<>>)
    BY AsyncAssumption DEF AsyncAssumption, PoolShape
  <1>1. /\ k \in Int /\ (k <= 0 => p.q = <<>> \/ p.active = Slots)
        /\ k > 0 => k = 1 /\ p.q # <<>> /\ p.active < Slots /\ (Slots - p.active = 1 \/ Len(p.q) = 1)
    <2>1. /\ Slots - p.active \in Int /\ Len(p.q) \in Nat
      BY <1>0
    <2>5. PICK a \in Int : a = Slots - p.active
      BY <2>1
    <2>6. PICK n \in Nat : n = Len(p.q)
      BY <2>1
    <2>2. k = IF a < n THEN a ELSE n
      <3>1. k = Least(a, n)
        BY <2>5, <2>6
      <3> QED BY <3>1 DEF Least
    <2>3. a >= 0 /\ (a <= 1 \/ n <= 1) /\ (n = 0 <=> p.q = <<>>) /\ (a = 0 <=> p.active = Slots) /\ (a > 0 <=> p.active < Slots)
      BY <1>0, <2>5, <2>6
    <2> HIDE DEF k
    <2>4. k \in Int /\ (k <= 0 => n = 0 \/ a = 0) /\ (k > 0 => k = 1 /\ n # 0 /\ a > 0 /\ (a = 1 \/ n = 1))
      BY <2>2, <2>3
    <2> QED BY <2>5, <2>6, <2>3, <2>4
  <1> DEFINE P(n) == [p EXCEPT !.active = @ + n, !.frames = Append(@, p.q[n]), !.running = Append(@, 0),
                               !.q = SubSeq(@, n + 1, Len(@))]
             J(n) == [i \in 1..n |-> Reaction("call", Len(p.frames) + 1, TRUE)]
  <1>2. _pump(p) = IF k <= 0 THEN [pool |-> p, jobs |-> <<>>] ELSE [pool |-> P(k), jobs |-> J(k)]
    BY DEF _pump
  <1>3. P(1) = Started(p)
    BY DEF Started
  <1> HIDE DEF k, P, J
  <1>4. CASE k <= 0
    <2>1. _pump(p) = [pool |-> p, jobs |-> <<>>]
      BY <1>2, <1>4
    <2>2. _pump(p).pool = p /\ _pump(p).jobs = <<>>
      BY <2>1
    <2> QED BY <1>1, <1>4, <2>2
  <1>5. CASE k > 0
    <2>1. k = 1 /\ ~(k <= 0)
      BY <1>1, <1>5
    <2>2. _pump(p) = [pool |-> Started(p), jobs |-> J(1)]
      BY <1>2, <1>3, <2>1
    <2>3. _pump(p).pool = Started(p) /\ _pump(p).jobs = J(1)
      BY <2>2
    <2> QED BY <1>1, <1>5, <2>3 DEF J
  <1> QED BY <1>1, <1>4, <1>5

\* Dropping the first of a sequence.
LEMMA RestFacts ==
    ASSUME NEW S, NEW s \in Seq(S), s # <<>>
    PROVE  /\ SubSeq(s, 2, Len(s)) \in Seq(S) /\ Len(SubSeq(s, 2, Len(s))) = Len(s) - 1
           /\ \A i \in 1..(Len(s) - 1) : SubSeq(s, 2, Len(s))[i] = s[i + 1]
  OBVIOUS

\* What becomes of the line q and the frames when a job is started.
LineStarted(q, frames, running, submitted, qs, fs, rs) ==
    /\ fs \in Seq(Nat) /\ rs \in Seq(Nat) /\ qs \in Seq(Nat)
    /\ JobLine(qs, fs, rs, submitted) /\ (Len(q) = 1 => qs = <<>>)
    /\ Len(fs) = Len(frames) + 1 /\ Len(frames) + 1 <= MaxJobs
    /\ rs[Len(frames) + 1] = 0 /\ \A f \in 1..Len(frames) : rs[f] = running[f]

\* The first job of the line becomes the last frame.
LEMMA LineStarts ==
    ASSUME NEW q \in Seq(Nat), NEW frames \in Seq(Nat), NEW running \in Seq(Nat), NEW submitted \in Nat,
           q # <<>>, JobLine(q, frames, running, submitted)
    PROVE  LineStarted(q, frames, running, submitted, SubSeq(q, 2, Len(q)), Append(frames, q[1]), Append(running, 0))
  <1> DEFINE fs == Append(frames, q[1])
             rs == Append(running, 0)
             qs == SubSeq(q, 2, Len(q))
  <1>1. PICK n \in Nat : n = Len(frames)
    OBVIOUS
  <1>2. PICK k \in Nat : k = Len(q) /\ k # 0
    OBVIOUS
  <1>3. MaxJobs \in Nat
    BY AsyncAssumption DEF AsyncAssumption
  <1>4. /\ Len(running) = n /\ n + k = submitted /\ submitted <= MaxJobs
        /\ (\A f \in 1..n : frames[f] = f) /\ \A i \in 1..k : q[i] = n + i
    BY <1>1, <1>2 DEF JobLine
  <1>5. q[1] = n + 1 /\ n + 1 \in Nat /\ n + 1 <= MaxJobs
    BY <1>2, <1>3, <1>4
  <1>6. /\ fs \in Seq(Nat) /\ Len(fs) = n + 1 /\ fs[n + 1] = n + 1 /\ \A f \in 1..n : fs[f] = frames[f]
    BY <1>1, <1>5, AppendFacts
  <1>7. /\ rs \in Seq(Nat) /\ Len(rs) = n + 1 /\ rs[n + 1] = 0 /\ \A f \in 1..n : rs[f] = running[f]
    BY <1>1, <1>4, AppendFacts
  <1>8. /\ qs \in Seq(Nat) /\ Len(qs) = k - 1 /\ \A i \in 1..(k - 1) : qs[i] = q[i + 1]
    BY <1>2, RestFacts
  <1> HIDE DEF fs, rs, qs
  <1>9. k = 1 => qs = <<>>
    <2>1. \A u \in Seq(Nat) : Len(u) = 0 => u = <<>>
      OBVIOUS
    <2>2. k = 1 => Len(qs) = 0
      BY <1>8
    <2> QED BY <1>8, <2>1, <2>2
  <1>10. \A f \in 1..(n + 1) : fs[f] = f
    <2>1. \A f \in 1..(n + 1) : f \in 1..n \/ f = n + 1
      OBVIOUS
    <2> QED BY <1>4, <1>6, <2>1
  <1>11. \A i \in 1..(k - 1) : qs[i] = (n + 1) + i
    BY <1>4, <1>8
  <1>12. (n + 1) + (k - 1) = submitted
    BY <1>4
  <1>13. JobLine(qs, fs, rs, submitted)
    BY <1>4, <1>6, <1>7, <1>8, <1>10, <1>11, <1>12 DEF JobLine
  <1> QED BY <1>1, <1>2, <1>5, <1>6, <1>7, <1>8, <1>9, <1>13 DEF fs, rs, qs, LineStarted

\* A job that was just started is to be called.
LEMMA StageStarts ==
    ASSUME NEW n \in Nat, NEW running, NEW rs, NEW calls, NEW settled, NEW C, NEW D,
           Stages(n, running, calls, settled, C, D), n + 1 <= MaxJobs,
           rs[n + 1] = 0, \A f \in 1..n : rs[f] = running[f]
    PROVE  Stages(n + 1, rs, calls, settled, C \cup {n + 1}, D) /\ n + 1 \notin C
  <1> DEFINE E == C \cup {n + 1}
  <1>0. MaxJobs \in Nat
    BY AsyncAssumption DEF AsyncAssumption
  <1>1. /\ C \subseteq 1..n /\ D \subseteq 1..n
        /\ \A f \in 1..n : Stage(f, C, running[f], D, calls[f], settled[f])
        /\ \A j \in 1..MaxJobs : j > n => calls[j] = 0 /\ settled[j] = 0
    BY DEF Stages
  <1>2. n + 1 \notin C /\ n + 1 \notin D /\ E \subseteq 1..(n + 1) /\ D \subseteq 1..(n + 1)
    BY <1>1
  <1>3. ASSUME NEW f \in 1..(n + 1) PROVE Stage(f, E, rs[f], D, calls[f], settled[f])
    <2>1. CASE f = n + 1
      <3>1. calls[n + 1] = 0 /\ settled[n + 1] = 0
        BY <1>0, <1>1
      <3> QED BY <1>2, <2>1, <3>1 DEF Stage
    <2>2. CASE f # n + 1
      <3>1. f \in 1..n
        BY <2>2
      <3>2. Stage(f, C, running[f], D, calls[f], settled[f]) /\ rs[f] = running[f]
        BY <1>1, <3>1
      <3>3. f \in E <=> f \in C
        BY <2>2
      <3> HIDE DEF E
      <3> QED BY <3>2, <3>3 DEF Stage
    <2> QED BY <2>1, <2>2
  <1>4. \A j \in 1..MaxJobs : j > n + 1 => calls[j] = 0 /\ settled[j] = 0
    BY <1>0, <1>1
  <1> HIDE DEF E
  <1>5. Stages(n + 1, rs, calls, settled, E, D)
    BY <1>2, <1>3, <1>4 DEF Stages
  <1> QED BY <1>2, <1>5 DEF E

\* _pump keeps what the invariant says and leaves no job beside a free slot.
LEMMA PumpKeeps ==
    ASSUME NEW p, PoolShape(p), PoolLine(p), p.active <= Slots, Slots - p.active <= 1 \/ Len(p.q) <= 1,
           NEW s, QueueOf(s), PoolStages(p, DueIn(s, "call"), DueIn(s, "settled")),
           pool' = _pump(p).pool, micro' = s \o _pump(p).jobs
    PROVE  /\ PoolInv' /\ QueueOf(micro')
           /\ \A o \in {"item", "mapped", "run", "attempt", "tried"} : Due(o)' = DueIn(s, o)
  <1>0. /\ p.active \in Int /\ p.q \in Seq(Nat) /\ p.frames \in Seq(Nat) /\ p.running \in Seq(Nat)
        /\ Slots \in Nat /\ MaxJobs \in Nat
        /\ {"run", "attempt", "tried", "call", "settled", "item", "mapped"} \subseteq CallOp
    BY AsyncAssumption DEF AsyncAssumption, PoolShape, CallOp
  <1>1. CASE _pump(p).pool = p /\ _pump(p).jobs = <<>> /\ (p.q = <<>> \/ p.active = Slots)
    <2>1. pool' = p /\ micro' = s
      BY <1>1, QueueNone
    <2>2. PoolSlots(p)
      BY <1>1 DEF PoolSlots
    <2> QED BY <2>1, <2>2 DEF PoolInv, Due
  <1>2. CASE /\ _pump(p).pool = Started(p) /\ p.q # <<>> /\ p.active < Slots
             /\ Slots - p.active = 1 \/ Len(p.q) = 1
             /\ _pump(p).jobs = [i \in 1..1 |-> Reaction("call", Len(p.frames) + 1, TRUE)]
    <2> DEFINE n == Len(p.frames)
               r == Reaction("call", n + 1, TRUE)
               fs == Append(p.frames, p.q[1])
               rs == Append(p.running, 0)
               qs == SubSeq(p.q, 2, Len(p.q))
               C == DueIn(s, "call")
               D == DueIn(s, "settled")
    <2>1. /\ fs \in Seq(Nat) /\ rs \in Seq(Nat) /\ qs \in Seq(Nat)
          /\ JobLine(qs, fs, rs, p.submitted) /\ (Len(p.q) = 1 => qs = <<>>)
          /\ Len(fs) = n + 1 /\ n + 1 <= MaxJobs
          /\ rs[n + 1] = 0 /\ \A f \in 1..n : rs[f] = p.running[f]
      <3>1. LineStarted(p.q, p.frames, p.running, p.submitted, qs, fs, rs)
        BY <1>0, <1>2, LineStarts DEF PoolLine, PoolShape
      <3> HIDE DEF qs, fs, rs
      <3> QED BY <3>1 DEF LineStarted
    <2>2. n \in Nat
      BY <1>0
    <2>3. pool' = [p EXCEPT !.active = @ + 1, !.frames = fs, !.running = rs, !.q = qs]
      BY <1>2 DEF Started
    <2> HIDE DEF fs, rs, qs
    <2>4. /\ DOMAIN pool' = DOMAIN p /\ pool'.active = p.active + 1 /\ pool'.frames = fs /\ pool'.running = rs
          /\ pool'.q = qs /\ pool'.submitted = p.submitted /\ pool'.calls = p.calls /\ pool'.settled = p.settled
      BY <2>3 DEF PoolShape
    <2>5. PoolShape(pool')
      <3>1. p.active + 1 \in Int
        BY <1>0
      <3> QED BY <2>1, <2>4, <3>1 DEF PoolShape
    <2>6. PoolLine(pool')
      BY <2>1, <2>4 DEF PoolLine
    <2>7. PoolSlots(pool')
      <3>1. Slots - p.active = 1 => p.active + 1 = Slots
        BY <1>0
      <3>2. p.active + 1 <= Slots
        BY <1>0, <1>2
      <3> QED BY <1>2, <2>1, <2>4, <3>1, <3>2 DEF PoolSlots
    <2>8. Stages(n + 1, rs, p.calls, p.settled, C \cup {n + 1}, D) /\ n + 1 \notin C
      BY <2>1, <2>2, StageStarts DEF PoolStages
    <2>9. micro' = Append(s, r)
      BY <1>2, QueueOne
    <2>10. r.op = "call" /\ r.x = n + 1
      BY DEF Reaction
    <2> HIDE DEF r, n
    <2>11. /\ QueueOf(Append(s, r))
           /\ \A o \in CallOp : DueIn(Append(s, r), o) = IF r.op = o THEN DueIn(s, o) \cup {r.x} ELSE DueIn(s, o)
      BY <2>8, <2>10, QueueAdd
    <2>12. DueIn(Append(s, r), "call") = C \cup {n + 1} /\ DueIn(Append(s, r), "settled") = D
      BY <1>0, <2>10, <2>11
    <2>13. \A o \in {"item", "mapped", "run", "attempt", "tried"} : DueIn(Append(s, r), o) = DueIn(s, o)
      BY <1>0, <2>10, <2>11
    <2>14. /\ QueueOf(micro') /\ Due("call")' = C \cup {n + 1} /\ Due("settled")' = D
           /\ \A o \in {"item", "mapped", "run", "attempt", "tried"} : Due(o)' = DueIn(s, o)
      BY <2>9, <2>11, <2>12, <2>13 DEF Due
    <2>15. PoolStages(pool', Due("call")', Due("settled")')
      BY <2>1, <2>4, <2>8, <2>14 DEF PoolStages
    <2> QED BY <2>5, <2>6, <2>7, <2>14, <2>15 DEF PoolInv
  <1> QED BY <1>1, <1>2, PumpOne

\* Replacing one element of a sequence.
LEMMA ReplaceFacts ==
    ASSUME NEW s \in Seq(Nat), NEW f \in 1..Len(s), NEW e \in Nat
    PROVE  LET t == [s EXCEPT ![f] = e]
           IN t \in Seq(Nat) /\ Len(t) = Len(s) /\ t[f] = e /\ \A g \in 1..Len(s) : g # f => t[g] = s[g]
  OBVIOUS

\* Counting one up in a table.
LEMMA CountFacts ==
    ASSUME NEW S, NEW h \in [S -> Nat], NEW f \in S
    PROVE  LET t == [h EXCEPT ![f] = @ + 1]
           IN t \in [S -> Nat] /\ t[f] = h[f] + 1 /\ \A g \in S : g # f => t[g] = h[g]
  OBVIOUS

\* Nothing but job f changes, and its new stage is a proper one.
OneMoves(f, n, ru, ca, se, C, D, ru1, ca1, se1, C1, D1) ==
    /\ C1 \subseteq 1..n /\ D1 \subseteq 1..n
    /\ \A g \in 1..n : g # f => /\ ru1[g] = ru[g] /\ ca1[g] = ca[g] /\ se1[g] = se[g]
                                /\ (g \in C1 <=> g \in C) /\ (g \in D1 <=> g \in D)
    /\ \A j \in 1..MaxJobs : j > n => ca1[j] = ca[j] /\ se1[j] = se[j]
    /\ Stage(f, C1, ru1[f], D1, ca1[f], se1[f])

\* One job moves to its next stage.
LEMMA StageMoves ==
    ASSUME NEW n, NEW ru, NEW ca, NEW se, NEW C, NEW D, Stages(n, ru, ca, se, C, D),
           NEW f, NEW ru1, NEW ca1, NEW se1, NEW C1, NEW D1,
           OneMoves(f, n, ru, ca, se, C, D, ru1, ca1, se1, C1, D1)
    PROVE  Stages(n, ru1, ca1, se1, C1, D1)
  <1> USE DEF OneMoves
  <1>1. ASSUME NEW g \in 1..n PROVE Stage(g, C1, ru1[g], D1, ca1[g], se1[g])
    <2>1. CASE g # f
      <3>1. Stage(g, C, ru[g], D, ca[g], se[g])
        BY DEF Stages
      <3>2. /\ ru1[g] = ru[g] /\ ca1[g] = ca[g] /\ se1[g] = se[g]
            /\ (g \in C1 <=> g \in C) /\ (g \in D1 <=> g \in D)
        BY <2>1
      <3> QED BY <3>1, <3>2 DEF Stage
    <2> QED BY <2>1
  <1>2. \A j \in 1..MaxJobs : j > n => ca1[j] = 0 /\ se1[j] = 0
    BY DEF Stages
  <1> QED BY <1>1, <1>2 DEF Stages

\* What the proofs take from PoolInv.
LEMMA PoolFacts ==
    ASSUME PoolInv
    PROVE  \E n \in Nat :
             /\ n = Len(pool.frames) /\ n = Len(pool.running) /\ n <= MaxJobs
             /\ \A f \in 1..n : f \in 1..MaxJobs /\ pool.frames[f] = f /\ pool.running[f] \in Nat
             /\ Stages(n, pool.running, pool.calls, pool.settled, Due("call"), Due("settled"))
             /\ Due("call") \subseteq 1..n /\ Due("settled") \subseteq 1..n
  <1>0. /\ pool.frames \in Seq(Nat) /\ pool.running \in Seq(Nat) /\ pool.q \in Seq(Nat) /\ pool.submitted \in Nat
        /\ MaxJobs \in Nat
    BY AsyncAssumption DEF PoolInv, PoolShape, AsyncAssumption
  <1>1. PICK n \in Nat : n = Len(pool.frames)
    BY <1>0
  <1>2. PICK k \in Nat : k = Len(pool.q)
    BY <1>0
  <1>3. /\ Len(pool.running) = n /\ n + k = pool.submitted /\ pool.submitted <= MaxJobs
        /\ \A f \in 1..n : pool.frames[f] = f
    BY <1>1, <1>2 DEF PoolInv, PoolLine, JobLine
  <1>4. n <= MaxJobs /\ \A f \in 1..n : f \in 1..MaxJobs
    BY <1>0, <1>3
  <1>5. \A f \in 1..n : pool.running[f] \in Nat
    BY <1>0, <1>3
  <1>6. Stages(n, pool.running, pool.calls, pool.settled, Due("call"), Due("settled"))
    BY <1>1 DEF PoolInv, PoolStages
  <1> QED BY <1>1, <1>3, <1>4, <1>5, <1>6 DEF Stages

\* submit puts the job at the end of the line and pumps.
LEMMA PoolSubmit ==
    ASSUME QueueOf(micro), PoolInv, submit
    PROVE  PoolInv' /\ PoolMoves
  <1> DEFINE j == pool.submitted + 1
             p == [pool EXCEPT !.submitted = j, !.q = Append(@, j)]
  <1>1. pool' = _pump(p).pool /\ micro' = micro \o _pump(p).jobs /\ pool.submitted < MaxJobs
    BY DEF submit
  <1>2. /\ pool.q \in Seq(Nat) /\ pool.submitted \in Nat /\ j \in Nat /\ MaxJobs \in Nat /\ pool.active \in Int
        /\ pool.frames \in Seq(Nat) /\ Slots \in Nat
    BY AsyncAssumption DEF AsyncAssumption, PoolInv, PoolShape
  <1> DEFINE qs == Append(pool.q, j)
  <1>3. /\ qs \in Seq(Nat) /\ Len(qs) = Len(pool.q) + 1 /\ qs[Len(pool.q) + 1] = j
        /\ \A i \in 1..Len(pool.q) : qs[i] = pool.q[i]
    BY <1>2, AppendFacts
  <1>4. p = [pool EXCEPT !.submitted = j, !.q = qs]
    OBVIOUS
  <1>5. PoolShape(pool)
    BY DEF PoolInv
  <1> HIDE DEF p, qs
  <1>6. /\ DOMAIN p = DOMAIN pool /\ p.active = pool.active /\ p.frames = pool.frames /\ p.running = pool.running
        /\ p.q = qs /\ p.submitted = j /\ p.calls = pool.calls /\ p.settled = pool.settled
    BY <1>4, <1>5 DEF PoolShape
  <1> HIDE DEF j
  <1>7. PoolShape(p)
    BY <1>2, <1>3, <1>5, <1>6 DEF PoolShape
  <1>8. PoolLine(p)
    <2>1. PICK n \in Nat : n = Len(pool.frames)
      BY <1>2
    <2>2. PICK k \in Nat : k = Len(pool.q)
      BY <1>2
    <2>3. /\ Len(pool.running) = n /\ n + k = pool.submitted /\ (\A f \in 1..n : pool.frames[f] = f)
          /\ \A i \in 1..k : pool.q[i] = n + i
      BY <2>1, <2>2 DEF PoolInv, PoolLine, JobLine
    <2>4. j = n + (k + 1) /\ j <= MaxJobs /\ Len(qs) = k + 1
      BY <1>1, <1>2, <1>3, <2>2, <2>3 DEF j
    <2>5. \A i \in 1..(k + 1) : qs[i] = n + i
      <3>1. \A i \in 1..(k + 1) : i \in 1..k \/ i = k + 1
        OBVIOUS
      <3> QED BY <1>3, <2>2, <2>3, <2>4, <3>1
    <2>6. JobLine(qs, pool.frames, pool.running, j)
      BY <2>1, <2>3, <2>4, <2>5 DEF JobLine
    <2> QED BY <1>6, <2>6 DEF PoolLine
  <1>9. p.active <= Slots /\ (Slots - p.active <= 1 \/ Len(p.q) <= 1)
    <2>1. pool.active <= Slots /\ (pool.q # <<>> => pool.active = Slots)
      BY DEF PoolInv, PoolSlots
    <2>2. pool.q = <<>> => Len(qs) = 1
      BY <1>3
    <2>3. CASE pool.q = <<>>
      <3>1. Len(p.q) = 1 /\ 1 <= 1
        BY <1>6, <2>2, <2>3
      <3>2. Len(p.q) <= 1
        BY <3>1
      <3> QED BY <1>6, <2>1, <3>2
    <2>4. CASE pool.q # <<>>
      <3>1. Slots - Slots <= 1
        BY <1>2
      <3> QED BY <1>6, <2>1, <2>4, <3>1
    <2> QED BY <2>3, <2>4
  <1>10. PoolStages(p, DueIn(micro, "call"), DueIn(micro, "settled"))
    BY <1>6 DEF PoolInv, PoolStages, Due
  <1>11. /\ PoolInv' /\ QueueOf(micro')
         /\ \A o \in {"item", "mapped", "run", "attempt", "tried"} : Due(o)' = DueIn(micro, o)
    BY <1>1, <1>7, <1>8, <1>9, <1>10, PumpKeeps
  <1> QED BY <1>11 DEF PoolMoves, Due

\* The job of a frame is called.
LEMMA PoolCalling ==
    ASSUME QueueOf(micro), PoolInv, PoolCalls
    PROVE  PoolInv' /\ PoolMoves
  <1> DEFINE f == Subject
  <1>0. {"run", "attempt", "tried", "call", "settled", "item", "mapped"} \subseteq CallOp /\ PoolShape(pool)
    BY DEF CallOp, PoolInv
  <1>1. /\ Next_("call") /\ micro' = Tail(micro)
        /\ pool' = [pool EXCEPT !.calls[pool.frames[f]] = @ + 1, !.running[f] = @ + 1]
    BY DEF PoolCalls
  <1>2. /\ QueueOf(micro') /\ f \in Due("call") /\ Due("call")' = Due("call") \ {f} /\ Due("settled")' = Due("settled")
        /\ \A p \in CallOp : p # "call" => Due(p)' = Due(p)
    BY <1>0, <1>1, QueueTakes DEF Due
  <1>3. PICK n \in Nat :
             /\ n = Len(pool.frames) /\ n = Len(pool.running) /\ n <= MaxJobs
             /\ \A g \in 1..n : g \in 1..MaxJobs /\ pool.frames[g] = g /\ pool.running[g] \in Nat
             /\ Stages(n, pool.running, pool.calls, pool.settled, Due("call"), Due("settled"))
             /\ Due("call") \subseteq 1..n /\ Due("settled") \subseteq 1..n
    BY PoolFacts
  <1>4. f \in 1..n /\ f \in 1..MaxJobs /\ pool.frames[f] = f
    BY <1>2, <1>3
  <1> HIDE DEF f
  <1> DEFINE ca == [pool.calls EXCEPT ![f] = @ + 1]
             ru == [pool.running EXCEPT ![f] = @ + 1]
  <1>5. pool' = [pool EXCEPT !.calls = ca, !.running = ru]
    BY <1>0, <1>1, <1>4 DEF PoolShape
  <1>6. ca \in [1..MaxJobs -> Nat] /\ ca[f] = pool.calls[f] + 1 /\ \A g \in 1..MaxJobs : g # f => ca[g] = pool.calls[g]
    <2>1. pool.calls \in [1..MaxJobs -> Nat]
      BY <1>0 DEF PoolShape
    <2> QED BY <1>4, <2>1, CountFacts
  <1>7. /\ ru \in Seq(Nat) /\ Len(ru) = n /\ ru[f] = pool.running[f] + 1
        /\ \A g \in 1..n : g # f => ru[g] = pool.running[g]
    <2>1. pool.running \in Seq(Nat) /\ pool.running[f] + 1 \in Nat
      BY <1>0, <1>3, <1>4 DEF PoolShape
    <2> QED BY <1>3, <1>4, <2>1, ReplaceFacts
  <1> HIDE DEF ca, ru
  <1>8. /\ DOMAIN pool' = DOMAIN pool /\ pool'.active = pool.active /\ pool'.frames = pool.frames /\ pool'.running = ru
        /\ pool'.q = pool.q /\ pool'.submitted = pool.submitted /\ pool'.calls = ca /\ pool'.settled = pool.settled
    BY <1>0, <1>5 DEF PoolShape
  <1>9. PoolShape(pool')
    BY <1>0, <1>6, <1>7, <1>8 DEF PoolShape
  <1>10. PoolLine(pool') /\ PoolSlots(pool')
    BY <1>3, <1>7, <1>8 DEF PoolInv, PoolLine, PoolSlots, JobLine
  <1>11. Stages(n, ru, ca, pool.settled, Due("call")', Due("settled")')
    <2>1. Stage(f, Due("call"), pool.running[f], Due("settled"), pool.calls[f], pool.settled[f])
      BY <1>3, <1>4 DEF Stages
    <2>2. Stage(f, Due("call")', ru[f], Due("settled")', ca[f], pool.settled[f])
      BY <1>2, <1>6, <1>7, <2>1 DEF Stage
    <2>3. \A g \in 1..n : g # f => /\ ru[g] = pool.running[g] /\ ca[g] = pool.calls[g] /\ pool.settled[g] = pool.settled[g]
                                   /\ (g \in Due("call")' <=> g \in Due("call")) /\ (g \in Due("settled")' <=> g \in Due("settled"))
      BY <1>2, <1>3, <1>6, <1>7
    <2>4. \A j \in 1..MaxJobs : j > n => ca[j] = pool.calls[j] /\ pool.settled[j] = pool.settled[j]
      BY <1>4, <1>6
    <2>5. Due("call")' \subseteq 1..n /\ Due("settled")' \subseteq 1..n
      BY <1>2, <1>3
    <2>6. OneMoves(f, n, pool.running, pool.calls, pool.settled, Due("call"), Due("settled"),
                   ru, ca, pool.settled, Due("call")', Due("settled")')
      BY <2>2, <2>3, <2>4, <2>5 DEF OneMoves
    <2> QED BY <1>3, <2>6, StageMoves
  <1>12. PoolStages(pool', Due("call")', Due("settled")')
    BY <1>3, <1>8, <1>11 DEF PoolStages
  <1> QED BY <1>0, <1>2, <1>9, <1>10, <1>12 DEF PoolInv, PoolMoves


\* A running job settles.
LEMMA PoolJobSettles ==
    ASSUME QueueOf(micro), PoolInv, NEW f \in DOMAIN pool.frames, NEW ok \in BOOLEAN, JobSettles(f, ok)
    PROVE  PoolInv' /\ PoolMoves
  <1>0. /\ {"run", "attempt", "tried", "call", "settled", "item", "mapped"} \subseteq CallOp
        /\ PoolShape(pool) /\ pool.frames \in Seq(Nat)
    BY DEF CallOp, PoolInv, PoolShape
  <1> DEFINE r == Reaction("settled", f, ok)
             C == Due("call")
             D == Due("settled")
  <1>1. /\ micro' = Append(micro, r) /\ pool.running[f] > 0
        /\ pool' = [pool EXCEPT !.running[f] = @ - 1]
    BY DEF JobSettles
  <1>2. r.op = "settled" /\ r.x = f
    BY DEF Reaction
  <1> HIDE DEF r
  <1>3. PICK n \in Nat :
             /\ n = Len(pool.frames) /\ n = Len(pool.running) /\ n <= MaxJobs
             /\ \A g \in 1..n : g \in 1..MaxJobs /\ pool.frames[g] = g /\ pool.running[g] \in Nat
             /\ Stages(n, pool.running, pool.calls, pool.settled, C, D)
             /\ C \subseteq 1..n /\ D \subseteq 1..n
    BY PoolFacts
  <1>4. f \in 1..n
    <2>1. DOMAIN pool.frames = 1..Len(pool.frames)
      BY <1>0
    <2> QED BY <1>3, <2>1
  <1>5. f \notin C /\ f \notin D /\ pool.running[f] = 1 /\ pool.calls[f] = 1 /\ pool.settled[f] = 0
    <2>1. Stage(f, C, pool.running[f], D, pool.calls[f], pool.settled[f])
      BY <1>3, <1>4 DEF Stages
    <2> HIDE DEF C, D
    <2> QED BY <1>1, <2>1 DEF Stage
  <1>6. /\ QueueOf(Append(micro, r))
        /\ \A o \in CallOp : DueIn(Append(micro, r), o) = IF r.op = o THEN DueIn(micro, o) \cup {r.x} ELSE DueIn(micro, o)
    BY <1>2, <1>5, QueueAdd DEF Due
  <1>7. DueIn(Append(micro, r), "settled") = D \cup {f} /\ \A o \in CallOp : o # "settled" => DueIn(Append(micro, r), o) = Due(o)
    BY <1>0, <1>2, <1>6 DEF Due
  <1>8. /\ QueueOf(micro') /\ Due("settled")' = D \cup {f}
        /\ \A o \in CallOp : o # "settled" => Due(o)' = Due(o)
    BY <1>1, <1>6, <1>7 DEF Due
  <1>9. Due("call")' = C
    BY <1>0, <1>8
  <1> DEFINE ru == [pool.running EXCEPT ![f] = 0]
  <1>10. pool' = [pool EXCEPT !.running = ru]
    <2>1. pool.running[f] - 1 = 0
      BY <1>5
    <2>2. pool' = [pool EXCEPT !.running = [pool.running EXCEPT ![f] = pool.running[f] - 1]]
      BY <1>0, <1>1 DEF PoolShape
    <2> QED BY <2>1, <2>2
  <1>11. /\ ru \in Seq(Nat) /\ Len(ru) = n /\ ru[f] = 0
         /\ \A g \in 1..n : g # f => ru[g] = pool.running[g]
    <2>1. pool.running \in Seq(Nat)
      BY <1>0 DEF PoolShape
    <2> QED BY <1>3, <1>4, <2>1, ReplaceFacts
  <1> HIDE DEF ru, C, D
  <1>12. /\ DOMAIN pool' = DOMAIN pool /\ pool'.active = pool.active /\ pool'.frames = pool.frames /\ pool'.running = ru
         /\ pool'.q = pool.q /\ pool'.submitted = pool.submitted /\ pool'.calls = pool.calls /\ pool'.settled = pool.settled
    BY <1>0, <1>10 DEF PoolShape
  <1>13. PoolShape(pool')
    BY <1>0, <1>11, <1>12 DEF PoolShape
  <1>14. PoolLine(pool') /\ PoolSlots(pool')
    BY <1>3, <1>11, <1>12 DEF PoolInv, PoolLine, PoolSlots, JobLine
  <1>15. Stages(n, ru, pool.calls, pool.settled, C, D \cup {f})
    <2> DEFINE E == D \cup {f}
    <2>1. E \subseteq 1..n /\ f \in E /\ \A g \in 1..n : g # f => (g \in E <=> g \in D)
      BY <1>3, <1>4
    <2> HIDE DEF E
    <2>2. Stage(f, C, ru[f], E, pool.calls[f], pool.settled[f])
      BY <1>5, <1>11, <2>1 DEF Stage
    <2>3. OneMoves(f, n, pool.running, pool.calls, pool.settled, C, D, ru, pool.calls, pool.settled, C, E)
      BY <1>3, <1>11, <2>1, <2>2 DEF OneMoves
    <2>4. Stages(n, ru, pool.calls, pool.settled, C, E)
      BY <1>3, <2>3, StageMoves
    <2> QED BY <2>4 DEF E
  <1>16. PoolStages(pool', Due("call")', Due("settled")')
    BY <1>3, <1>8, <1>9, <1>12, <1>15 DEF PoolStages
  <1> QED BY <1>0, <1>8, <1>13, <1>14, <1>16 DEF PoolInv, PoolMoves

\* A job has settled: its slot is free, and _pump gives it to the next.
LEMMA PoolSettling ==
    ASSUME QueueOf(micro), PoolInv, PoolSettles
    PROVE  PoolInv' /\ PoolMoves
  <1> DEFINE f == Subject
             s == Tail(micro)
             C == Due("call")
             D == Due("settled")
             p == [pool EXCEPT !.active = @ - 1, !.settled[pool.frames[f]] = @ + 1]
  <1>0. {"run", "attempt", "tried", "call", "settled", "item", "mapped"} \subseteq CallOp /\ PoolShape(pool)
    BY DEF CallOp, PoolInv
  <1>1. Next_("settled") /\ pool' = _pump(p).pool /\ micro' = s \o _pump(p).jobs
    BY DEF PoolSettles, PoolEnded
  <1>2. /\ QueueOf(s) /\ f \in D /\ DueIn(s, "settled") = D \ {f} /\ DueIn(s, "call") = C
        /\ \A o \in CallOp : o # "settled" => DueIn(s, o) = Due(o)
    BY <1>0, <1>1, QueueTakes
  <1>3. PICK n \in Nat :
             /\ n = Len(pool.frames) /\ n = Len(pool.running) /\ n <= MaxJobs
             /\ \A g \in 1..n : g \in 1..MaxJobs /\ pool.frames[g] = g /\ pool.running[g] \in Nat
             /\ Stages(n, pool.running, pool.calls, pool.settled, C, D)
             /\ C \subseteq 1..n /\ D \subseteq 1..n
    BY PoolFacts
  <1>4. f \in 1..n /\ f \in 1..MaxJobs /\ pool.frames[f] = f
    BY <1>2, <1>3
  <1> HIDE DEF f, s, C, D
  <1>5. f \notin C /\ pool.running[f] = 0 /\ pool.calls[f] = 1 /\ pool.settled[f] = 0
    <2>1. Stage(f, C, pool.running[f], D, pool.calls[f], pool.settled[f])
      BY <1>3, <1>4 DEF Stages
    <2> QED BY <1>2, <2>1 DEF Stage
  <1> DEFINE se == [pool.settled EXCEPT ![f] = @ + 1]
  <1>6. p = [pool EXCEPT !.active = @ - 1, !.settled = se]
    BY <1>0, <1>4 DEF PoolShape
  <1>7. se \in [1..MaxJobs -> Nat] /\ se[f] = 1 /\ \A g \in 1..MaxJobs : g # f => se[g] = pool.settled[g]
    <2>1. pool.settled \in [1..MaxJobs -> Nat]
      BY <1>0 DEF PoolShape
    <2>2. se \in [1..MaxJobs -> Nat] /\ se[f] = pool.settled[f] + 1 /\ \A g \in 1..MaxJobs : g # f => se[g] = pool.settled[g]
      BY <1>4, <2>1, CountFacts
    <2> QED BY <1>5, <2>2
  <1> HIDE DEF se, p
  <1>8. /\ DOMAIN p = DOMAIN pool /\ p.active = pool.active - 1 /\ p.frames = pool.frames /\ p.running = pool.running
        /\ p.q = pool.q /\ p.submitted = pool.submitted /\ p.calls = pool.calls /\ p.settled = se
    BY <1>0, <1>6 DEF PoolShape
  <1>9. PoolShape(p)
    BY <1>0, <1>7, <1>8 DEF PoolShape
  <1>10. PoolLine(p)
    BY <1>8 DEF PoolInv, PoolLine
  <1>11. p.active <= Slots /\ (Slots - p.active <= 1 \/ Len(p.q) <= 1)
    <2>1. pool.active \in Int /\ Slots \in Nat /\ pool.active <= Slots /\ (pool.q # <<>> => pool.active = Slots)
      BY AsyncAssumption DEF AsyncAssumption, PoolInv, PoolSlots, PoolShape
    <2>2. Len(<<>>) = 0 /\ 0 <= 1
      OBVIOUS
    <2>3. CASE pool.q = <<>>
      <3>1. Len(p.q) = 0
        BY <1>8, <2>2, <2>3
      <3>2. Len(p.q) <= 1
        BY <3>1
      <3> QED BY <1>8, <2>1, <3>2
    <2>4. CASE pool.q # <<>>
      BY <1>8, <2>1, <2>4
    <2> QED BY <2>3, <2>4
  <1>12. PoolStages(p, DueIn(s, "call"), DueIn(s, "settled"))
    <2> DEFINE E == D \ {f}
    <2>1. E \subseteq 1..n /\ f \notin E /\ \A g \in 1..n : g # f => (g \in E <=> g \in D)
      BY <1>3
    <2> HIDE DEF E
    <2>2. Stage(f, C, pool.running[f], E, pool.calls[f], se[f])
      BY <1>5, <1>7, <2>1 DEF Stage
    <2>3. \A j \in 1..MaxJobs : j > n => se[j] = pool.settled[j]
      BY <1>4, <1>7
    <2>4. \A g \in 1..n : g # f => se[g] = pool.settled[g]
      BY <1>3, <1>7
    <2>5. OneMoves(f, n, pool.running, pool.calls, pool.settled, C, D, pool.running, pool.calls, se, C, E)
      BY <1>3, <2>1, <2>2, <2>3, <2>4 DEF OneMoves
    <2>6. Stages(n, pool.running, pool.calls, se, C, E)
      BY <1>3, <2>5, StageMoves
    <2> QED BY <1>2, <1>3, <1>8, <2>6 DEF PoolStages, E
  <1>13. /\ PoolInv' /\ QueueOf(micro')
         /\ \A o \in {"item", "mapped", "run", "attempt", "tried"} : Due(o)' = DueIn(s, o)
    BY <1>1, <1>2, <1>9, <1>10, <1>11, <1>12, PumpKeeps
  <1>14. \A o \in {"item", "mapped", "run", "attempt", "tried"} : Due(o)' = Due(o)
    BY <1>0, <1>2, <1>13
  <1> QED BY <1>13, <1>14 DEF PoolMoves

-----------------------------------------------------------------------------
(* pmap *)

PmShape(p) ==
    /\ DOMAIN p = {"pc", "next", "inFlight", "settledCount", "failed", "running", "calls"}
    /\ p.next \in Nat /\ p.inFlight \in Int /\ p.settledCount \in Nat /\ p.failed \in BOOLEAN
    /\ p.calls \in [1..Items -> Nat]

\* The items launched and not settled: to be called, running, or to be counted.
Away(due, running, mapped) == due \cup running \cup mapped

\* inFlight counts the items that are away, each of them in one place, and
\* every item launched was called or is going to be.
PmCount(next, inFlight, running, calls, due, mapped) ==
    /\ next <= Items /\ due \subseteq 1..next /\ running \subseteq 1..next /\ mapped \subseteq 1..next
    /\ due \cap running = {} /\ due \cap mapped = {} /\ running \cap mapped = {}
    /\ inFlight = Cardinality(Away(due, running, mapped)) /\ inFlight <= Concurrency
    /\ \A i \in 1..Items : calls[i] = IF i <= next /\ i \notin due THEN 1 ELSE 0

\* Until something fails, the items launched have settled or are away; a pmap
\* that has resolved has called every item.
PmOk(p, due, mapped) ==
    /\ PmShape(p) /\ PmCount(p.next, p.inFlight, p.running, p.calls, due, mapped)
    /\ ~p.failed => p.settledCount + p.inFlight = p.next
    /\ p.pc = "resolved" => p.next = Items /\ due = {}

PmInv == PmOk(pm, Due("item"), Due("mapped"))

PmMoves == QueueOf(micro') /\ \A o \in {"call", "settled", "run", "attempt", "tried"} : Due(o)' = Due(o)

\* Sets of numbers up to n, and the numbers after n.
LEMMA AwayFacts ==
    ASSUME NEW n \in Nat, NEW A \in SUBSET (1..n)
    PROVE  /\ IsFiniteSet(A) /\ Cardinality(A) \in Nat /\ (Cardinality(A) = 0 <=> A = {})
           /\ \A h \in A : Cardinality(A \ {h}) = Cardinality(A) - 1
           /\ \A B \in SUBSET A : Cardinality(B) <= Cardinality(A)
           /\ \A k \in Nat : Cardinality(A \cup Fresh(n, k)) = Cardinality(A) + k
  <1>1. IsFiniteSet(1..n)
    BY FS_Interval
  <1>2. IsFiniteSet(A)
    BY <1>1, FS_Subset
  <1>3. Cardinality(A) \in Nat /\ (Cardinality(A) = 0 <=> A = {})
    BY <1>2, FS_CardinalityType, FS_EmptySet
  <1>4. \A h \in A : Cardinality(A \ {h}) = Cardinality(A) - 1
    BY <1>2, FS_RemoveElement
  <1>5. \A B \in SUBSET A : Cardinality(B) <= Cardinality(A)
    BY <1>2, FS_Subset
  <1>6. ASSUME NEW k \in Nat PROVE Cardinality(A \cup Fresh(n, k)) = Cardinality(A) + k
    <2> DEFINE F == Fresh(n, k)
    <2>1. IsFiniteSet(F) /\ Cardinality(F) = k
      <3>1. n + 1 \in Int /\ n + k \in Int
        OBVIOUS
      <3>2. /\ IsFiniteSet((n + 1)..(n + k))
            /\ Cardinality((n + 1)..(n + k)) = IF n + 1 > n + k THEN 0 ELSE (n + k) - (n + 1) + 1
        BY <3>1, FS_Interval
      <3>3. (IF n + 1 > n + k THEN 0 ELSE (n + k) - (n + 1) + 1) = k
        OBVIOUS
      <3> QED BY <3>2, <3>3 DEF Fresh
    <2>2. A \cap F = {}
      BY DEF Fresh
    <2> HIDE DEF F
    <2>3. Cardinality(A \cup F) = Cardinality(A) + Cardinality(F) - Cardinality(A \cap F)
      BY <1>2, <2>1, FS_Union
    <2>4. Cardinality(A \cap F) = 0
      BY <2>2, FS_EmptySet
    <2> QED BY <1>3, <2>1, <2>3, <2>4 DEF F
  <1> QED BY <1>2, <1>3, <1>4, <1>5, <1>6

\* The next k items are launched.
LEMMA CountLaunch ==
    ASSUME NEW n \in Nat, NEW a \in Int, NEW R, NEW calls, NEW I, NEW M, PmCount(n, a, R, calls, I, M),
           NEW k \in Nat, n + k <= Items, a + k <= Concurrency
    PROVE  PmCount(n + k, a + k, R, calls, I \cup Fresh(n, k), M) /\ \A x \in I : x \notin Fresh(n, k)
  <1> DEFINE F == Fresh(n, k)
             A == Away(I, R, M)
             J == I \cup F
  <1>0. Items \in Nat /\ Concurrency \in Nat
    BY AsyncAssumption DEF AsyncAssumption
  <1>1. /\ n <= Items /\ I \subseteq 1..n /\ R \subseteq 1..n /\ M \subseteq 1..n
        /\ I \cap R = {} /\ I \cap M = {} /\ R \cap M = {}
        /\ a = Cardinality(A) /\ a <= Concurrency
        /\ \A i \in 1..Items : calls[i] = IF i <= n /\ i \notin I THEN 1 ELSE 0
    BY DEF PmCount
  <1>2. A \in SUBSET (1..n)
    BY <1>1 DEF Away
  <1>3. Cardinality(A \cup F) = a + k
    BY <1>1, <1>2, AwayFacts
  <1>4. Away(J, R, M) = A \cup F
    BY DEF Away
  <1>5. \A x : x \in F <=> x \in Int /\ n + 1 <= x /\ x <= n + k
    BY DEF Fresh
  <1>6. \A x \in 1..n : x \notin F /\ x \in 1..(n + k)
    BY <1>5
  <1>7. J \cap R = {} /\ J \cap M = {}
    <2>1. (\A x \in R : x \notin F) /\ \A x \in M : x \notin F
      BY <1>1, <1>6
    <2>2. (\A x \in R : x \notin I) /\ \A x \in M : x \notin I
      BY <1>1
    <2> HIDE DEF F
    <2> QED BY <2>1, <2>2
  <1>8. J \subseteq 1..(n + k) /\ R \subseteq 1..(n + k) /\ M \subseteq 1..(n + k)
    <2>1. \A x \in F : x \in 1..(n + k)
      BY <1>5
    <2>2. (\A x \in I : x \in 1..(n + k)) /\ (\A x \in R : x \in 1..(n + k)) /\ \A x \in M : x \in 1..(n + k)
      BY <1>1, <1>6
    <2> HIDE DEF F
    <2> QED BY <2>1, <2>2
  <1>9. ASSUME NEW i \in 1..Items PROVE (i <= n /\ i \notin I) <=> (i <= n + k /\ i \notin J)
    <2>1. CASE i <= n
      <3>1. i \in 1..n
        BY <2>1
      <3>2. i \notin F /\ i <= n + k
        BY <1>6, <3>1
      <3> QED BY <2>1, <3>2
    <2>2. CASE ~(i <= n) /\ i <= n + k
      <3>1. i \in F
        BY <1>5, <2>2
      <3> QED BY <2>2, <3>1
    <2>3. CASE ~(i <= n) /\ ~(i <= n + k)
      BY <2>3
    <2> QED BY <2>1, <2>2, <2>3
  <1>10. \A i \in 1..Items : calls[i] = IF i <= n + k /\ i \notin J THEN 1 ELSE 0
    BY <1>1, <1>9
  <1>11. \A x \in I : x \notin F
    BY <1>1, <1>6
  <1> HIDE DEF J, F, A
  <1>12. PmCount(n + k, a + k, R, calls, J, M)
    BY <1>1, <1>3, <1>4, <1>7, <1>8, <1>10 DEF PmCount
  <1> QED BY <1>11, <1>12 DEF J, F

\* An item is called.
LEMMA CountCall ==
    ASSUME NEW n \in Nat, NEW a, NEW R, NEW calls \in [1..Items -> Nat], NEW I, NEW M, PmCount(n, a, R, calls, I, M),
           NEW h \in I
    PROVE  LET c == [calls EXCEPT ![h] = @ + 1]
           IN c \in [1..Items -> Nat] /\ PmCount(n, a, R \cup {h}, c, I \ {h}, M)
  <1> DEFINE c == [calls EXCEPT ![h] = @ + 1]
             J == I \ {h}
             Q == R \cup {h}
  <1>0. Items \in Nat
    BY AsyncAssumption DEF AsyncAssumption
  <1>1. /\ n <= Items /\ I \subseteq 1..n /\ R \subseteq 1..n /\ M \subseteq 1..n
        /\ I \cap R = {} /\ I \cap M = {} /\ R \cap M = {}
        /\ a = Cardinality(Away(I, R, M)) /\ a <= Concurrency
        /\ \A i \in 1..Items : calls[i] = IF i <= n /\ i \notin I THEN 1 ELSE 0
    BY DEF PmCount
  <1>2. h \in 1..n /\ h \in 1..Items /\ h \notin M
    BY <1>0, <1>1
  <1>3. c \in [1..Items -> Nat] /\ c[h] = calls[h] + 1 /\ \A g \in 1..Items : g # h => c[g] = calls[g]
    BY <1>2, CountFacts
  <1>4. Away(J, Q, M) = Away(I, R, M)
    BY DEF Away
  <1>5. J \subseteq 1..n /\ Q \subseteq 1..n /\ J \cap Q = {} /\ J \cap M = {} /\ Q \cap M = {}
    BY <1>1, <1>2
  <1>6. \A i \in 1..Items : c[i] = IF i <= n /\ i \notin J THEN 1 ELSE 0
    <2>1. c[h] = 1 /\ h <= n /\ h \notin J
      BY <1>1, <1>2, <1>3
    <2>2. \A i \in 1..Items : i # h => c[i] = calls[i] /\ (i \in J <=> i \in I)
      BY <1>3
    <2> HIDE DEF c, J
    <2> QED BY <1>1, <2>1, <2>2
  <1> HIDE DEF c, J, Q
  <1>7. PmCount(n, a, Q, c, J, M)
    BY <1>1, <1>4, <1>5, <1>6 DEF PmCount
  <1> QED BY <1>3, <1>7 DEF c, J, Q

\* An item settles.
LEMMA CountSettles ==
    ASSUME NEW n, NEW a, NEW R, NEW calls, NEW I, NEW M, PmCount(n, a, R, calls, I, M), NEW h \in R
    PROVE  PmCount(n, a, R \ {h}, calls, I, M \cup {h}) /\ h \notin M
  <1> DEFINE Q == R \ {h}
             N == M \cup {h}
  <1>1. /\ n <= Items /\ I \subseteq 1..n /\ R \subseteq 1..n /\ M \subseteq 1..n
        /\ I \cap R = {} /\ I \cap M = {} /\ R \cap M = {}
        /\ a = Cardinality(Away(I, R, M)) /\ a <= Concurrency
        /\ \A i \in 1..Items : calls[i] = IF i <= n /\ i \notin I THEN 1 ELSE 0
    BY DEF PmCount
  <1>2. Away(I, Q, N) = Away(I, R, M)
    BY DEF Away
  <1>3. Q \subseteq 1..n /\ N \subseteq 1..n /\ I \cap Q = {} /\ I \cap N = {} /\ Q \cap N = {} /\ h \notin M
    BY <1>1
  <1> HIDE DEF Q, N
  <1>4. PmCount(n, a, Q, calls, I, N)
    BY <1>1, <1>2, <1>3 DEF PmCount
  <1> QED BY <1>3, <1>4 DEF Q, N

\* An item that has settled is counted; if it was the last one away, no other
\* is to be called.
LEMMA CountMapped ==
    ASSUME NEW n \in Nat, NEW a \in Int, NEW R, NEW calls, NEW I, NEW M, PmCount(n, a, R, calls, I, M), NEW h \in M
    PROVE  PmCount(n, a - 1, R, calls, I, M \ {h}) /\ a >= 1 /\ (a = 1 => I = {})
  <1> DEFINE N == M \ {h}
             A == Away(I, R, M)
  <1>0. Concurrency \in Nat
    BY AsyncAssumption DEF AsyncAssumption
  <1>1. /\ n <= Items /\ I \subseteq 1..n /\ R \subseteq 1..n /\ M \subseteq 1..n
        /\ I \cap R = {} /\ I \cap M = {} /\ R \cap M = {}
        /\ a = Cardinality(A) /\ a <= Concurrency
        /\ \A i \in 1..Items : calls[i] = IF i <= n /\ i \notin I THEN 1 ELSE 0
    BY DEF PmCount
  <1>2. A \in SUBSET (1..n) /\ h \in A
    BY <1>1 DEF Away
  <1>3. Cardinality(A \ {h}) = a - 1
    BY <1>1, <1>2, AwayFacts
  <1>4. A \ {h} = Away(I, R, N)
    BY <1>1 DEF Away
  <1>5. A \ {h} \in SUBSET (1..n)
    BY <1>2
  <1>6. Cardinality(A \ {h}) \in Nat /\ (Cardinality(A \ {h}) = 0 <=> A \ {h} = {})
    BY <1>5, AwayFacts
  <1>7. a >= 1 /\ a - 1 <= Concurrency
    BY <1>0, <1>1, <1>3, <1>6
  <1>8. a = 1 => I = {}
    <2>1. a = 1 => A \ {h} = {}
      BY <1>3, <1>6
    <2> QED BY <1>1, <2>1 DEF Away
  <1>9. N \subseteq 1..n /\ I \cap N = {} /\ R \cap N = {}
    BY <1>1
  <1> HIDE DEF N, A
  <1>10. PmCount(n, a - 1, R, calls, I, N)
    BY <1>1, <1>3, <1>4, <1>7, <1>9 DEF PmCount
  <1> QED BY <1>7, <1>8, <1>10 DEF N

\* q and t are a pmap and a queue that are right, and t has from s what is not
\* of pmap.
PmNow(s, q, t) ==
    /\ PmOk(q, DueIn(t, "item"), DueIn(t, "mapped")) /\ QueueOf(t)
    /\ \A o \in {"call", "settled", "run", "attempt", "tried"} : DueIn(t, o) = DueIn(s, o)

\* launch keeps what the invariant says.
LEMMA LaunchKeeps ==
    ASSUME NEW p, NEW s, QueueOf(s), PmOk(p, DueIn(s, "item"), DueIn(s, "mapped"))
    PROVE  PmNow(s, launch(p).pm, s \o launch(p).jobs)
  <1> DEFINE k == Least(Concurrency - p.inFlight, Items - p.next)
             P(j) == [p EXCEPT !.next = @ + j, !.inFlight = @ + j]
             J(j) == [i \in 1..j |-> Reaction("item", p.next + i, TRUE)]
  <1>0. /\ Items \in Nat /\ Concurrency \in Nat /\ PmShape(p) /\ p.next \in Nat /\ p.inFlight \in Int /\ p.settledCount \in Nat
        /\ {"run", "attempt", "tried", "call", "settled", "item", "mapped"} \subseteq CallOp
    BY AsyncAssumption DEF AsyncAssumption, PmOk, PmShape, CallOp
  <1>1. launch(p) = IF p.failed \/ k <= 0 THEN [pm |-> p, jobs |-> <<>>] ELSE [pm |-> P(k), jobs |-> J(k)]
    BY DEF launch
  <1>2. /\ k \in Int /\ k <= Concurrency - p.inFlight /\ k <= Items - p.next
    <2>1. Concurrency - p.inFlight \in Int /\ Items - p.next \in Int
      BY <1>0
    <2>2. \A a, b \in Int : Least(a, b) \in Int /\ Least(a, b) <= a /\ Least(a, b) <= b
      BY DEF Least
    <2> QED BY <2>1, <2>2
  <1> HIDE DEF k, P, J
  <1>3. CASE p.failed \/ k <= 0
    <2>1. launch(p) = [pm |-> p, jobs |-> <<>>]
      BY <1>1, <1>3
    <2>2. launch(p).pm = p /\ launch(p).jobs = <<>>
      BY <2>1
    <2>3. s \o launch(p).jobs = s
      BY <2>2, QueueNone
    <2> QED BY <2>2, <2>3 DEF PmNow
  <1>4. CASE ~p.failed /\ k > 0
    <2>1. k \in Nat /\ k # 0 /\ p.next + k <= Items /\ p.inFlight + k <= Concurrency /\ ~(k <= 0)
      BY <1>0, <1>2, <1>4
    <2>2. launch(p) = [pm |-> P(k), jobs |-> J(k)]
      BY <1>1, <1>4, <2>1
    <2>3. launch(p).pm = P(k) /\ launch(p).jobs = J(k)
      BY <2>2
    <2> DEFINE I == DueIn(s, "item")
               M == DueIn(s, "mapped")
               t == s \o J(k)
    <2>4. /\ PmCount(p.next + k, p.inFlight + k, p.running, p.calls, I \cup Fresh(p.next, k), M)
          /\ \A x \in I : x \notin Fresh(p.next, k)
      <3>1. PmCount(p.next, p.inFlight, p.running, p.calls, I, M)
        BY DEF PmOk
      <3> QED BY <1>0, <2>1, <3>1, CountLaunch
    <2>5. QueueOf(t) /\ \A o \in CallOp : Comes(s, t, o, "item", Fresh(p.next, k))
      BY <1>0, <2>1, <2>4, QueueJobs DEF J
    <2> HIDE DEF t
    <2>6. /\ DueIn(t, "item") = I \cup Fresh(p.next, k) /\ DueIn(t, "mapped") = M
          /\ \A o \in {"call", "settled", "run", "attempt", "tried"} : DueIn(t, o) = DueIn(s, o)
      BY <1>0, <2>5 DEF Comes
    <2> DEFINE q == P(k)
    <2>7. /\ DOMAIN q = DOMAIN p /\ q.next = p.next + k /\ q.inFlight = p.inFlight + k
          /\ q.pc = p.pc /\ q.settledCount = p.settledCount /\ q.failed = p.failed /\ q.running = p.running /\ q.calls = p.calls
      BY <1>0 DEF P, PmShape
    <2> HIDE DEF q
    <2>8. PmShape(q)
      <3>1. p.next + k \in Nat /\ p.inFlight + k \in Int
        BY <1>0, <2>1
      <3> QED BY <1>0, <2>7, <3>1 DEF PmShape
    <2>9. ~q.failed => q.settledCount + q.inFlight = q.next
      <3>1. p.settledCount + p.inFlight = p.next
        BY <1>4 DEF PmOk
      <3>2. p.settledCount + (p.inFlight + k) = p.next + k
        BY <1>0, <2>1, <3>1
      <3> QED BY <2>7, <3>2
    <2>10. q.pc # "resolved"
      <3>1. p.pc = "resolved" => p.next = Items
        BY DEF PmOk
      <3>2. p.next # Items
        BY <1>0, <2>1
      <3> QED BY <2>7, <3>1, <3>2
    <2>11. PmOk(q, DueIn(t, "item"), DueIn(t, "mapped"))
      BY <2>4, <2>6, <2>7, <2>8, <2>9, <2>10 DEF PmOk
    <2>12. PmNow(s, q, t)
      BY <2>5, <2>6, <2>11 DEF PmNow
    <2> QED BY <2>3, <2>12 DEF q, t
  <1> QED BY <1>2, <1>3, <1>4

\* pmap launches the first items.
LEMMA PmStart ==
    ASSUME QueueOf(micro), PmInv, pmap
    PROVE  PmInv' /\ PmMoves
  <1> DEFINE l == launch(pm)
             t == micro \o l.jobs
             q == l.pm
             c == IF Items = 0 THEN "resolved" ELSE "pending"
  <1>0. Items \in Nat
    BY AsyncAssumption DEF AsyncAssumption
  <1>1. pm' = [q EXCEPT !.pc = c] /\ micro' = t
    BY DEF pmap
  <1>2. PmNow(micro, q, t)
    BY LaunchKeeps DEF PmInv, Due
  <1> HIDE DEF l, t, q, c
  <1>3. /\ PmOk(q, DueIn(t, "item"), DueIn(t, "mapped")) /\ QueueOf(t) /\ PmShape(q)
        /\ \A o \in {"call", "settled", "run", "attempt", "tried"} : DueIn(t, o) = Due(o)
    BY <1>2 DEF PmNow, Due, PmOk
  <1>4. /\ DOMAIN pm' = DOMAIN q /\ pm'.next = q.next /\ pm'.inFlight = q.inFlight /\ pm'.pc = c
        /\ pm'.settledCount = q.settledCount /\ pm'.failed = q.failed /\ pm'.running = q.running /\ pm'.calls = q.calls
    BY <1>1, <1>3 DEF PmShape
  <1>5. PmShape(pm')
    BY <1>3, <1>4 DEF PmShape
  <1>6. c = "resolved" => q.next = Items /\ DueIn(t, "item") = {}
    <2>1. q.next \in Nat /\ q.next <= Items /\ DueIn(t, "item") \subseteq 1..q.next
      BY <1>3 DEF PmOk, PmCount, PmShape
    <2>2. c = "resolved" => Items = 0
      BY DEF c
    <2> QED BY <1>0, <2>1, <2>2
  <1>7. PmOk(pm', DueIn(t, "item"), DueIn(t, "mapped"))
    BY <1>3, <1>4, <1>5, <1>6 DEF PmOk
  <1> QED BY <1>1, <1>3, <1>7 DEF PmInv, PmMoves, Due

\* fn is called with an item.
LEMMA PmCalls ==
    ASSUME QueueOf(micro), PmInv, ItemCalls
    PROVE  PmInv' /\ PmMoves
  <1> DEFINE h == Subject
             I == Due("item")
             M == Due("mapped")
             c == [pm.calls EXCEPT ![h] = @ + 1]
             R == pm.running \cup {h}
  <1>0. /\ {"run", "attempt", "tried", "call", "settled", "item", "mapped"} \subseteq CallOp
        /\ PmShape(pm) /\ PmCount(pm.next, pm.inFlight, pm.running, pm.calls, I, M)
    BY DEF CallOp, PmInv, PmOk
  <1>1. Next_("item") /\ micro' = Tail(micro) /\ pm' = [pm EXCEPT !.calls = c, !.running = R]
    <2>1. pm' = [pm EXCEPT !.calls[h] = @ + 1, !.running = @ \cup {h}]
      BY DEF ItemCalls
    <2>2. pm' = [pm EXCEPT !.calls = c, !.running = R]
      BY <1>0, <2>1 DEF PmShape
    <2> QED BY <2>2 DEF ItemCalls
  <1>2. /\ QueueOf(micro') /\ h \in I /\ Due("item")' = I \ {h} /\ Due("mapped")' = M
        /\ \A o \in CallOp : o # "item" => Due(o)' = Due(o)
    BY <1>0, <1>1, QueueTakes DEF Due
  <1> HIDE DEF h, I, M
  <1>3. c \in [1..Items -> Nat] /\ PmCount(pm.next, pm.inFlight, R, c, I \ {h}, M)
    <2>1. pm.next \in Nat /\ pm.calls \in [1..Items -> Nat]
      BY <1>0 DEF PmShape
    <2> QED BY <1>0, <1>2, <2>1, CountCall
  <1> HIDE DEF c, R
  <1>4. /\ DOMAIN pm' = DOMAIN pm /\ pm'.next = pm.next /\ pm'.inFlight = pm.inFlight /\ pm'.pc = pm.pc
        /\ pm'.settledCount = pm.settledCount /\ pm'.failed = pm.failed /\ pm'.running = R /\ pm'.calls = c
    BY <1>0, <1>1 DEF PmShape
  <1>5. PmShape(pm')
    BY <1>0, <1>3, <1>4 DEF PmShape
  <1>6. /\ ~pm.failed => pm.settledCount + pm.inFlight = pm.next
        /\ pm.pc = "resolved" => pm.next = Items /\ I \ {h} = {}
    BY DEF PmInv, PmOk, I
  <1>7. PmOk(pm', I \ {h}, M)
    BY <1>3, <1>4, <1>5, <1>6 DEF PmOk
  <1>8. PmOk(pm', Due("item")', Due("mapped")')
    BY <1>2, <1>7
  <1> QED BY <1>0, <1>2, <1>8 DEF PmInv, PmMoves

\* What fn returned for an item settles.
LEMMA PmItemSettles ==
    ASSUME QueueOf(micro), PmInv, NEW h \in pm.running, NEW ok \in BOOLEAN, ItemSettles(h, ok)
    PROVE  PmInv' /\ PmMoves
  <1> DEFINE I == Due("item")
             M == Due("mapped")
             R == pm.running \ {h}
             r == Reaction("mapped", h, ok)
  <1>0. /\ {"run", "attempt", "tried", "call", "settled", "item", "mapped"} \subseteq CallOp
        /\ PmShape(pm) /\ PmCount(pm.next, pm.inFlight, pm.running, pm.calls, I, M)
    BY DEF CallOp, PmInv, PmOk
  <1>1. micro' = Append(micro, r) /\ pm' = [pm EXCEPT !.running = R]
    BY DEF ItemSettles
  <1>2. r.op = "mapped" /\ r.x = h
    BY DEF Reaction
  <1>3. PmCount(pm.next, pm.inFlight, R, pm.calls, I, M \cup {h}) /\ h \notin M
    BY <1>0, CountSettles
  <1> HIDE DEF r, R
  <1>4. /\ QueueOf(Append(micro, r))
        /\ \A o \in CallOp : DueIn(Append(micro, r), o) = IF r.op = o THEN DueIn(micro, o) \cup {r.x} ELSE DueIn(micro, o)
    BY <1>2, <1>3, QueueAdd DEF Due
  <1>5. DueIn(Append(micro, r), "mapped") = M \cup {h} /\ \A o \in CallOp : o # "mapped" => DueIn(Append(micro, r), o) = Due(o)
    BY <1>0, <1>2, <1>4 DEF Due
  <1>6. /\ QueueOf(micro') /\ Due("mapped")' = M \cup {h}
        /\ \A o \in CallOp : o # "mapped" => Due(o)' = Due(o)
    BY <1>1, <1>4, <1>5 DEF Due
  <1>7. Due("item")' = I
    BY <1>0, <1>6
  <1> HIDE DEF I, M
  <1>8. /\ DOMAIN pm' = DOMAIN pm /\ pm'.next = pm.next /\ pm'.inFlight = pm.inFlight /\ pm'.pc = pm.pc
        /\ pm'.settledCount = pm.settledCount /\ pm'.failed = pm.failed /\ pm'.running = R /\ pm'.calls = pm.calls
    BY <1>0, <1>1 DEF PmShape
  <1>9. PmShape(pm')
    BY <1>0, <1>8 DEF PmShape
  <1>10. /\ ~pm.failed => pm.settledCount + pm.inFlight = pm.next
         /\ pm.pc = "resolved" => pm.next = Items /\ I = {}
    BY DEF PmInv, PmOk, I
  <1>11. PmOk(pm', I, M \cup {h})
    BY <1>3, <1>8, <1>9, <1>10 DEF PmOk
  <1>12. PmOk(pm', Due("item")', Due("mapped")')
    BY <1>6, <1>7, <1>11
  <1> QED BY <1>0, <1>6, <1>12 DEF PmInv, PmMoves

\* An item has settled: pmap fails, or resolves, or launches the next ones.
LEMMA PmSettling ==
    ASSUME QueueOf(micro), PmInv, PmapSettles
    PROVE  PmInv' /\ PmMoves
  <1> DEFINE h == Subject
             I == Due("item")
             M == Due("mapped")
             s == Tail(micro)
             p == [pm EXCEPT !.inFlight = @ - 1]
             ok == Head(micro).ok
             r == IF p.failed THEN [pm |-> p, jobs |-> <<>>] ELSE Mapped(p, ok)
  <1>0. /\ {"run", "attempt", "tried", "call", "settled", "item", "mapped"} \subseteq CallOp
        /\ PmShape(pm) /\ PmCount(pm.next, pm.inFlight, pm.running, pm.calls, I, M)
        /\ pm.next \in Nat /\ pm.inFlight \in Int /\ pm.settledCount \in Nat /\ Items \in Nat /\ pm.next <= Items
    BY AsyncAssumption DEF AsyncAssumption, CallOp, PmInv, PmOk, PmShape, PmCount
  <1>1. Next_("mapped") /\ pm' = r.pm /\ micro' = s \o r.jobs
    BY DEF PmapSettles
  <1>2. /\ QueueOf(s) /\ h \in M /\ DueIn(s, "mapped") = M \ {h} /\ DueIn(s, "item") = I
        /\ \A o \in CallOp : o # "mapped" => DueIn(s, o) = Due(o)
    BY <1>0, <1>1, QueueTakes
  <1>3. /\ ~pm.failed => pm.settledCount + pm.inFlight = pm.next
        /\ pm.pc = "resolved" => pm.next = Items /\ I = {}
    BY DEF PmInv, PmOk
  <1> HIDE DEF h, I, M, s, ok
  <1> DEFINE N == M \ {h}
             a == pm.inFlight - 1
  <1>4. /\ PmCount(pm.next, a, pm.running, pm.calls, I, N) /\ pm.inFlight >= 1 /\ (pm.inFlight = 1 => I = {})
    BY <1>0, <1>2, CountMapped
  <1> HIDE DEF N
  <1>5. a \in Int
    BY <1>0
  <1>6. ASSUME PmOk(pm', I, N), micro' = s PROVE PmInv' /\ PmMoves
    <2>1. /\ QueueOf(micro') /\ Due("mapped")' = N /\ Due("item")' = I
          /\ \A o \in CallOp : o # "mapped" => Due(o)' = Due(o)
      BY <1>2, <1>6 DEF Due, N
    <2>2. PmOk(pm', Due("item")', Due("mapped")')
      BY <1>6, <2>1
    <2> QED BY <1>0, <2>1, <2>2 DEF PmInv, PmMoves
  <1>7. p = [pm EXCEPT !.inFlight = a]
    BY <1>0 DEF PmShape
  <1> HIDE DEF a, p
  <1>8. /\ DOMAIN p = DOMAIN pm /\ p.next = pm.next /\ p.inFlight = a /\ p.pc = pm.pc
        /\ p.settledCount = pm.settledCount /\ p.failed = pm.failed /\ p.running = pm.running /\ p.calls = pm.calls
    BY <1>0, <1>7 DEF PmShape
  <1>9. PmShape(p)
    BY <1>0, <1>5, <1>8 DEF PmShape
  <1>10. CASE p.failed
    <2>1. pm' = p /\ micro' = s
      <3>1. r = [pm |-> p, jobs |-> <<>>]
        BY <1>10
      <3>2. r.pm = p /\ r.jobs = <<>>
        BY <3>1
      <3> HIDE DEF r
      <3> QED BY <1>1, <1>2, <3>2, QueueNone
    <2>2. PmOk(p, I, N)
      BY <1>3, <1>4, <1>8, <1>9, <1>10 DEF PmOk
    <2> QED BY <1>6, <2>1, <2>2
  <1>11. CASE ~p.failed /\ ~ok
    <2> DEFINE q == [p EXCEPT !.failed = TRUE, !.pc = "rejected"]
    <2>1. pm' = q /\ micro' = s
      <3>1. r = [pm |-> q, jobs |-> <<>>]
        BY <1>11 DEF Mapped
      <3> HIDE DEF q
      <3>2. r.pm = q /\ r.jobs = <<>>
        BY <3>1
      <3> HIDE DEF r
      <3> QED BY <1>1, <1>2, <3>2, QueueNone
    <2>2. /\ DOMAIN q = DOMAIN p /\ q.next = p.next /\ q.inFlight = p.inFlight /\ q.pc = "rejected"
          /\ q.settledCount = p.settledCount /\ q.failed = TRUE /\ q.running = p.running /\ q.calls = p.calls
      BY <1>9 DEF PmShape
    <2> HIDE DEF q
    <2>3. PmShape(q)
      BY <1>9, <2>2 DEF PmShape
    <2>4. PmOk(q, I, N)
      BY <1>4, <1>8, <2>2, <2>3 DEF PmOk
    <2> QED BY <1>6, <2>1, <2>4
  <1> DEFINE c == pm.settledCount + 1
  <1>12. c \in Nat /\ (~pm.failed => c + a = pm.next)
    BY <1>0, <1>3 DEF a
  <1>13. CASE ~p.failed /\ ok /\ p.settledCount + 1 = Items
    <2> DEFINE q == [p EXCEPT !.settledCount = @ + 1, !.pc = "resolved"]
    <2>1. pm' = q /\ micro' = s
      <3>1. r = [pm |-> q, jobs |-> <<>>]
        BY <1>13 DEF Mapped
      <3> HIDE DEF q
      <3>2. r.pm = q /\ r.jobs = <<>>
        BY <3>1
      <3> HIDE DEF r
      <3> QED BY <1>1, <1>2, <3>2, QueueNone
    <2>2. /\ DOMAIN q = DOMAIN p /\ q.next = p.next /\ q.inFlight = p.inFlight /\ q.pc = "resolved"
          /\ q.settledCount = c /\ q.failed = p.failed /\ q.running = p.running /\ q.calls = p.calls
      BY <1>8, <1>9 DEF PmShape
    <2> HIDE DEF q
    <2>3. PmShape(q)
      BY <1>9, <1>12, <2>2 DEF PmShape
    <2>4. pm.next = Items /\ pm.inFlight = 1
      <3>1. c = Items /\ c + a = pm.next /\ a + 1 = pm.inFlight
        BY <1>0, <1>8, <1>12, <1>13 DEF a
      <3> QED BY <1>0, <1>4, <1>5, <1>12, <3>1
    <2>5. PmOk(q, I, N)
      BY <1>4, <1>8, <1>12, <2>2, <2>3, <2>4 DEF PmOk
    <2> QED BY <1>6, <2>1, <2>5
  <1>14. CASE ~p.failed /\ ok /\ p.settledCount + 1 # Items
    <2> DEFINE q == [p EXCEPT !.settledCount = @ + 1]
    <2>1. r = launch(q)
      BY <1>14 DEF Mapped
    <2>2. /\ DOMAIN q = DOMAIN p /\ q.next = p.next /\ q.inFlight = p.inFlight /\ q.pc = p.pc
          /\ q.settledCount = c /\ q.failed = p.failed /\ q.running = p.running /\ q.calls = p.calls
      BY <1>8, <1>9 DEF PmShape
    <2> HIDE DEF q, r
    <2>3. PmShape(q)
      BY <1>9, <1>12, <2>2 DEF PmShape
    <2>4. PmOk(q, I, N)
      BY <1>3, <1>4, <1>8, <1>12, <2>2, <2>3 DEF PmOk
    <2>5. PmNow(s, launch(q).pm, s \o launch(q).jobs)
      BY <1>2, <2>4, LaunchKeeps DEF N
    <2>6. PmNow(s, pm', micro')
      BY <1>1, <2>1, <2>5
    <2>7. \A o \in {"call", "settled", "run", "attempt", "tried"} : DueIn(s, o) = Due(o)
      BY <1>0, <1>2
    <2> QED BY <2>6, <2>7 DEF PmNow, PmInv, PmMoves, Due
  <1> QED BY <1>10, <1>11, <1>13, <1>14

-----------------------------------------------------------------------------
(* All that calls what user code hands over *)

CallsInv == QueueOf(micro) /\ PoolInv /\ PmInv /\ RtInv /\ RateInv

\* What a step leaves alone stays right.
LEMMA CallsFrame ==
    ASSUME CallsInv
    PROVE  /\ pool' = pool /\ Due("call")' = Due("call") /\ Due("settled")' = Due("settled") => PoolInv'
           /\ pm' = pm /\ Due("item")' = Due("item") /\ Due("mapped")' = Due("mapped") => PmInv'
           /\ rt' = rt /\ Due("run")' = Due("run") /\ Due("attempt")' = Due("attempt") /\ Due("tried")' = Due("tried") => RtInv'
           /\ rate' = rate => RateInv'
  <1>1. ASSUME pool' = pool, Due("call")' = Due("call"), Due("settled")' = Due("settled") PROVE PoolInv'
    BY <1>1 DEF CallsInv, PoolInv
  <1>2. ASSUME pm' = pm, Due("item")' = Due("item"), Due("mapped")' = Due("mapped") PROVE PmInv'
    BY <1>2 DEF CallsInv, PmInv
  <1>3. ASSUME rt' = rt, Due("run")' = Due("run"), Due("attempt")' = Due("attempt"), Due("tried")' = Due("tried") PROVE RtInv'
    BY <1>3 DEF CallsInv, RtInv
  <1>4. ASSUME rate' = rate PROVE RateInv'
    BY <1>4 DEF CallsInv, RateInv
  <1> QED BY <1>1, <1>2, <1>3, <1>4

\* A step that leaves all four alone, and their reactions.
LEMMA CallsSame ==
    ASSUME CallsInv, QueueOf(micro'), \A o \in CallOp : Due(o)' = Due(o), UNCHANGED <<pool, pm, rt, rate>>
    PROVE  CallsInv'
  <1>1. {"run", "attempt", "tried", "call", "settled", "item", "mapped"} \subseteq CallOp
    BY DEF CallOp
  <1>2. /\ Due("run")' = Due("run") /\ Due("attempt")' = Due("attempt") /\ Due("tried")' = Due("tried")
        /\ Due("call")' = Due("call") /\ Due("settled")' = Due("settled")
        /\ Due("item")' = Due("item") /\ Due("mapped")' = Due("mapped")
    BY <1>1
  <1>3. PoolInv' /\ PmInv' /\ RtInv' /\ RateInv'
    BY <1>2, CallsFrame
  <1> QED BY <1>3 DEF CallsInv

\* The Semaphore adds and takes grants only.
LEMMA CallsSem ==
    ASSUME CallsInv, NEW t \in Task, acquire(t) \/ Release(t) \/ AcquireTimesOut(t)
    PROVE  CallsInv'
  <1>0. QueueOf(micro)
    BY DEF CallsInv
  <1>1. \/ micro' = micro
        \/ \E u : micro' = Append(micro, Reaction("grant", u, TRUE))
    BY DEF acquire, Release, AcquireTimesOut, Resolves
  <1>2. UNCHANGED <<pool, pm, rt, rate>>
    BY DEF acquire, Release, AcquireTimesOut
  <1>3. QueueOf(micro') /\ \A o \in CallOp : Due(o)' = Due(o)
    <2>1. CASE micro' = micro
      BY <1>0, <2>1 DEF Due
    <2>2. ASSUME NEW u, micro' = Append(micro, Reaction("grant", u, TRUE))
          PROVE  QueueOf(micro') /\ \A o \in CallOp : Due(o)' = Due(o)
      <3> DEFINE r == Reaction("grant", u, TRUE)
      <3>1. r.op = "grant" /\ r.op \notin CallOp
        BY DEF Reaction, CallOp
      <3>2. micro' = Append(micro, r)
        BY <2>2
      <3> HIDE DEF r
      <3>3. /\ QueueOf(Append(micro, r))
            /\ \A o \in CallOp : DueIn(Append(micro, r), o) = IF r.op = o THEN DueIn(micro, o) \cup {r.x} ELSE DueIn(micro, o)
        BY <1>0, <3>1, QueueAdd
      <3>4. \A o \in CallOp : DueIn(Append(micro, r), o) = DueIn(micro, o)
        BY <3>1, <3>3
      <3> QED BY <3>2, <3>3, <3>4 DEF Due
    <2> QED BY <1>1, <2>1, <2>2
  <1> QED BY <1>2, <1>3, CallsSame

\* A grant is served.
LEMMA CallsGranted ==
    ASSUME CallsInv, Granted
    PROVE  CallsInv'
  <1>1. /\ QueueOf(micro) /\ micro # <<>> /\ Head(micro).op = "grant" /\ micro' = Tail(micro)
        /\ UNCHANGED <<pool, pm, rt, rate>>
    BY DEF CallsInv, Granted, Next_
  <1>2. /\ QueueOf(Tail(micro))
        /\ \A o \in CallOp : DueIn(Tail(micro), o) = IF Head(micro).op = o THEN DueIn(micro, o) \ {Head(micro).x} ELSE DueIn(micro, o)
    BY <1>1, QueuePop
  <1>3. \A o \in CallOp : o # "grant"
    BY DEF CallOp
  <1>4. \A o \in CallOp : DueIn(Tail(micro), o) = DueIn(micro, o)
    BY <1>1, <1>2, <1>3
  <1>5. QueueOf(micro') /\ \A o \in CallOp : Due(o)' = Due(o)
    BY <1>1, <1>2, <1>4 DEF Due
  <1> QED BY <1>1, <1>5, CallsSame

\* The Channel has no reactions of its own.
LEMMA CallsChan ==
    ASSUME CallsInv, send \/ recv \/ close \/ IteratorStarts \/ IteratorReturns \/ RecvTimesOut \/ UNCHANGED vars
    PROVE  CallsInv'
  <1>1. UNCHANGED <<micro, pool, pm, rt, rate>>
    BY DEF send, recv, close, IteratorStarts, IteratorReturns, RecvTimesOut, vars
  <1>2. QueueOf(micro') /\ \A o \in CallOp : Due(o)' = Due(o)
    BY <1>1 DEF CallsInv, Due
  <1> QED BY <1>1, <1>2, CallsSame

\* A step of the Pool.
LEMMA CallsPool ==
    ASSUME CallsInv,
           \/ submit \/ PoolCalls \/ PoolSettles
           \/ \E f \in DOMAIN pool.frames, ok \in BOOLEAN : JobSettles(f, ok)
    PROVE  CallsInv'
  <1>1. PoolInv' /\ PoolMoves
    BY PoolSubmit, PoolCalling, PoolJobSettles, PoolSettling DEF CallsInv
  <1>2. UNCHANGED <<pm, rt, rate>>
    BY DEF submit, PoolCalls, PoolSettles, JobSettles
  <1>3. /\ Due("run")' = Due("run") /\ Due("attempt")' = Due("attempt") /\ Due("tried")' = Due("tried")
        /\ Due("item")' = Due("item") /\ Due("mapped")' = Due("mapped") /\ QueueOf(micro')
    BY <1>1 DEF PoolMoves
  <1>4. PmInv' /\ RtInv' /\ RateInv'
    BY <1>2, <1>3, CallsFrame
  <1> QED BY <1>1, <1>3, <1>4 DEF CallsInv

\* A step of pmap.
LEMMA CallsPmap ==
    ASSUME CallsInv,
           \/ pmap \/ ItemCalls \/ PmapSettles
           \/ \E i \in pm.running, ok \in BOOLEAN : ItemSettles(i, ok)
    PROVE  CallsInv'
  <1>1. PmInv' /\ PmMoves
    BY PmStart, PmCalls, PmItemSettles, PmSettling DEF CallsInv
  <1>2. UNCHANGED <<pool, rt, rate>>
    BY DEF pmap, ItemCalls, PmapSettles, ItemSettles
  <1>3. /\ Due("run")' = Due("run") /\ Due("attempt")' = Due("attempt") /\ Due("tried")' = Due("tried")
        /\ Due("call")' = Due("call") /\ Due("settled")' = Due("settled") /\ QueueOf(micro')
    BY <1>1 DEF PmMoves
  <1>4. PoolInv' /\ RtInv' /\ RateInv'
    BY <1>2, <1>3, CallsFrame
  <1> QED BY <1>1, <1>3, <1>4 DEF CallsInv

\* A step of retry.
LEMMA CallsRetry ==
    ASSUME CallsInv,
           \/ retry \/ RetryRuns \/ RetryCalls \/ (\E ok \in BOOLEAN : AttemptSettles(ok)) \/ RetrySettles \/ BackoffEnds
    PROVE  CallsInv'
  <1>1. RtInv' /\ RtMoves
    BY RtKeeps DEF CallsInv
  <1>2. UNCHANGED <<pool, pm, rate>>
    BY DEF retry, RetryRuns, RetryCalls, AttemptSettles, RetrySettles, BackoffEnds
  <1>3. /\ Due("call")' = Due("call") /\ Due("settled")' = Due("settled")
        /\ Due("item")' = Due("item") /\ Due("mapped")' = Due("mapped") /\ QueueOf(micro')
    BY <1>1 DEF RtMoves
  <1>4. PoolInv' /\ PmInv' /\ RateInv'
    BY <1>2, <1>3, CallsFrame
  <1> QED BY <1>1, <1>3, <1>4 DEF CallsInv

\* A step of debounce or throttle.
LEMMA CallsRate ==
    ASSUME CallsInv, debounce \/ throttle \/ RateFires \/ cancel \/ Tick
    PROVE  CallsInv'
  <1>1. RateInv'
    BY RateKeeps DEF CallsInv
  <1>2. UNCHANGED <<micro, pool, pm, rt>>
    BY DEF debounce, throttle, RateFires, cancel, Tick
  <1>3. QueueOf(micro') /\ \A o \in CallOp : Due(o)' = Due(o)
    BY <1>2 DEF CallsInv, Due
  <1>4. {"run", "attempt", "tried", "call", "settled", "item", "mapped"} \subseteq CallOp
    BY DEF CallOp
  <1>5. /\ Due("run")' = Due("run") /\ Due("attempt")' = Due("attempt") /\ Due("tried")' = Due("tried")
        /\ Due("call")' = Due("call") /\ Due("settled")' = Due("settled")
        /\ Due("item")' = Due("item") /\ Due("mapped")' = Due("mapped")
    BY <1>3, <1>4
  <1>6. PoolInv' /\ PmInv' /\ RtInv'
    BY <1>2, <1>5, CallsFrame
  <1> QED BY <1>1, <1>3, <1>6 DEF CallsInv

\* Every step.
LEMMA CallsNext == CallsInv /\ [Next]_vars => CallsInv'
  <1> SUFFICES ASSUME CallsInv, [Next]_vars PROVE CallsInv'
    OBVIOUS
  <1> QED BY CallsSem, CallsGranted, CallsChan, CallsPool, CallsPmap, CallsRetry, CallsRate DEF Next, Reactions

\* The beginning.
LEMMA CallsInit == Init => CallsInv
  <1> SUFFICES ASSUME Init PROVE CallsInv
    OBVIOUS
  <1>0. /\ {Items, Retries, Window, MaxJobs, Slots, Concurrency} \subseteq Nat
    BY AsyncAssumption DEF AsyncAssumption
  <1>1. micro = <<>> /\ \A o : Due(o) = {}
    BY DEF Init, Due, DueIn
  <1>2. QueueOf(micro)
    <2>1. micro \in Seq({})
      BY <1>1
    <2>2. \A o \in CallOp : OnceIn(micro, o)
      BY <1>1 DEF OnceIn
    <2> QED BY <2>1, <2>2 DEF QueueOf
  <1>3. PoolInv
    <2>1. /\ DOMAIN pool = {"active", "q", "submitted", "frames", "running", "calls", "settled"}
          /\ pool.active = 0 /\ pool.submitted = 0 /\ pool.q = <<>> /\ pool.frames = <<>> /\ pool.running = <<>>
          /\ pool.calls = [j \in 1..MaxJobs |-> 0] /\ pool.settled = [j \in 1..MaxJobs |-> 0]
      BY DEF Init
    <2>2. /\ pool.calls \in [1..MaxJobs -> Nat] /\ pool.settled \in [1..MaxJobs -> Nat]
          /\ \A j \in 1..MaxJobs : pool.calls[j] = 0 /\ pool.settled[j] = 0
      BY <2>1
    <2>3. PoolShape(pool)
      BY <2>1, <2>2 DEF PoolShape
    <2>4. Len(<<>>) = 0 /\ 1..0 = {}
      OBVIOUS
    <2>5. PoolLine(pool) /\ PoolSlots(pool)
      BY <1>0, <2>1, <2>4 DEF PoolLine, JobLine, PoolSlots
    <2>6. PoolStages(pool, Due("call"), Due("settled"))
      BY <1>1, <2>1, <2>2, <2>4 DEF PoolStages, Stages
    <2> QED BY <2>3, <2>5, <2>6 DEF PoolInv
  <1>4. PmInv
    <2>1. /\ DOMAIN pm = {"pc", "next", "inFlight", "settledCount", "failed", "running", "calls"}
          /\ pm.pc = "idle" /\ pm.next = 0 /\ pm.inFlight = 0 /\ pm.settledCount = 0 /\ pm.failed = FALSE /\ pm.running = {}
      BY DEF Init
    <2>2. pm.calls \in [1..Items -> Nat] /\ \A i \in 1..Items : pm.calls[i] = 0
      BY DEF Init
    <2>3. PmShape(pm)
      <3>1. pm.failed \in BOOLEAN
        BY <2>1
      <3>2. pm.next \in Nat /\ pm.inFlight \in Int /\ pm.settledCount \in Nat
        BY <2>1
      <3>3. DOMAIN pm = {"pc", "next", "inFlight", "settledCount", "failed", "running", "calls"}
        BY <2>1
      <3> QED BY <2>2, <3>1, <3>2, <3>3 DEF PmShape
    <2>4. Cardinality(Away({}, {}, {})) = 0
      <3>1. Away({}, {}, {}) = {}
        BY DEF Away
      <3> QED BY <3>1, FS_EmptySet
    <2>5. \A i \in 1..Items : ~(i <= 0)
      BY <1>0
    <2>6. PmCount(0, 0, {}, pm.calls, {}, {})
      <3>1. \A i \in 1..Items : pm.calls[i] = IF i <= 0 /\ i \notin {} THEN 1 ELSE 0
        BY <2>2, <2>5
      <3>2. 0 <= Items /\ 0 <= Concurrency
        BY <1>0
      <3> QED BY <2>4, <3>1, <3>2 DEF PmCount
    <2>7. PmOk(pm, {}, {})
      BY <2>1, <2>3, <2>6 DEF PmOk
    <2> QED BY <1>1, <2>7 DEF PmInv
  <1>5. RtInv
    <2>1. DOMAIN rt = {"pc", "attempt", "calls"} /\ rt.pc = "idle" /\ rt.attempt = 0 /\ rt.calls = 0
      BY DEF Init
    <2>2. RtShape(rt) /\ RtCounts(rt)
      BY <1>0, <2>1 DEF RtShape, RtCounts
    <2>3. RtDue(rt, {}, {}, {})
      BY DEF RtDue
    <2> QED BY <1>1, <2>2, <2>3 DEF RtInv
  <1>6. RateInv
    <2>1. /\ DOMAIN rate = {"last", "t", "due", "clock", "calls", "ran", "dropped"}
          /\ rate.last = -Window /\ rate.t = 0 /\ rate.due = 0 /\ rate.clock = 0 /\ rate.calls = 0 /\ rate.ran = <<>>
          /\ rate.dropped = 0
      BY DEF Init
    <2>2. RateShape(rate)
      BY <1>0, <2>1 DEF RateShape
    <2>3. DOMAIN rate.ran = {}
      BY <2>1
    <2> QED BY <2>1, <2>2, <2>3 DEF RateInv
  <1> QED BY <1>2, <1>3, <1>4, <1>5, <1>6 DEF CallsInv

\* The invariant says what is promised.
LEMMA CallsPromised == CallsInv => CallsAsPromised
  <1> SUFFICES ASSUME CallsInv PROVE CallsAsPromised
    OBVIOUS
  <1>0. Items \in Nat /\ Retries \in Nat /\ MaxJobs \in Nat
    BY AsyncAssumption DEF AsyncAssumption
  <1>1. \A j \in 1..MaxJobs : pool.settled[j] <= pool.calls[j] /\ pool.calls[j] <= 1
    <2>1. PICK n \in Nat : Stages(n, pool.running, pool.calls, pool.settled, Due("call"), Due("settled"))
      BY PoolFacts DEF CallsInv
    <2> SUFFICES ASSUME NEW j \in 1..MaxJobs PROVE pool.settled[j] <= pool.calls[j] /\ pool.calls[j] <= 1
      OBVIOUS
    <2>2. CASE j > n
      BY <2>1, <2>2 DEF Stages
    <2>3. CASE ~(j > n)
      <3>1. j \in 1..n
        BY <1>0, <2>3
      <3>2. Stage(j, Due("call"), pool.running[j], Due("settled"), pool.calls[j], pool.settled[j])
        BY <2>1, <3>1 DEF Stages
      <3> QED BY <3>2 DEF Stage
    <2> QED BY <2>2, <2>3
  <1>2. pool.active <= Slots
    BY DEF CallsInv, PoolInv, PoolSlots
  <1> DEFINE I == Due("item")
             M == Due("mapped")
             A == Away(I, pm.running, M)
  <1>3. /\ PmCount(pm.next, pm.inFlight, pm.running, pm.calls, I, M) /\ pm.next \in Nat
        /\ pm.pc = "resolved" => pm.next = Items /\ I = {}
    BY DEF CallsInv, PmInv, PmOk, PmShape
  <1> HIDE DEF I, M
  <1>4. /\ pm.next <= Items /\ I \subseteq 1..pm.next /\ pm.running \subseteq 1..pm.next /\ M \subseteq 1..pm.next
        /\ pm.inFlight = Cardinality(A) /\ pm.inFlight <= Concurrency
        /\ \A i \in 1..Items : pm.calls[i] = IF i <= pm.next /\ i \notin I THEN 1 ELSE 0
    BY <1>3 DEF PmCount
  <1>5. \A i \in 1..Items : pm.calls[i] <= 1
    BY <1>4
  <1>6. Cardinality(pm.running) <= pm.inFlight
    <2>1. A \in SUBSET (1..pm.next) /\ pm.running \in SUBSET A
      BY <1>4 DEF Away
    <2> HIDE DEF A
    <2>2. Cardinality(pm.running) <= Cardinality(A)
      BY <1>3, <2>1, AwayFacts
    <2> QED BY <1>4, <2>2 DEF A
  <1>7. pm.pc = "resolved" => \A i \in 1..Items : pm.calls[i] = 1
    BY <1>0, <1>3, <1>4
  <1>8. rt.calls <= Retries + 1
    <2>1. rt.calls \in Nat /\ rt.attempt \in Nat /\ rt.attempt <= Retries /\ rt.calls <= rt.attempt + 1
      BY DEF CallsInv, RtInv, RtShape, RtCounts
    <2> QED BY <1>0, <2>1
  <1>9. /\ rate.calls = 0 \/ rate.calls \in {rate.t, rate.dropped} \/ \E i \in DOMAIN rate.ran : rate.ran[i] = rate.calls
        /\ \A i, k \in DOMAIN rate.ran : rate.ran[i] = rate.ran[k] => i = k
    BY DEF CallsInv, RateInv
  <1> QED BY <1>1, <1>2, <1>4, <1>5, <1>6, <1>7, <1>8, <1>9 DEF CallsAsPromised

\* Whatever functions user code hands over, and however their outcomes
\* interleave: a job and an item are called once, although _pump's closures share
\* a variable; never more run than there are slots; retry calls Retries + 1 times
\* at most; pmap resolves when every item was called; and the last call of a
\* debounced or throttled function is not lost and runs once.
THEOREM EveryCallAsPromised == Spec => []CallsAsPromised
  <1> QED BY CallsInit, CallsNext, CallsPromised, PTL DEF Spec

=============================================================================
