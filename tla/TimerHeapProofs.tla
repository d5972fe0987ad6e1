--------------------------- MODULE TimerHeapProofs ---------------------------
(***************************************************************************)
(* TimerHeap for any number of timers and slots.  sift_up and sift_down    *)
(* are shown to move timers along a trail that ends, to leave every timer  *)
(* and every slot in place but for positions, and to restore the order of  *)
(* the heap; the free slots are shown to form a list without a cycle.      *)
(* From these follow HeapSound and, counting the generations of each slot, *)
(* that the heap implements TimerService.                                  *)
(***************************************************************************)
EXTENDS TimerHeap, SequenceTheorems, FiniteSetTheorems, WellFoundedInduction, TLAPS

-----------------------------------------------------------------------------
(* Trails *)

\* A set of naturals has a least element.
LEMMA LeastNat ==
  ASSUME NEW T \in SUBSET Nat, T # {}
  PROVE  \E x \in T : \A y \in T : x <= y
<1> DEFINE R == OpToRel(<, Nat)
<1>1. \A x, y \in Nat : <<x, y>> \in R <=> x < y
  BY DEF OpToRel
<1>2. IsWellFoundedOn(R, Nat)
  BY NatLessThanWellFounded
<1> HIDE DEF R
<1>3. PICK x \in T : \A y \in T : ~(<<y, x>> \in R)
  BY <1>2, WFMin
<1>4. \A y \in T : x \in Nat /\ y \in Nat /\ ~(y < x)
  BY <1>1, <1>3
<1> QED
  BY <1>4

\* Induction along a rank: what holds of a whenever it holds of all of lower
\* rank holds everywhere.
LEMMA RankInduction ==
  ASSUME NEW D, NEW r \in [D -> Nat], NEW A \in SUBSET D,
         \A a \in D : (\A b \in D : r[b] < r[a] => b \in A) => a \in A
  PROVE  A = D
<1> SUFFICES ASSUME D \ A # {} PROVE FALSE
  OBVIOUS
<1> DEFINE T == {r[a] : a \in D \ A}
<1>1. T \in SUBSET Nat /\ T # {}
  OBVIOUS
<1>2. PICK x \in T : \A y \in T : x <= y
  <2> HIDE DEF T
  <2> QED
    BY <1>1, LeastNat
<1>3. PICK a \in D \ A : x = r[a]
  OBVIOUS
<1>4. \A b \in D : r[b] < r[a] => b \in A
  <2> SUFFICES ASSUME NEW b \in D \ A, r[b] < r[a] PROVE FALSE
    OBVIOUS
  <2>1. r[b] \in T
    OBVIOUS
  <2>2. r[a] <= r[b] /\ r[a] \in Nat /\ r[b] \in Nat
    BY <1>2, <1>3, <2>1
  <2> QED
    BY <2>2
<1> QED
  BY <1>4

\* nx leads downwards in rank until it stays.
Descends(nx, D, r) ==
    /\ nx \in [D -> D] /\ r \in [D -> Nat]
    /\ \A a \in D : nx[a] # a => r[nx[a]] < r[a]

\* A set that nx does not leave.
Closed(nx, S) == \A a \in S : nx[a] \in S

\* Trails has the equation it is defined by: the least closed sets satisfy it.
LEMMA TrailsEquation ==
  ASSUME NEW D, NEW nx \in [D -> D], NEW a \in D
  PROVE  /\ nx[a] = a => Trails(nx)[a] = {a}
         /\ nx[a] # a => Trails(nx)[a] = {a} \cup Trails(nx)[nx[a]]
<1> DEFINE body(f) == [b \in DOMAIN nx |-> IF nx[b] = b THEN {b} ELSE {b} \cup f[nx[b]]]
           reach == [b \in D |-> {x \in D : \A S \in SUBSET D : b \in S /\ Closed(nx, S) => x \in S}]
<1>1. Trails(nx) = CHOOSE f : f = body(f)
  BY Zenon DEF Trails
<1>2. ASSUME NEW b \in D PROVE reach[b] = IF nx[b] = b THEN {b} ELSE {b} \cup reach[nx[b]]
  <2>1. \A c \in D : c \in reach[c] /\ reach[c] \in SUBSET D /\ nx[c] \in D
    OBVIOUS
  <2>2. ASSUME NEW c \in D, NEW x \in reach[c] PROVE nx[x] \in reach[c]
    BY <2>2 DEF Closed
  <2>3. CASE nx[b] = b
    <3>1. {b} \in SUBSET D /\ b \in {b} /\ Closed(nx, {b})
      BY <2>3 DEF Closed
    <3>2. \A x \in reach[b] : x \in {b}
      BY <3>1
    <3> QED
      BY <2>1, <2>3, <3>2
  <2>4. CASE nx[b] # b
    <3>1. reach[nx[b]] \subseteq reach[b]
      BY DEF Closed
    <3>2. ASSUME NEW x \in reach[b] PROVE x \in {b} \cup reach[nx[b]]
      <4>1. {b} \cup reach[nx[b]] \in SUBSET D
        BY <2>1
      <4>2. Closed(nx, {b} \cup reach[nx[b]])
        BY <2>1, <2>2 DEF Closed
      <4> QED
        BY <4>1, <4>2
    <3> HIDE DEF reach
    <3> QED
      BY <2>1, <2>4, <3>1, <3>2
  <2> QED
    BY <2>3, <2>4
<1>3. reach = body(reach)
  <2>1. DOMAIN nx = D /\ reach = [b \in D |-> reach[b]]
    OBVIOUS
  <2> HIDE DEF reach
  <2> QED
    BY <1>2, <2>1
<1>4. Trails(nx) = body(Trails(nx))
  <2> HIDE DEF reach, body
  <2> QED
    BY <1>1, <1>3
<1> QED
  BY <1>4

\* What a trail from i looks like: it goes down in rank, never meets a position
\* twice, and ends at the one place where nx stays.
TrailFrom(nx, D, r, i, P) ==
    /\ P \in SUBSET D /\ i \in P /\ Closed(nx, P)
    /\ \A x \in P : x = i \/ r[x] < r[i]
    /\ \A x \in P : x = i \/ \E y \in P : nx[y] = x /\ y # x
    /\ \A x, y \in P : nx[x] = nx[y] /\ nx[x] # x /\ nx[y] # y => x = y
    /\ \E e \in P : nx[e] = e
    /\ \A x, y \in P : nx[x] = x /\ nx[y] = y => x = y

\* A trail longer by one step at its start.
LEMMA TrailLonger ==
  ASSUME NEW D, NEW nx, NEW r, Descends(nx, D, r), NEW a \in D, nx[a] # a, NEW Q,
         TrailFrom(nx, D, r, nx[a], Q)
  PROVE  TrailFrom(nx, D, r, a, {a} \cup Q)
<1> DEFINE b == nx[a]
           P == {a} \cup Q
<1>1. b \in D /\ r[b] < r[a] /\ r[a] \in Nat /\ r[b] \in Nat /\ Q \in SUBSET D /\ b \in Q
  BY DEF Descends, TrailFrom
<1>2. \A x \in D : nx[x] \in D /\ r[x] \in Nat /\ (nx[x] # x => r[nx[x]] < r[x])
  BY DEF Descends
<1>3. \A x \in Q : x = b \/ r[x] < r[b]
  BY DEF TrailFrom
<1>4. \A x \in Q : r[x] \in Nat /\ r[x] < r[a] /\ x # a
  BY <1>1, <1>2, <1>3
<1>5. P \in SUBSET D /\ a \in P
  BY <1>1
<1>6. Closed(nx, P)
  BY <1>1 DEF Closed, TrailFrom
<1>7. \A x \in P : x = a \/ r[x] < r[a]
  BY <1>4
<1>8. ASSUME NEW x \in P, x # a PROVE \E y \in P : nx[y] = x /\ y # x
  <2>1. CASE x = b
    BY <2>1, <1>8
  <2>2. CASE x # b
    <3>1. \E y \in Q : nx[y] = x /\ y # x
      BY <2>2, <1>8 DEF TrailFrom
    <3> QED
      BY <3>1
  <2> QED
    BY <2>1, <2>2
<1>9. \A x, y \in P : nx[x] = nx[y] /\ nx[x] # x /\ nx[y] # y => x = y
  <2>1. ASSUME NEW x \in Q, nx[x] = b, nx[x] # x PROVE FALSE
    <3>1. x \in D /\ r[x] \in Nat /\ r[b] < r[x]
      BY <1>1, <1>2, <2>1
    <3> QED
      BY <3>1, <1>1, <1>3, <2>1
  <2>2. \A x, y \in Q : nx[x] = nx[y] /\ nx[x] # x /\ nx[y] # y => x = y
    BY DEF TrailFrom
  <2> QED
    BY <2>1, <2>2
<1>10. \E e \in P : nx[e] = e
  BY DEF TrailFrom
<1>11. \A x, y \in P : nx[x] = x /\ nx[y] = y => x = y
  BY DEF TrailFrom
<1> QED
  BY <1>5, <1>6, <1>7, <1>8, <1>9, <1>10, <1>11 DEF TrailFrom

\* Trails computes trails.
LEMMA TrailShape ==
  ASSUME NEW D, NEW nx, NEW r, Descends(nx, D, r), NEW i \in D
  PROVE  TrailFrom(nx, D, r, i, Trails(nx)[i])
<1> DEFINE A == {a \in D : TrailFrom(nx, D, r, a, Trails(nx)[a])}
<1>1. nx \in [D -> D] /\ r \in [D -> Nat]
  BY DEF Descends
<1>2. ASSUME NEW a \in D, \A b \in D : r[b] < r[a] => b \in A PROVE a \in A
  <2> DEFINE t == Trails(nx)
  <2>0. (nx[a] = a => t[a] = {a}) /\ (nx[a] # a => t[a] = {a} \cup t[nx[a]])
    BY <1>1, TrailsEquation
  <2> HIDE DEF t
  <2>1. CASE nx[a] = a
    <3>1. t[a] = {a}
      BY <2>0, <2>1
    <3>2. TrailFrom(nx, D, r, a, {a})
      BY <2>1 DEF TrailFrom, Closed
    <3> QED
      BY <3>1, <3>2 DEF t
  <2>2. CASE nx[a] # a
    <3>1. t[a] = {a} \cup t[nx[a]]
      BY <2>0, <2>2
    <3>2. nx[a] \in D /\ r[nx[a]] < r[a]
      BY <2>2 DEF Descends
    <3>3. TrailFrom(nx, D, r, nx[a], t[nx[a]])
      BY <1>2, <3>2 DEF t
    <3>4. TrailFrom(nx, D, r, a, {a} \cup t[nx[a]])
      BY <2>2, <3>3, TrailLonger, Zenon
    <3> QED
      BY <3>1, <3>4 DEF t
  <2> QED
    BY <2>1, <2>2
<1>3. A = D
  <2>1. A \in SUBSET D
    OBVIOUS
  <2> HIDE DEF A
  <2> QED
    BY <1>1, <1>2, <2>1, RankInduction
<1> QED
  BY <1>3

\* Where the timer at a position of the sifted heap was before.
From(nx, i, P) == [a \in DOMAIN nx |-> IF a \notin P THEN a ELSE IF nx[a] = a THEN i ELSE nx[a]]

\* Sifting rearranges: every position's timer goes to exactly one position.
LEMMA FromRearranges ==
  ASSUME NEW D, NEW nx, NEW r, Descends(nx, D, r), NEW i \in D, NEW P,
         TrailFrom(nx, D, r, i, P)
  PROVE  /\ From(nx, i, P) \in [D -> D]
         /\ \A a, b \in D : From(nx, i, P)[a] = From(nx, i, P)[b] => a = b
         /\ \A x \in D : \E a \in D : From(nx, i, P)[a] = x
         /\ \A a \in D : From(nx, i, P)[a] \in P <=> a \in P
<1> DEFINE f == From(nx, i, P)
<1>1. DOMAIN nx = D /\ \A x \in D : nx[x] \in D /\ r[x] \in Nat /\ (nx[x] # x => r[nx[x]] < r[x])
  BY DEF Descends
<1>2. P \in SUBSET D /\ i \in P /\ \A x \in P : nx[x] \in P /\ (x = i \/ r[x] < r[i])
  BY DEF TrailFrom, Closed
<1>3. \A a \in D : f[a] = IF a \notin P THEN a ELSE IF nx[a] = a THEN i ELSE nx[a]
  BY <1>1 DEF From
<1>4. f \in [D -> D]
  BY <1>1, <1>2 DEF From
<1> HIDE DEF f
<1>5. \A a \in D : f[a] \in P <=> a \in P
  BY <1>2, <1>3
<1>6. ASSUME NEW a \in P, nx[a] # a PROVE nx[a] # i
  BY <1>1, <1>2, <1>6
<1>7. ASSUME NEW a \in D, NEW b \in D, f[a] = f[b] PROVE a = b
  <2>1. CASE a \notin P \/ b \notin P
    BY <1>3, <1>5, <1>7, <2>1
  <2>2. CASE a \in P /\ b \in P
    <3>1. nx[a] = a <=> nx[b] = b
      BY <1>3, <1>6, <1>7, <2>2
    <3> QED
      BY <1>3, <1>7, <2>2, <3>1 DEF TrailFrom
  <2> QED
    BY <2>1, <2>2
<1>8. ASSUME NEW x \in D PROVE \E a \in D : f[a] = x
  <2>1. CASE x \notin P
    BY <1>3, <2>1
  <2>2. CASE x = i
    <3>1. PICK e \in P : nx[e] = e
      BY DEF TrailFrom
    <3> QED
      BY <1>2, <1>3, <2>2, <3>1
  <2>3. CASE x \in P /\ x # i
    <3>1. PICK y \in P : nx[y] = x /\ y # x
      BY <2>3 DEF TrailFrom
    <3> QED
      BY <1>2, <1>3, <3>1
  <2> QED
    BY <2>1, <2>2, <2>3
<1> QED
  BY <1>4, <1>5, <1>7, <1>8 DEF f

-----------------------------------------------------------------------------
(* The order of the heap *)

\* The parent of position j and its two children.
LEMMA Halves ==
  ASSUME NEW j \in Nat
  PROVE  /\ j \div 2 \in Nat
         /\ j = 2 * (j \div 2) \/ j = 2 * (j \div 2) + 1
         /\ j > 1 => 1 <= j \div 2 /\ j \div 2 < j
OBVIOUS

\* node_less is a strict total order, up to timers of equal deadline and age.
LEMMA NodeOrder ==
  ASSUME NEW a \in Node, NEW b \in Node, NEW c \in Node
  PROVE  /\ node_less(a, b) => ~node_less(b, a)
         /\ ~node_less(a, a)
         /\ ~node_less(b, a) /\ ~node_less(c, b) => ~node_less(c, a)
         /\ node_less(a, b) /\ ~node_less(c, b) => ~node_less(c, a)
         /\ ~node_less(b, a) /\ node_less(b, c) => ~node_less(c, a)
         /\ node_less(a, b) /\ node_less(b, c) => node_less(a, c)
<1>1. \A x \in {a, b, c} : x.deadline \in Int /\ x.seq \in Int
  BY BoundAssumption DEF Node
<1> QED
  BY <1>1 DEF node_less

\* The heap g after the timers of the trail P have moved one step.
Moved(g, nx, i, P) ==
    [a \in DOMAIN g |-> IF a \notin P THEN g[a] ELSE IF nx[a] = a THEN g[i] ELSE g[nx[a]]]

\* Only position i may be out of order: the timer there may come before its
\* parent, but its children do not.
OrderedBut(g, i) ==
    /\ \A j \in 2..Len(g) : j # i => ~node_less(g[j], g[j \div 2])
    /\ \A j \in 2..Len(g) : j \div 2 = i /\ i > 1 => ~node_less(g[j], g[i \div 2])

\* The timer at i is unrelated to those around it, which are in order.
GapAt(g, i) ==
    /\ \A j \in 2..Len(g) : j # i /\ j \div 2 # i => ~node_less(g[j], g[j \div 2])
    /\ \A j \in 2..Len(g) : j \div 2 = i /\ i > 1 => ~node_less(g[j], g[i \div 2])

Ordered(g) == \A j \in 2..Len(g) : ~node_less(g[j], g[j \div 2])

\* Where a rising timer goes.
LEMMA RisesStep ==
  ASSUME NEW g \in Seq(Node), NEW v \in Node, NEW a \in 1..Len(g)
  PROVE  /\ Rises(g, v)[a] = a => ~(a > 1 /\ node_less(v, g[a \div 2]))
         /\ Rises(g, v)[a] # a => a > 1 /\ Rises(g, v)[a] = a \div 2 /\ node_less(v, g[a \div 2])
<1>1. DOMAIN g = 1..Len(g) /\ Len(g) \in Nat
  BY LenProperties
<1>2. a > 1 => a \div 2 # a
  BY <1>1, Halves
<1> QED
  BY <1>1, <1>2 DEF Rises

\* A rising timer goes to ever smaller positions.
LEMMA RisesDescends ==
  ASSUME NEW g \in Seq(Node), NEW v \in Node
  PROVE  Descends(Rises(g, v), 1..Len(g), [a \in 1..Len(g) |-> a])
<1>1. DOMAIN g = 1..Len(g) /\ Len(g) \in Nat
  BY LenProperties
<1>2. \A a \in 1..Len(g) : a > 1 => a \div 2 \in 1..Len(g) /\ a \div 2 < a
  BY <1>1, Halves
<1> QED
  BY <1>1, <1>2 DEF Descends, Rises

\* Where a sinking timer goes: to the earlier of its children, if that one
\* comes before it.
LEMMA SinksStep ==
  ASSUME NEW g \in Seq(Node), NEW v \in Node, NEW a \in 1..Len(g)
  PROVE  LET m == Sinks(g, v)[a] IN
         /\ m = a => \A c \in 2..Len(g) : c \div 2 = a => ~node_less(g[c], v)
         /\ m # a => /\ m \in 2..Len(g) /\ m > a /\ m \div 2 = a
                     /\ node_less(g[m], v)
                     /\ \A c \in 2..Len(g) : c \div 2 = a => ~node_less(g[c], g[m])
<1> DEFINE l == 2 * a
           r == 2 * a + 1
           m == Sinks(g, v)[a]
<1>1. DOMAIN g = 1..Len(g) /\ Len(g) \in Nat /\ \A c \in 1..Len(g) : g[c] \in Node
  BY LenProperties, ElementOfSeq
<1>2. m = MinChild(g, a, v)
  BY <1>1 DEF Sinks
<1>3. \A c \in 2..Len(g) : c \div 2 = a => c = l \/ c = r
  BY <1>1, Halves
<1>4. a \in Nat /\ l \in Nat /\ r \in Nat /\ l > a /\ r > a /\ r = l + 1 /\ l >= 2
      /\ l \div 2 = a /\ r \div 2 = a
  BY <1>1
<1>5. \A x, y \in Node : (node_less(x, y) => ~node_less(y, x)) /\ ~node_less(x, x)
  BY NodeOrder
<1>6. \A x, y, z \in Node : /\ node_less(x, y) /\ ~node_less(z, y) => ~node_less(z, x)
                            /\ ~node_less(y, x) /\ ~node_less(z, y) => ~node_less(z, x)
                            /\ node_less(x, y) /\ node_less(y, z) => node_less(x, z)
  BY NodeOrder
<1> HIDE DEF l, r, m
<1>7. m = IF r <= Len(g) /\ node_less(g[r], IF l <= Len(g) /\ node_less(g[l], v) THEN g[l] ELSE v)
          THEN r ELSE IF l <= Len(g) /\ node_less(g[l], v) THEN l ELSE a
  BY <1>2, <1>4 DEF MinChild, l, r
<1>8. CASE l <= Len(g) /\ node_less(g[l], v)
  <2>1. CASE r <= Len(g) /\ node_less(g[r], g[l])
    <3>1. m = r /\ m # a
      BY <1>4, <1>7, <1>8, <2>1
    <3>2. g[r] \in Node /\ g[l] \in Node
      BY <1>1, <1>4, <1>8, <2>1
    <3>3. node_less(g[r], v) /\ ~node_less(g[l], g[r]) /\ ~node_less(g[r], g[r])
      BY <1>5, <1>6, <1>8, <2>1, <3>2
    <3> QED
      BY <1>1, <1>3, <1>4, <2>1, <3>1, <3>3 DEF m
  <2>2. CASE ~(r <= Len(g) /\ node_less(g[r], g[l]))
    <3>1. m = l /\ m # a
      BY <1>4, <1>7, <1>8, <2>2
    <3>2. ~node_less(g[l], g[l])
      BY <1>1, <1>4, <1>5, <1>8
    <3> QED
      BY <1>1, <1>3, <1>4, <1>8, <2>2, <3>1, <3>2 DEF m
  <2> QED
    BY <2>1, <2>2
<1>9. CASE ~(l <= Len(g) /\ node_less(g[l], v))
  <2>1. CASE r <= Len(g) /\ node_less(g[r], v)
    <3>1. m = r /\ m # a
      BY <1>4, <1>7, <1>9, <2>1
    <3>2. g[r] \in Node /\ g[l] \in Node /\ l <= Len(g)
      BY <1>1, <1>4, <1>9, <2>1
    <3>3. ~node_less(g[l], g[r]) /\ ~node_less(g[r], g[r])
      BY <1>5, <1>6, <1>9, <2>1, <3>2
    <3> QED
      BY <1>1, <1>3, <1>4, <2>1, <3>1, <3>3 DEF m
  <2>2. CASE ~(r <= Len(g) /\ node_less(g[r], v))
    <3>1. m = a
      BY <1>4, <1>7, <1>9, <2>2
    <3> QED
      BY <1>1, <1>3, <1>4, <1>9, <2>2, <3>1 DEF m
  <2> QED
    BY <2>1, <2>2
<1> QED
  BY <1>8, <1>9

\* A sinking timer goes to ever larger positions.
LEMMA SinksDescends ==
  ASSUME NEW g \in Seq(Node), NEW v \in Node
  PROVE  Descends(Sinks(g, v), 1..Len(g), [a \in 1..Len(g) |-> Len(g) - a])
<1>1. DOMAIN g = 1..Len(g) /\ Len(g) \in Nat
  BY LenProperties
<1>2. ASSUME NEW a \in 1..Len(g)
      PROVE  /\ Sinks(g, v)[a] \in 1..Len(g)
             /\ Sinks(g, v)[a] # a => Len(g) - Sinks(g, v)[a] < Len(g) - a
  BY <1>1, SinksStep
<1>3. DOMAIN Sinks(g, v) = 1..Len(g) /\ Sinks(g, v) = [a \in 1..Len(g) |-> Sinks(g, v)[a]]
  BY <1>1 DEF Sinks
<1>4. Sinks(g, v) \in [1..Len(g) -> 1..Len(g)]
  BY <1>2, <1>3
<1>5. [a \in 1..Len(g) |-> Len(g) - a] \in [1..Len(g) -> Nat]
  BY <1>1
<1> QED
  BY <1>1, <1>2, <1>4, <1>5 DEF Descends

\* sift_up puts a heap in order whose timer at i may come before its parent.
LEMMA RiseOrders ==
  ASSUME NEW g \in Seq(Node), NEW i \in 1..Len(g), OrderedBut(g, i), NEW nx, nx = Rises(g, g[i]),
         NEW P, TrailFrom(nx, 1..Len(g), [a \in 1..Len(g) |-> a], i, P)
  PROVE  \A j \in 2..Len(g) : ~node_less(Moved(g, nx, i, P)[j], Moved(g, nx, i, P)[j \div 2])
<1> DEFINE n == Len(g)
           v == g[i]
           k == Moved(g, nx, i, P)
<1>1. DOMAIN g = 1..n /\ n \in Nat /\ \A c \in 1..n : g[c] \in Node
  BY LenProperties, ElementOfSeq
<1>2. \A a \in 1..n : k[a] = IF a \notin P THEN g[a] ELSE IF nx[a] = a THEN v ELSE g[nx[a]]
  BY <1>1 DEF Moved
<1>3. \A j \in 2..n : j \in 1..n /\ j \div 2 \in 1..n /\ j \div 2 < j
  BY <1>1, Halves
<1>4. \A a \in 1..n : /\ nx[a] = a => ~(a > 1 /\ node_less(v, g[a \div 2]))
                      /\ nx[a] # a => a > 1 /\ nx[a] = a \div 2 /\ node_less(v, g[a \div 2])
  BY <1>1, RisesStep
<1>5. P \in SUBSET (1..n) /\ i \in P /\ \A x \in P : nx[x] \in P /\ x <= i
  <2> DEFINE r == [a \in 1..Len(g) |-> a]
  <2>1. \A x \in 1..n : r[x] = x
    OBVIOUS
  <2> HIDE DEF r
  <2>2. P \in SUBSET (1..n) /\ i \in P /\ \A x \in P : nx[x] \in P /\ (x = i \/ r[x] < r[i])
    BY DEF TrailFrom, Closed, r
  <2> QED
    BY <1>1, <2>1, <2>2
<1>6. ASSUME NEW x \in P, x # i PROVE node_less(v, g[x])
  <2>1. PICK y \in P : nx[y] = x /\ y # x
    BY <1>6 DEF TrailFrom
  <2> QED
    BY <1>4, <1>5, <2>1
<1>7. \A x, y, z \in Node : /\ node_less(x, y) => ~node_less(y, x)
                            /\ node_less(x, y) /\ ~node_less(z, y) => ~node_less(z, x)
                            /\ ~node_less(y, x) /\ ~node_less(z, y) => ~node_less(z, x)
  BY NodeOrder
<1>8. \A j \in 2..n : /\ j # i => ~node_less(g[j], g[j \div 2])
                      /\ j \div 2 = i /\ i > 1 => ~node_less(g[j], g[i \div 2])
  BY DEF OrderedBut
<1>9. v \in Node
  BY <1>1
<1> HIDE DEF n, k, v
<1> SUFFICES ASSUME NEW j \in 2..n PROVE ~node_less(k[j], k[j \div 2])
  BY DEF n, k
<1> DEFINE p == j \div 2
<1>10. j \in 1..n /\ p \in 1..n /\ p < j /\ j > 1 /\ g[j] \in Node /\ g[p] \in Node
  BY <1>1, <1>3
<1>11. p > 1 => p \in 2..n /\ p \div 2 \in 1..n /\ g[p \div 2] \in Node
  BY <1>1, <1>3, <1>10
<1> HIDE DEF p
<1>12. CASE j \in P /\ nx[j] # j
  <2>1. nx[j] = p /\ node_less(v, g[p]) /\ p \in P /\ k[j] = g[p] /\ p # i
    BY <1>1, <1>2, <1>4, <1>5, <1>10, <1>12 DEF p
  <2>2. CASE nx[p] = p
    BY <1>2, <1>7, <1>9, <1>10, <2>1, <2>2 DEF p
  <2>3. CASE nx[p] # p
    <3>1. p > 1 /\ k[p] = g[p \div 2]
      BY <1>2, <1>4, <1>10, <2>1, <2>3
    <3> QED
      BY <1>8, <1>11, <2>1, <3>1 DEF p
  <2> QED
    BY <2>2, <2>3
<1>13. CASE j \in P /\ nx[j] = j
  <2>1. k[j] = v /\ ~node_less(v, g[p])
    BY <1>2, <1>4, <1>10, <1>13 DEF p
  <2>2. p \notin P
    BY <1>1, <1>5, <1>6, <1>10, <1>13, <2>1
  <2> QED
    BY <1>2, <1>10, <2>1, <2>2 DEF p
<1>14. CASE j \notin P /\ p \notin P
  BY <1>2, <1>5, <1>8, <1>10, <1>14 DEF p
<1>15. CASE j \notin P /\ p \in P
  <2>1. k[j] = g[j] /\ ~node_less(g[j], g[p])
    BY <1>2, <1>5, <1>8, <1>10, <1>15 DEF p
  <2>2. CASE nx[p] = p
    <3>1. k[p] = v
      BY <1>2, <1>10, <1>15, <2>2
    <3>2. CASE p = i
      BY <2>1, <3>1, <3>2 DEF p, v
    <3>3. CASE p # i
      BY <1>6, <1>7, <1>9, <1>10, <1>15, <2>1, <3>1, <3>3 DEF p
    <3> QED
      BY <3>2, <3>3
  <2>3. CASE nx[p] # p
    <3>1. p > 1 /\ k[p] = g[p \div 2]
      BY <1>2, <1>4, <1>10, <1>15, <2>3
    <3>2. CASE p = i
      BY <1>8, <2>1, <3>1, <3>2 DEF p
    <3>3. CASE p # i
      <4>1. ~node_less(g[p], g[p \div 2])
        BY <1>8, <1>11, <3>1, <3>3
      <4> QED
        BY <1>7, <1>10, <1>11, <2>1, <3>1, <4>1 DEF p
    <3> QED
      BY <3>2, <3>3
  <2> QED
    BY <2>2, <2>3
<1> QED
  BY <1>12, <1>13, <1>14, <1>15

\* sift_down leaves at most the timer at i before its parent.
LEMMA SinkOrders ==
  ASSUME NEW g \in Seq(Node), NEW i \in 1..Len(g), GapAt(g, i), NEW nx, nx = Sinks(g, g[i]),
         NEW P, TrailFrom(nx, 1..Len(g), [a \in 1..Len(g) |-> Len(g) - a], i, P),
         NEW k, k = Moved(g, nx, i, P)
  PROVE  /\ \A j \in 2..Len(g) : j # i => ~node_less(k[j], k[j \div 2])
         /\ \A j \in 2..Len(g) : j \div 2 = i /\ i > 1 => ~node_less(k[j], k[i \div 2])
<1> DEFINE n == Len(g)
           v == g[i]
<1>1. DOMAIN g = 1..n /\ n \in Nat /\ \A c \in 1..n : g[c] \in Node
  BY LenProperties, ElementOfSeq
<1>2. \A a \in 1..n : k[a] = IF a \notin P THEN g[a] ELSE IF nx[a] = a THEN v ELSE g[nx[a]]
  BY <1>1 DEF Moved
<1>3. \A j \in 2..n : j \in 1..n /\ j \div 2 \in 1..n /\ j \div 2 < j
  BY <1>1, Halves
<1>4. \A a \in 1..n :
         /\ nx[a] = a => \A c \in 2..n : c \div 2 = a => ~node_less(g[c], v)
         /\ nx[a] # a => /\ nx[a] \in 2..n /\ nx[a] > a /\ nx[a] \div 2 = a
                         /\ node_less(g[nx[a]], v)
                         /\ \A c \in 2..n : c \div 2 = a => ~node_less(g[c], g[nx[a]])
  <2>1. v \in Node
    BY <1>1
  <2> HIDE DEF v
  <2> QED
    BY <2>1, SinksStep DEF v
<1>5. P \in SUBSET (1..n) /\ i \in P /\ \A x \in P : nx[x] \in P /\ x >= i
  <2> DEFINE r == [a \in 1..Len(g) |-> Len(g) - a]
  <2>1. \A x \in 1..n : r[x] = n - x
    OBVIOUS
  <2> HIDE DEF r
  <2>2. P \in SUBSET (1..n) /\ i \in P /\ \A x \in P : nx[x] \in P /\ (x = i \/ r[x] < r[i])
    BY DEF TrailFrom, Closed, r
  <2> QED
    BY <1>1, <2>1, <2>2
<1>6. ASSUME NEW x \in P, x # i
      PROVE  x \in 2..n /\ x \div 2 \in P /\ nx[x \div 2] = x /\ node_less(g[x], v)
  <2>1. PICK y \in P : nx[y] = x /\ y # x
    BY <1>6 DEF TrailFrom
  <2> QED
    BY <1>4, <1>5, <2>1
<1>7. \A x, y, z \in Node : /\ node_less(x, y) => ~node_less(y, x)
                            /\ ~node_less(y, x) /\ node_less(y, z) => ~node_less(z, x)
                            /\ ~node_less(y, x) /\ ~node_less(z, y) => ~node_less(z, x)
  BY NodeOrder
<1>8. \A j \in 2..n : /\ j # i /\ j \div 2 # i => ~node_less(g[j], g[j \div 2])
                      /\ j \div 2 = i /\ i > 1 => ~node_less(g[j], g[i \div 2])
  BY DEF GapAt
<1>9. v \in Node
  BY <1>1
<1> HIDE DEF n, v
\* What a timer's place on the trail receives comes after the timer itself.
<1>10. ASSUME NEW x \in P, x # i
       PROVE  k[x] \in Node /\ ~node_less(k[x], g[x])
  <2>1. x \in 1..n /\ g[x] \in Node /\ node_less(g[x], v)
    BY <1>1, <1>5, <1>6, <1>10
  <2>2. CASE nx[x] = x
    BY <1>2, <1>7, <1>9, <2>1, <2>2
  <2>3. CASE nx[x] # x
    <3>1. k[x] = g[nx[x]] /\ nx[x] \in 2..n /\ nx[x] > x /\ nx[x] \div 2 = x
      BY <1>2, <1>4, <2>1, <2>3
    <3>2. nx[x] # i
      BY <1>1, <1>5, <2>1, <3>1
    <3>3. nx[x] \in 1..n
      BY <1>3, <3>1
    <3> QED
      BY <1>1, <1>8, <1>10, <3>1, <3>2, <3>3
  <2> QED
    BY <2>2, <2>3
<1>11. ASSUME NEW j \in 2..n, j # i PROVE ~node_less(k[j], k[j \div 2])
  <2> DEFINE p == j \div 2
  <2>1. j \in 1..n /\ p \in 1..n /\ g[j] \in Node /\ g[p] \in Node
    BY <1>1, <1>3
  <2> HIDE DEF p
  <2>2. CASE p \in P /\ nx[p] = p
    <3>1. p # j
      BY <1>1, <1>3, <2>1 DEF p
    <3>2. j \notin P
      BY <1>6, <1>11, <2>2, <3>1 DEF p
    <3> QED
      BY <1>2, <1>4, <2>1, <2>2, <3>2 DEF p
  <2>3. CASE p \in P /\ nx[p] = j /\ nx[p] # p
    <3>1. j \in P /\ k[p] = g[j]
      BY <1>2, <1>5, <2>1, <2>3
    <3> QED
      BY <1>10, <1>11, <3>1 DEF p
  <2>4. CASE p \in P /\ nx[p] # j /\ nx[p] # p
    <3>1. j \notin P
      BY <1>6, <1>11, <2>4 DEF p
    <3>2. k[j] = g[j] /\ k[p] = g[nx[p]]
      BY <1>2, <2>1, <2>4, <3>1
    <3> QED
      BY <1>4, <2>1, <2>4, <3>2 DEF p
  <2>5. CASE p \notin P
    <3>1. j \notin P /\ p # i
      BY <1>5, <1>6, <1>11, <2>5 DEF p
    <3> QED
      BY <1>2, <1>8, <1>11, <2>1, <2>5, <3>1 DEF p
  <2> QED
    BY <2>2, <2>3, <2>4, <2>5
<1>12. ASSUME NEW j \in 2..n, j \div 2 = i, i > 1 PROVE ~node_less(k[j], k[i \div 2])
  <2>1. i \in 2..n /\ i \div 2 \in 1..n /\ i \div 2 < i /\ j \in 1..n /\ i < j
    BY <1>1, <1>3, <1>12 DEF n
  <2>2. g[i \div 2] \in Node /\ g[j] \in Node /\ i \div 2 \notin P
    BY <1>1, <1>5, <2>1
  <2>3. k[i \div 2] = g[i \div 2] /\ ~node_less(g[j], g[i \div 2])
    BY <1>2, <1>8, <1>12, <2>1, <2>2
  <2>4. CASE j \in P
    <3>1. k[j] \in Node /\ ~node_less(k[j], g[j])
      BY <1>10, <2>1, <2>4
    <3> QED
      BY <1>7, <2>2, <2>3, <3>1
  <2>5. CASE j \notin P
    BY <1>2, <2>1, <2>3, <2>5
  <2> QED
    BY <2>4, <2>5
<1> QED
  BY <1>11, <1>12 DEF n

-----------------------------------------------------------------------------
(* The heap and the slots together *)

Table == [heap : Seq(Node), slots : Seq(Slot)]

\* Every timer has a slot of its own, whatever that slot says.
OwnSlots(t) ==
    /\ \A a \in DOMAIN t.heap : t.heap[a].id.idx \in DOMAIN t.slots
    /\ \A a, b \in DOMAIN t.heap : t.heap[a].id.idx = t.heap[b].id.idx => a = b

\* Heap and slots point at each other.
Backed(t) ==
    /\ \A a \in DOMAIN t.heap :
          LET s == t.heap[a].id.idx
          IN  s \in DOMAIN t.slots /\ t.slots[s].pos = a /\ t.slots[s].gen = t.heap[a].id.gen
    /\ \A s \in DOMAIN t.slots :
          t.slots[s].pos # NO_POS => /\ t.slots[s].pos \in DOMAIN t.heap
                                     /\ t.heap[t.slots[s].pos].id.idx = s

\* The timers of a heap.
Timers(g) == {g[a] : a \in DOMAIN g}

\* u has the timers of t and the slots of t, in other positions.
Rearranged(t, u) ==
    /\ Len(u.heap) = Len(t.heap)
    /\ Timers(u.heap) = Timers(t.heap)
    /\ Len(u.slots) = Len(t.slots)
    /\ \A s \in DOMAIN t.slots : /\ u.slots[s].gen = t.slots[s].gen
                                 /\ u.slots[s].next_free = t.slots[s].next_free
                                 /\ u.slots[s].pos = NO_POS <=> t.slots[s].pos = NO_POS

\* What is in a table.
LEMMA TableShape ==
  ASSUME NEW t \in Table
  PROVE  /\ t.heap \in Seq(Node) /\ t.slots \in Seq(Slot)
         /\ t = [heap |-> t.heap, slots |-> t.slots]
         /\ Len(t.heap) \in Nat /\ DOMAIN t.heap = 1..Len(t.heap)
         /\ Len(t.slots) \in Nat /\ DOMAIN t.slots = 1..Len(t.slots)
         /\ \A a \in DOMAIN t.heap : t.heap[a] \in Node /\ t.heap[a].id \in Id
         /\ \A s \in DOMAIN t.slots : t.slots[s] \in Slot
<1>1. t.heap \in Seq(Node) /\ t.slots \in Seq(Slot) /\ t = [heap |-> t.heap, slots |-> t.slots]
  BY DEF Table
<1>2. \A a \in DOMAIN t.heap : t.heap[a] \in Node
  BY <1>1, ElementOfSeq, LenProperties
<1>3. \A s \in DOMAIN t.slots : t.slots[s] \in Slot
  BY <1>1, ElementOfSeq, LenProperties
<1>4. \A x \in Node : x.id \in Id
  BY DEF Node
<1> QED
  BY <1>1, <1>2, <1>3, <1>4, LenProperties

\* A function on an initial segment of the positions is a sequence.
LEMMA SegmentSeq ==
  ASSUME NEW S, NEW n \in Nat, NEW f \in [1..n -> S]
  PROVE  f \in Seq(S) /\ Len(f) = n /\ DOMAIN f = 1..n
<1>1. f \in Seq(S)
  OBVIOUS
<1> QED
  BY <1>1, LenProperties

\* Place writes the positions of path and nothing else.
LEMMA PlaceShape ==
  ASSUME NEW t \in Table, OwnSlots(t), NEW path \in SUBSET DOMAIN t.heap
  PROVE  LET u == Place(t, path) IN
         /\ u \in Table /\ u.heap = t.heap /\ Len(u.slots) = Len(t.slots)
         /\ \A a \in path : u.slots[t.heap[a].id.idx] = [t.slots[t.heap[a].id.idx] EXCEPT !.pos = a]
         /\ \A s \in DOMAIN t.slots :
               (\A a \in path : t.heap[a].id.idx # s) => u.slots[s] = t.slots[s]
<1> DEFINE u == Place(t, path)
           here(s) == {i \in path : t.heap[i].id.idx = s}
           new(s) == IF here(s) = {} THEN t.slots[s]
                     ELSE [t.slots[s] EXCEPT !.pos = CHOOSE i \in here(s) : TRUE]
<1>1. u.heap = t.heap /\ u.slots = [s \in DOMAIN t.slots |-> new(s)] /\ u = [heap |-> u.heap, slots |-> u.slots]
  BY DEF Place
<1>2. \A s \in DOMAIN t.slots : t.slots[s] \in Slot
  BY TableShape
<1>3. path \in SUBSET Nat
  BY TableShape
<1>4. ASSUME NEW s \in DOMAIN t.slots PROVE new(s) \in Slot
  <2>1. CASE here(s) = {}
    BY <1>2, <2>1
  <2>2. CASE here(s) # {}
    <3>1. (CHOOSE i \in here(s) : TRUE) \in Nat
      BY <1>3, <2>2
    <3> DEFINE c == CHOOSE i \in here(s) : TRUE
    <3>2. new(s) = [t.slots[s] EXCEPT !.pos = c]
      BY <2>2
    <3> HIDE DEF c
    <3> QED
      BY <1>2, <3>1, <3>2 DEF Slot, c
  <2> QED
    BY <2>1, <2>2
<1>5. ASSUME NEW a \in path
      PROVE  u.slots[t.heap[a].id.idx] = [t.slots[t.heap[a].id.idx] EXCEPT !.pos = a]
  <2> DEFINE s == t.heap[a].id.idx
  <2>1. s \in DOMAIN t.slots
    BY DEF OwnSlots
  <2>2. here(s) = {a}
    BY DEF OwnSlots
  <2>3. (CHOOSE i \in here(s) : TRUE) = a
    BY <2>2
  <2>4. new(s) = [t.slots[s] EXCEPT !.pos = a]
    BY <2>2, <2>3
  <2> HIDE DEF new, s, here
  <2> QED
    BY <1>1, <2>1, <2>4 DEF s
<1>6. ASSUME NEW s \in DOMAIN t.slots, \A a \in path : t.heap[a].id.idx # s
      PROVE  u.slots[s] = t.slots[s]
  <2>1. here(s) = {}
    BY <1>6
  <2> QED
    BY <1>1, <2>1
<1> HIDE DEF new, here
<1>7. u.slots \in Seq(Slot) /\ Len(u.slots) = Len(t.slots)
  <2> DEFINE n == Len(t.slots)
  <2>1. n \in Nat /\ DOMAIN t.slots = 1..n
    BY TableShape
  <2> HIDE DEF n
  <2>2. u.slots \in [1..n -> Slot]
    BY <1>1, <1>4, <2>1
  <2> QED
    BY <2>1, <2>2, SegmentSeq DEF n
<1>8. u \in Table
  BY <1>1, <1>7, TableShape DEF Table
<1> HIDE DEF u
<1> QED
  BY <1>1, <1>5, <1>6, <1>7, <1>8 DEF u

\* Heaps and slots that point at each other give every timer its own slot.
LEMMA BackedOwnSlots ==
  ASSUME NEW t, Backed(t)
  PROVE  OwnSlots(t)
BY DEF Backed, OwnSlots

\* Moving timers along a trail keeps heap and slots pointing at each other.
LEMMA SiftShape ==
  ASSUME NEW t \in Table, Backed(t), NEW nx, NEW r, NEW i \in DOMAIN t.heap,
         Descends(nx, DOMAIN t.heap, r)
  PROVE  LET u == Sift(t, nx, i) IN
         /\ u \in Table /\ Backed(u) /\ Rearranged(t, u)
         /\ u.heap = Moved(t.heap, nx, i, Trails(nx)[i])
<1> DEFINE P == Trails(nx)[i]
           g == t.heap
           D == DOMAIN t.heap
           n == Len(t.heap)
           f == From(nx, i, P)
           k == Moved(g, nx, i, P)
           w == [t EXCEPT !.heap = k]
           u == Sift(t, nx, i)
<1>1. TrailFrom(nx, D, r, i, P)
  BY TrailShape
<1>2. P \in SUBSET D /\ i \in P
  BY <1>1 DEF TrailFrom
<1>3. /\ f \in [D -> D]
      /\ \A a, b \in D : f[a] = f[b] => a = b
      /\ \A x \in D : \E a \in D : f[a] = x
      /\ \A a \in D : f[a] \in P <=> a \in P
  BY <1>1, FromRearranges, Zenon
<1>4. n \in Nat /\ D = 1..n /\ DOMAIN g = D /\ \A a \in D : g[a] \in Node
  BY TableShape
<1>5. DOMAIN nx = D
  BY DEF Descends
<1>6. /\ \A a \in D : k[a] = g[f[a]]
      /\ \A a \in D : a \notin P => f[a] = a
      /\ DOMAIN k = D
  <2> HIDE DEF P
  <2> QED
    BY <1>2, <1>4, <1>5 DEF Moved, From
<1>7. u = Place(w, P)
  BY DEF Sift, Moved
<1> HIDE DEF P, f, k
<1>8. k \in Seq(Node) /\ Len(k) = n
  <2>1. k = [a \in D |-> g[f[a]]]
    <3>1. k = [a \in D |-> k[a]]
      BY DEF k, Moved
    <3> QED
      BY <1>6, <3>1
  <2>2. k \in [1..n -> Node]
    BY <1>3, <1>4, <2>1
  <2> QED
    BY <1>4, <2>2, SegmentSeq
<1>9. w \in Table /\ w.heap = k /\ w.slots = t.slots
  BY <1>8, TableShape DEF Table
<1>10. \A a \in D : /\ g[a].id.idx \in DOMAIN t.slots
                    /\ t.slots[g[a].id.idx].pos = a
                    /\ t.slots[g[a].id.idx].gen = g[a].id.gen
  BY DEF Backed
<1>11. \A s \in DOMAIN t.slots :
          t.slots[s].pos # NO_POS => t.slots[s].pos \in D /\ g[t.slots[s].pos].id.idx = s
  BY DEF Backed
<1> HIDE DEF w
<1>12. OwnSlots(w)
  <2>1. \A a \in D : k[a].id.idx \in DOMAIN t.slots
    BY <1>3, <1>6, <1>10
  <2>2. ASSUME NEW a \in D, NEW b \in D, k[a].id.idx = k[b].id.idx PROVE a = b
    <3>1. f[a] \in D /\ f[b] \in D /\ k[a] = g[f[a]] /\ k[b] = g[f[b]]
      BY <1>3, <1>6
    <3>2. f[a] = f[b]
      BY <1>10, <2>2, <3>1
    <3> QED
      BY <1>3, <3>2
  <2> QED
    BY <1>6, <1>9, <2>1, <2>2 DEF OwnSlots
<1>13. /\ u \in Table /\ u.heap = k /\ Len(u.slots) = Len(t.slots)
       /\ \A a \in P : u.slots[k[a].id.idx] = [t.slots[k[a].id.idx] EXCEPT !.pos = a]
       /\ \A s \in DOMAIN t.slots : (\A a \in P : k[a].id.idx # s) => u.slots[s] = t.slots[s]
  BY <1>2, <1>6, <1>7, <1>9, <1>12, PlaceShape
<1>14. DOMAIN u.slots = DOMAIN t.slots /\ \A s \in DOMAIN t.slots : t.slots[s] \in Slot
  BY <1>13, TableShape
<1> HIDE DEF u
<1>15. ASSUME NEW a \in P
       PROVE  LET s == k[a].id.idx IN
              /\ s \in DOMAIN t.slots /\ u.slots[s].pos = a /\ u.slots[s].gen = t.slots[s].gen
              /\ u.slots[s].next_free = t.slots[s].next_free /\ t.slots[s].pos = f[a]
  <2> DEFINE s == k[a].id.idx
  <2>1. a \in D /\ s \in DOMAIN t.slots /\ t.slots[s].pos = f[a]
    BY <1>2, <1>3, <1>6, <1>10
  <2>2. t.slots[s] \in Slot /\ u.slots[s] = [t.slots[s] EXCEPT !.pos = a]
    BY <1>13, <1>14, <2>1
  <2> HIDE DEF s
  <2>3. u.slots[s].pos = a /\ u.slots[s].gen = t.slots[s].gen /\ u.slots[s].next_free = t.slots[s].next_free
    BY <2>2 DEF Slot
  <2> QED
    BY <2>1, <2>3 DEF s
<1>16. ASSUME NEW a \in D
       PROVE  LET s == k[a].id.idx IN
              s \in DOMAIN t.slots /\ u.slots[s].pos = a /\ u.slots[s].gen = k[a].id.gen
  <2>1. k[a].id.idx \in DOMAIN t.slots /\ t.slots[k[a].id.idx].gen = k[a].id.gen
    BY <1>3, <1>6, <1>10
  <2>2. CASE a \in P
    BY <1>15, <2>1, <2>2
  <2>3. CASE a \notin P
    <3>1. \A b \in P : k[b].id.idx # k[a].id.idx
      BY <1>2, <1>6, <1>9, <1>12, <2>3 DEF OwnSlots
    <3>2. u.slots[k[a].id.idx] = t.slots[k[a].id.idx]
      BY <1>13, <2>1, <3>1
    <3> QED
      BY <1>6, <1>10, <2>1, <2>3, <3>2
  <2> QED
    BY <2>2, <2>3
<1>17. ASSUME NEW s \in DOMAIN t.slots, u.slots[s].pos # NO_POS
       PROVE  u.slots[s].pos \in D /\ k[u.slots[s].pos].id.idx = s
  <2>1. CASE \E a \in P : k[a].id.idx = s
    BY <1>2, <1>15, <2>1
  <2>2. CASE \A a \in P : k[a].id.idx # s
    <3>1. u.slots[s] = t.slots[s]
      BY <1>13, <2>2
    <3>2. t.slots[s].pos \in D /\ g[t.slots[s].pos].id.idx = s
      BY <1>11, <1>17, <3>1
    <3>3. PICK c \in D : f[c] = t.slots[s].pos
      BY <1>3, <3>2
    <3>4. k[c].id.idx = s /\ c \notin P
      BY <1>6, <2>2, <3>2, <3>3
    <3> QED
      BY <1>6, <3>1, <3>3, <3>4
  <2> QED
    BY <2>1, <2>2
<1>18. Backed(u)
  BY <1>6, <1>13, <1>14, <1>16, <1>17 DEF Backed
<1>19. Timers(k) = Timers(g)
  <2>1. ASSUME NEW x \in Timers(g) PROVE x \in Timers(k)
    <3>1. PICK b \in D : x = g[b]
      BY DEF Timers
    <3>2. PICK a \in D : f[a] = b
      BY <1>3
    <3> QED
      BY <1>6, <3>1, <3>2 DEF Timers
  <2>2. ASSUME NEW x \in Timers(k) PROVE x \in Timers(g)
    <3>1. PICK a \in D : x = k[a]
      BY <1>6 DEF Timers
    <3> QED
      BY <1>3, <1>6, <3>1 DEF Timers
  <2> QED
    BY <2>1, <2>2
<1>20. ASSUME NEW s \in DOMAIN t.slots
       PROVE  /\ u.slots[s].gen = t.slots[s].gen
              /\ u.slots[s].next_free = t.slots[s].next_free
              /\ u.slots[s].pos = NO_POS <=> t.slots[s].pos = NO_POS
  <2>1. CASE \E a \in P : k[a].id.idx = s
    <3>1. PICK a \in P : k[a].id.idx = s
      BY <2>1
    <3>2. u.slots[s].pos = a /\ t.slots[s].pos = f[a] /\ a \in 1..n /\ f[a] \in 1..n
      BY <1>2, <1>3, <1>4, <1>15, <3>1
    <3>3. u.slots[s].pos # NO_POS /\ t.slots[s].pos # NO_POS
      BY <1>4, <3>2 DEF NO_POS
    <3> QED
      BY <1>15, <3>1, <3>3
  <2>2. CASE \A a \in P : k[a].id.idx # s
    BY <1>13, <2>2
  <2> QED
    BY <2>1, <2>2
<1>21. Rearranged(t, u)
  BY <1>8, <1>13, <1>19, <1>20 DEF Rearranged
<1> QED
  BY <1>13, <1>18, <1>21 DEF u, k, P

\* Rearranging twice is rearranging.
LEMMA RearrangedTwice ==
  ASSUME NEW t \in Table, NEW u \in Table, NEW w, Rearranged(t, u), Rearranged(u, w)
  PROVE  Rearranged(t, w)
<1>1. DOMAIN u.slots = DOMAIN t.slots
  BY TableShape DEF Rearranged
<1> QED
  BY <1>1 DEF Rearranged

\* sift_up, on a heap in which the timer at i may come before its parent.
LEMMA SiftUpShape ==
  ASSUME NEW t \in Table, Backed(t), NEW i \in DOMAIN t.heap
  PROVE  LET u == sift_up(t, i) IN
         /\ u \in Table /\ Backed(u) /\ Rearranged(t, u)
         /\ OrderedBut(t.heap, i) => Ordered(u.heap)
<1> DEFINE g == t.heap
           n == Len(t.heap)
           nx == Rises(g, g[i])
           r == [a \in 1..n |-> a]
           P == Trails(nx)[i]
           u == sift_up(t, i)
<1>1. g \in Seq(Node) /\ n \in Nat /\ DOMAIN g = 1..n /\ g[i] \in Node
  BY TableShape
<1>2. Descends(nx, 1..n, r)
  BY <1>1, RisesDescends
<1>3. TrailFrom(nx, 1..n, r, i, P)
  <2> HIDE DEF nx, r
  <2> QED
    BY <1>1, <1>2, TrailShape
<1>4. u = Sift(t, nx, i)
  BY DEF sift_up
<1> HIDE DEF nx, r, u
<1>5. u \in Table /\ Backed(u) /\ Rearranged(t, u) /\ u.heap = Moved(g, nx, i, P)
  BY <1>1, <1>2, <1>4, SiftShape
<1> HIDE DEF P
<1>6. ASSUME OrderedBut(g, i) PROVE Ordered(u.heap)
  <2>1. \A j \in 2..n : ~node_less(Moved(g, nx, i, P)[j], Moved(g, nx, i, P)[j \div 2])
    BY <1>1, <1>3, <1>6, RiseOrders DEF nx, r
  <2>2. Len(u.heap) = n
    BY <1>5 DEF Rearranged
  <2> QED
    BY <1>5, <2>1, <2>2 DEF Ordered
<1> QED
  BY <1>5, <1>6 DEF u

\* sift_down, on a heap whose timer at i is new there.
LEMMA SiftDownShape ==
  ASSUME NEW t \in Table, Backed(t), NEW i \in DOMAIN t.heap
  PROVE  LET u == sift_down(t, i) IN
         /\ u \in Table /\ Backed(u) /\ Rearranged(t, u)
         /\ GapAt(t.heap, i) => OrderedBut(u.heap, i)
<1> DEFINE g == t.heap
           n == Len(t.heap)
           nx == Sinks(g, g[i])
           r == [a \in 1..n |-> n - a]
           P == Trails(nx)[i]
           u == sift_down(t, i)
<1>1. g \in Seq(Node) /\ n \in Nat /\ DOMAIN g = 1..n /\ g[i] \in Node
  BY TableShape
<1>2. Descends(nx, 1..n, r)
  BY <1>1, SinksDescends
<1>3. TrailFrom(nx, 1..n, r, i, P)
  <2> HIDE DEF nx, r
  <2> QED
    BY <1>1, <1>2, TrailShape
<1>4. u = Sift(t, nx, i)
  BY DEF sift_down
<1> HIDE DEF nx, r, u
<1>5. u \in Table /\ Backed(u) /\ Rearranged(t, u) /\ u.heap = Moved(g, nx, i, P)
  BY <1>1, <1>2, <1>4, SiftShape
<1> HIDE DEF P
<1>6. ASSUME GapAt(g, i) PROVE OrderedBut(u.heap, i)
  <2> DEFINE k == u.heap
  <2>0. k = Moved(g, nx, i, P)
    BY <1>5
  <2> HIDE DEF k
  <2>1. /\ \A j \in 2..n : j # i => ~node_less(k[j], k[j \div 2])
        /\ \A j \in 2..n : j \div 2 = i /\ i > 1 => ~node_less(k[j], k[i \div 2])
    BY <1>1, <1>3, <1>6, <2>0, SinkOrders DEF nx, r
  <2>2. Len(k) = n
    BY <1>5 DEF Rearranged, k
  <2> QED
    BY <2>1, <2>2 DEF OrderedBut, k
<1> QED
  BY <1>5, <1>6 DEF u

\* The slots when the timer of slot x has given it up.
Vacated(z, x, y) ==
    /\ y \in Seq(Slot) /\ Len(y) = Len(z)
    /\ y[x].pos = NO_POS
    /\ \A s \in DOMAIN z : s # x => y[s] = z[s]

\* The last timer leaves.
LEMMA LastLeaves ==
  ASSUME NEW t \in Table, Backed(t), NEW n \in Nat, Len(t.heap) = n + 1,
         NEW y, Vacated(t.slots, t.heap[n + 1].id.idx, y),
         NEW u \in Table, u.slots = y, Len(u.heap) = n, \A a \in 1..n : u.heap[a] = t.heap[a]
  PROVE  Backed(u)
<1> DEFINE g == t.heap
           x == g[n + 1].id.idx
           k == u.heap
<1>1. DOMAIN g = 1..(n + 1) /\ DOMAIN t.slots = 1..Len(t.slots) /\ Len(t.slots) \in Nat
  BY TableShape
<1>2. \A a \in 1..n : k[a] = g[a]
  OBVIOUS
<1>3. y \in Seq(Slot) /\ DOMAIN y = DOMAIN t.slots /\ y[x].pos = NO_POS
      /\ \A s \in DOMAIN t.slots : s # x => y[s] = t.slots[s]
  BY <1>1, LenProperties DEF Vacated
<1>4. \A a \in 1..n : a \in DOMAIN g /\ a # n + 1
  BY <1>1
<1>5. n + 1 \in DOMAIN g
  BY <1>1
<1>6. /\ \A a \in DOMAIN g : /\ g[a].id.idx \in DOMAIN t.slots
                             /\ t.slots[g[a].id.idx].pos = a
                             /\ t.slots[g[a].id.idx].gen = g[a].id.gen
      /\ \A s \in DOMAIN t.slots :
           t.slots[s].pos # NO_POS => t.slots[s].pos \in DOMAIN g /\ g[t.slots[s].pos].id.idx = s
  BY DEF Backed
<1>7. DOMAIN k = 1..n
  BY TableShape
<1> HIDE DEF g, k
<1>9. ASSUME NEW a \in 1..n
      PROVE  /\ k[a].id.idx \in DOMAIN y /\ y[k[a].id.idx].pos = a
             /\ y[k[a].id.idx].gen = k[a].id.gen
  <2>1. k[a] = g[a] /\ g[a].id.idx \in DOMAIN t.slots
    BY <1>2, <1>4, <1>6
  <2>2. g[a].id.idx # x
    BY <1>4, <1>5, <1>6
  <2>3. y[g[a].id.idx] = t.slots[g[a].id.idx]
    BY <1>3, <2>1, <2>2
  <2> QED
    BY <1>3, <1>4, <1>6, <2>1, <2>3
<1>10. ASSUME NEW s \in DOMAIN y, y[s].pos # NO_POS
       PROVE  y[s].pos \in 1..n /\ k[y[s].pos].id.idx = s
  <2>1. s # x /\ y[s] = t.slots[s] /\ y[s].pos \in DOMAIN g /\ g[y[s].pos].id.idx = s
    BY <1>3, <1>6, <1>10
  <2>2. y[s].pos # n + 1
    BY <2>1
  <2>3. y[s].pos \in 1..n
    BY <1>1, <2>1, <2>2 DEF g
  <2> QED
    BY <1>2, <2>1, <2>3
<1> QED
  BY <1>7, <1>9, <1>10 DEF Backed, k

\* Place for a single position.
PlacedAt(w, i, u) ==
    /\ u \in Table /\ u.heap = w.heap /\ Len(u.slots) = Len(w.slots)
    /\ u.slots[w.heap[i].id.idx] = [w.slots[w.heap[i].id.idx] EXCEPT !.pos = i]
    /\ \A s \in DOMAIN w.slots : s # w.heap[i].id.idx => u.slots[s] = w.slots[s]

\* Place writes that one position.
LEMMA PlaceOne ==
  ASSUME NEW w \in Table, OwnSlots(w), NEW i \in DOMAIN w.heap
  PROVE  PlacedAt(w, i, Place(w, {i}))
<1> DEFINE p == {i}
           u == Place(w, p)
<1>1. p \in SUBSET DOMAIN w.heap
  OBVIOUS
<1> HIDE DEF p
<1>2. /\ u \in Table /\ u.heap = w.heap /\ Len(u.slots) = Len(w.slots)
      /\ \A a \in p : u.slots[w.heap[a].id.idx] = [w.slots[w.heap[a].id.idx] EXCEPT !.pos = a]
      /\ \A s \in DOMAIN w.slots : (\A a \in p : w.heap[a].id.idx # s) => u.slots[s] = w.slots[s]
  BY <1>1, PlaceShape
<1> HIDE DEF u
<1>3. i \in p /\ \A a \in p : a = i
  BY DEF p
<1>4. PlacedAt(w, i, u)
  BY <1>2, <1>3 DEF PlacedAt
<1> QED
  BY <1>4 DEF u, p

\* The heap without the timer at i, whose place the last one takes.
GapTable(t, n, i, y, w) ==
    /\ w \in Table /\ w.slots = y /\ Len(w.heap) = n /\ w.heap[i] = t.heap[n + 1]
    /\ \A a \in 1..n : a # i => w.heap[a] = t.heap[a]

\* heap_remove_at moves the last timer into the gap, before any sifting.
LEMMA GapShape ==
  ASSUME NEW t \in Table, NEW n \in Nat, Len(t.heap) = n + 1, NEW i \in 1..n, NEW y \in Seq(Slot)
  PROVE  GapTable(t, n, i, y, [heap |-> [SubSeq(t.heap, 1, n) EXCEPT ![i] = t.heap[n + 1]], slots |-> y])
<1> DEFINE g == t.heap
           b == SubSeq(g, 1, n)
           k == [b EXCEPT ![i] = g[n + 1]]
<1>1. g \in Seq(Node) /\ DOMAIN g = 1..(n + 1) /\ \A a \in DOMAIN g : g[a] \in Node
  BY TableShape
<1>2. n + 1 \in DOMAIN g /\ g[n + 1] \in Node
  BY <1>1
<1>3. b \in Seq(Node) /\ Len(b) = n /\ DOMAIN b = 1..n /\ \A a \in 1..n : b[a] = g[a] /\ b[a] \in Node
  BY <1>1
<1> HIDE DEF b, g
<1>4. /\ DOMAIN k = 1..n /\ k = [a \in 1..n |-> k[a]]
      /\ k[i] = g[n + 1] /\ \A a \in 1..n : a # i => k[a] = g[a]
      /\ \A a \in 1..n : k[a] \in Node
  BY <1>2, <1>3
<1> HIDE DEF k
<1>5. k \in Seq(Node) /\ Len(k) = n
  <2>1. k \in [1..n -> Node]
    BY <1>4
  <2> QED
    BY <2>1, SegmentSeq
<1>6. GapTable(t, n, i, y, [heap |-> k, slots |-> y])
  BY <1>4, <1>5 DEF GapTable, Table, g
<1> QED
  BY <1>6 DEF k, b, g

\* The timer moved into the gap keeps its slot, and the one that left has none.
LEMMA GapOwnSlots ==
  ASSUME NEW t \in Table, Backed(t), NEW n \in Nat, Len(t.heap) = n + 1, NEW i \in 1..n,
         NEW y, Vacated(t.slots, t.heap[i].id.idx, y), NEW w, GapTable(t, n, i, y, w)
  PROVE  OwnSlots(w)
<1> DEFINE g == t.heap
           k == w.heap
           f == [a \in 1..n |-> IF a = i THEN n + 1 ELSE a]
<1>1. /\ DOMAIN g = 1..(n + 1) /\ DOMAIN t.slots = 1..Len(t.slots) /\ Len(t.slots) \in Nat
  BY TableShape
<1>2. /\ \A a \in 1..n : f[a] \in DOMAIN g
      /\ \A a, b \in 1..n : f[a] = f[b] => a = b
  BY <1>1
<1>3. w \in Table /\ w.slots = y /\ Len(k) = n /\ \A a \in 1..n : k[a] = g[f[a]]
  BY DEF GapTable
<1>4. DOMAIN y = DOMAIN t.slots
  BY <1>1, LenProperties DEF Vacated
<1>5. DOMAIN k = 1..n
  BY <1>3, TableShape
<1>6. /\ \A a \in DOMAIN g : g[a].id.idx \in DOMAIN t.slots
      /\ \A a, b \in DOMAIN g : g[a].id.idx = g[b].id.idx => a = b
  BY DEF Backed
<1> HIDE DEF g, k, f
<1>7. ASSUME NEW a \in 1..n, NEW b \in 1..n, k[a].id.idx = k[b].id.idx PROVE a = b
  <2>1. g[f[a]].id.idx = g[f[b]].id.idx /\ f[a] \in DOMAIN g /\ f[b] \in DOMAIN g
    BY <1>2, <1>3, <1>7
  <2> QED
    BY <1>2, <1>6, <2>1
<1>8. \A a \in 1..n : k[a].id.idx \in DOMAIN y
  BY <1>2, <1>3, <1>4, <1>6
<1> QED
  BY <1>3, <1>5, <1>7, <1>8 DEF OwnSlots, k

\* Once its slot is told, heap and slots point at each other again.
LEMMA GapFilled ==
  ASSUME NEW t \in Table, Backed(t), NEW n \in Nat, Len(t.heap) = n + 1, NEW i \in 1..n,
         NEW y, Vacated(t.slots, t.heap[i].id.idx, y), NEW w, GapTable(t, n, i, y, w),
         NEW u, PlacedAt(w, i, u)
  PROVE  /\ u \in Table /\ Backed(u) /\ Len(u.slots) = Len(t.slots)
         /\ Len(u.heap) = n /\ u.heap[i] = t.heap[n + 1]
         /\ \A a \in 1..n : a # i => u.heap[a] = t.heap[a]
         /\ \A s \in DOMAIN t.slots : /\ u.slots[s].gen = y[s].gen
                                      /\ u.slots[s].next_free = y[s].next_free
                                      /\ u.slots[s].pos = NO_POS <=> y[s].pos = NO_POS
<1> DEFINE g == t.heap
           x == g[i].id.idx
           z == g[n + 1].id.idx
           k == u.heap
<1>1. /\ DOMAIN g = 1..(n + 1) /\ DOMAIN t.slots = 1..Len(t.slots) /\ Len(t.slots) \in Nat
  BY TableShape
<1>2. n + 1 \in DOMAIN g /\ i \in DOMAIN g /\ i # n + 1
  BY <1>1
<1>3. y \in Seq(Slot) /\ Len(y) = Len(t.slots) /\ DOMAIN y = DOMAIN t.slots /\ y[x].pos = NO_POS
      /\ \A s \in DOMAIN t.slots : s # x => y[s] = t.slots[s]
  BY <1>1, LenProperties DEF Vacated
<1>4. /\ u \in Table /\ Len(k) = n /\ k[i] = g[n + 1] /\ Len(u.slots) = Len(y)
      /\ \A a \in 1..n : a # i => k[a] = g[a]
      /\ u.slots[z] = [y[z] EXCEPT !.pos = i]
      /\ \A s \in DOMAIN y : s # z => u.slots[s] = y[s]
  BY DEF GapTable, PlacedAt
<1>5. DOMAIN k = 1..n
  BY <1>4, TableShape
<1>7. /\ \A a \in DOMAIN g : /\ g[a].id.idx \in DOMAIN t.slots
                             /\ t.slots[g[a].id.idx].pos = a
                             /\ t.slots[g[a].id.idx].gen = g[a].id.gen
      /\ \A s \in DOMAIN t.slots :
           t.slots[s].pos # NO_POS => t.slots[s].pos \in DOMAIN g /\ g[t.slots[s].pos].id.idx = s
  BY DEF Backed
<1>9. \A s \in DOMAIN y : y[s] \in Slot
  BY <1>3, ElementOfSeq, LenProperties
<1> HIDE DEF g, k, x, z
<1>10. \A a, b \in DOMAIN g : g[a].id.idx = g[b].id.idx => a = b
  BY <1>7
<1>14. z \in DOMAIN y /\ z # x /\ y[z] = t.slots[z] /\ t.slots[z].pos = n + 1 /\ k[i].id.idx = z
  BY <1>2, <1>3, <1>4, <1>7, <1>10 DEF z, x
<1>15. u.slots[z].pos = i /\ u.slots[z].gen = y[z].gen /\ u.slots[z].next_free = y[z].next_free
  BY <1>4, <1>9, <1>14 DEF Slot
<1>16. DOMAIN u.slots = DOMAIN y
  BY <1>1, <1>3, <1>4, TableShape
<1>17. ASSUME NEW s \in DOMAIN t.slots
       PROVE  /\ u.slots[s].gen = y[s].gen
              /\ u.slots[s].next_free = y[s].next_free
              /\ u.slots[s].pos = NO_POS <=> y[s].pos = NO_POS
  <2>1. CASE s = z
    BY <1>14, <1>15, <2>1 DEF NO_POS
  <2>2. CASE s # z
    BY <1>3, <1>4, <2>2
  <2> QED
    BY <2>1, <2>2
<1>18. ASSUME NEW a \in 1..n
       PROVE  /\ k[a].id.idx \in DOMAIN u.slots /\ u.slots[k[a].id.idx].pos = a
              /\ u.slots[k[a].id.idx].gen = k[a].id.gen
  <2>1. CASE a = i
    <3>1. t.slots[z].gen = g[n + 1].id.gen
      BY <1>2, <1>7 DEF z
    <3>2. u.slots[z].gen = k[i].id.gen
      BY <1>4, <1>14, <1>15, <3>1
    <3> QED
      BY <1>14, <1>15, <1>16, <2>1, <3>2
  <2>2. CASE a # i
    <3>1. k[a] = g[a] /\ a \in DOMAIN g /\ a # n + 1
      BY <1>1, <1>4, <2>2 DEF g
    <3>2. g[a].id.idx # x /\ g[a].id.idx # z /\ g[a].id.idx \in DOMAIN y
      BY <1>2, <1>3, <1>7, <1>10, <2>2, <3>1 DEF x, z
    <3>3. u.slots[g[a].id.idx] = t.slots[g[a].id.idx]
      BY <1>3, <1>4, <3>2
    <3> QED
      BY <1>7, <1>16, <3>1, <3>2, <3>3
  <2> QED
    BY <2>1, <2>2
<1>19. ASSUME NEW s \in DOMAIN u.slots, u.slots[s].pos # NO_POS
       PROVE  u.slots[s].pos \in 1..n /\ k[u.slots[s].pos].id.idx = s
  <2>1. CASE s = z
    BY <1>14, <1>15, <2>1
  <2>2. CASE s # z
    <3>1. u.slots[s] = y[s] /\ s # x /\ y[s] = t.slots[s]
      BY <1>3, <1>4, <1>16, <1>19, <2>2
    <3> DEFINE c == t.slots[s].pos
    <3>2. c \in DOMAIN g /\ g[c].id.idx = s
      BY <1>3, <1>7, <1>16, <1>19, <3>1
    <3>3. c # i /\ c # n + 1
      BY <2>2, <3>1, <3>2 DEF x, z
    <3> HIDE DEF c
    <3>4. c \in 1..n /\ k[c] = g[c]
      BY <1>1, <1>4, <3>2, <3>3 DEF g
    <3> QED
      BY <3>1, <3>2, <3>4 DEF c
  <2> QED
    BY <2>1, <2>2
<1>20. Backed(u)
  BY <1>5, <1>18, <1>19 DEF Backed, k
<1> QED
  BY <1>3, <1>4, <1>17, <1>20 DEF g, k

\* The heap and the slots of the current state.
Now == [heap |-> h, slots |-> slots]

\* What heap_remove_at leaves: one timer less, its slot freed with the next
\* generation, the other slots as they were but for positions.
RemovedFrom(i, u) ==
    /\ u \in Table /\ Backed(u)
    /\ Len(u.heap) = Len(h) - 1 /\ Len(u.slots) = Len(slots)
    /\ Timers(u.heap) = Timers(h) \ {h[i]}
    /\ \A s \in DOMAIN slots :
          IF s = h[i].id.idx
          THEN /\ u.slots[s].pos = NO_POS
               /\ u.slots[s].gen = (slots[s].gen + 1) % GenMod
               /\ u.slots[s].next_free = free_head
          ELSE /\ u.slots[s].pos = NO_POS <=> slots[s].pos = NO_POS
               /\ u.slots[s].gen = slots[s].gen
               /\ u.slots[s].next_free = slots[s].next_free
    /\ Ordered(h) => Ordered(u.heap)

\* slot_release
LEMMA ReleasedShape ==
  ASSUME slots \in Seq(Slot), free_head \in 0..MaxSlots, NEW x \in DOMAIN slots
  PROVE  /\ Vacated(slots, x, Released(x))
         /\ Released(x)[x].gen = (slots[x].gen + 1) % GenMod
         /\ Released(x)[x].next_free = free_head
<1> DEFINE n == Len(slots)
           c == [pos |-> NO_POS, gen |-> (slots[x].gen + 1) % GenMod, next_free |-> free_head]
           y == Released(x)
<1>1. n \in Nat /\ DOMAIN slots = 1..n /\ \A s \in 1..n : slots[s] \in Slot
  BY ElementOfSeq, LenProperties
<1>2. (slots[x].gen + 1) % GenMod \in 0..(GenMod - 1)
  <2>1. slots[x].gen \in Nat /\ GenMod \in Nat \ {0}
    BY <1>1, BoundAssumption DEF Slot
  <2> QED
    BY <2>1
<1>3. c \in Slot
  BY <1>2 DEF Slot, NO_POS
<1>4. y = [slots EXCEPT ![x] = c]
  BY DEF Released
<1> HIDE DEF c, y, n
<1>5. y \in [1..n -> Slot] /\ y[x] = c /\ \A s \in DOMAIN slots : s # x => y[s] = slots[s]
  <2>1. slots \in [1..n -> Slot]
    BY <1>1
  <2> QED
    BY <1>1, <1>3, <1>4, <2>1
<1>6. y \in Seq(Slot) /\ Len(y) = n
  BY <1>1, <1>5, SegmentSeq
<1> QED
  BY <1>5, <1>6 DEF Vacated, c, n, y

\* heap_remove_at at the end of the heap.
LEMMA RemovedLast ==
  ASSUME Now \in Table, Backed(Now), free_head \in 0..MaxSlots, NEW i \in DOMAIN h, i = Len(h)
  PROVE  RemovedFrom(i, Removed(i))
<1> DEFINE n == Len(h) - 1
           x == h[i].id.idx
           y == Released(x)
           u == Removed(i)
<1>1. Now.heap = h /\ Now.slots = slots
  BY DEF Now
<1>2. h \in Seq(Node) /\ slots \in Seq(Slot) /\ DOMAIN h = 1..Len(h) /\ Len(h) \in Nat
  BY <1>1, TableShape
<1>3. n \in Nat /\ Len(h) = n + 1 /\ i = n + 1 /\ DOMAIN h = 1..(n + 1)
  BY <1>2
<1>4. x \in DOMAIN slots
  BY <1>1 DEF Backed
<1>5. Vacated(slots, x, y) /\ y[x].gen = (slots[x].gen + 1) % GenMod /\ y[x].next_free = free_head
  BY <1>2, <1>4, ReleasedShape
<1>6. u = [heap |-> SubSeq(h, 1, n), slots |-> y]
  <2>1. i = (Len(h) - 1) + 1
    BY <1>3
  <2> QED
    BY <2>1, Zenon DEF Removed
<1>7. u.slots = y
  BY <1>6
<1> HIDE DEF u, y, n
<1>8. u \in Table /\ Backed(u) /\ Len(u.heap) = n /\ \A a \in 1..n : u.heap[a] = h[a]
  <2>1. Len(Now.heap) = n + 1 /\ Vacated(Now.slots, Now.heap[n + 1].id.idx, y)
    BY <1>1, <1>3, <1>5
  <2>2. SubSeq(h, 1, n) \in Seq(Node) /\ Len(SubSeq(h, 1, n)) = n
        /\ \A a \in 1..n : SubSeq(h, 1, n)[a] = h[a]
    BY <1>2, <1>3
  <2>3. u \in Table /\ Len(u.heap) = n /\ \A a \in 1..n : u.heap[a] = h[a]
    BY <1>5, <1>6, <2>2 DEF Vacated, Table
  <2>4. Backed(u)
    BY <1>1, <1>3, <1>7, <2>1, <2>3, LastLeaves
  <2> QED
    BY <2>3, <2>4
<1>9. DOMAIN u.heap = 1..n
  BY <1>8, TableShape
<1>10. Timers(u.heap) = Timers(h) \ {h[i]}
  <2>1. \A a \in 1..n : a \in DOMAIN h /\ a # i
    BY <1>3
  <2>2. \A a \in 1..n : h[a] # h[i]
    BY <1>1, <2>1 DEF Backed
  <2>3. \A a \in DOMAIN h : a # i => a \in 1..n
    BY <1>3
  <2> QED
    BY <1>8, <1>9, <2>1, <2>2, <2>3 DEF Timers
<1>11. ASSUME Ordered(h) PROVE Ordered(u.heap)
  <2>1. \A j \in 2..n : j \in 2..Len(h) /\ j \in 1..n /\ j \div 2 \in 1..n
    BY <1>3, Halves
  <2> QED
    BY <1>8, <1>11, <2>1 DEF Ordered
<1>12. \A s \in DOMAIN slots : s # x => y[s] = slots[s]
  BY <1>5 DEF Vacated
<1>13. Len(y) = Len(slots) /\ y[x].pos = NO_POS
  BY <1>5 DEF Vacated
<1>14. Len(u.heap) = Len(h) - 1
  BY <1>8 DEF n
<1> QED
  BY <1>5, <1>7, <1>8, <1>10, <1>11, <1>12, <1>13, <1>14 DEF RemovedFrom, u

\* heap_remove_at in the middle of the heap: the timer moved into the gap
\* sinks, then the one that is now there rises.
LEMMA RemovedMiddle ==
  ASSUME Now \in Table, Backed(Now), free_head \in 0..MaxSlots, NEW i \in DOMAIN h, i # Len(h)
  PROVE  RemovedFrom(i, Removed(i))
<1> DEFINE n == Len(h) - 1
           x == h[i].id.idx
           y == Released(x)
           w == [heap |-> [SubSeq(h, 1, n) EXCEPT ![i] = h[n + 1]], slots |-> y]
           a0 == Place(w, {i})
           down == sift_down(a0, i)
           u == sift_up(down, i)
<1>1. Now.heap = h /\ Now.slots = slots
  BY DEF Now
<1>2. h \in Seq(Node) /\ slots \in Seq(Slot) /\ DOMAIN h = 1..Len(h) /\ Len(h) \in Nat
      /\ DOMAIN slots = 1..Len(slots) /\ Len(slots) \in Nat
      /\ \A a \in DOMAIN h : h[a] \in Node
  BY <1>1, TableShape
<1>3. n \in Nat /\ Len(h) = n + 1 /\ i \in 1..n /\ DOMAIN h = 1..(n + 1)
  BY <1>2
<1>4. x \in DOMAIN slots
  BY <1>1 DEF Backed
<1>5. Vacated(slots, x, y) /\ y[x].gen = (slots[x].gen + 1) % GenMod /\ y[x].next_free = free_head
  BY <1>2, <1>4, ReleasedShape
<1>6. Removed(i) = IF down.slots[down.heap[i].id.idx].pos = i THEN u ELSE down
  <2>1. i # (Len(h) - 1) + 1
    BY <1>3
  <2> QED
    BY <2>1, Zenon DEF Removed
<1> HIDE DEF y, n
<1>7. y \in Seq(Slot) /\ Vacated(Now.slots, Now.heap[i].id.idx, y) /\ Len(Now.heap) = n + 1
  BY <1>1, <1>3, <1>5 DEF Vacated
<1>8. GapTable(Now, n, i, y, w)
  <2>1. w = [heap |-> [SubSeq(Now.heap, 1, n) EXCEPT ![i] = Now.heap[n + 1]], slots |-> y]
    BY <1>1
  <2> HIDE DEF w
  <2> QED
    BY <1>3, <1>7, <2>1, GapShape
<1> HIDE DEF w
<1>9. OwnSlots(w)
  BY <1>3, <1>7, <1>8, GapOwnSlots
<1>10. w \in Table /\ i \in DOMAIN w.heap
  <2>1. w \in Table /\ Len(w.heap) = n
    BY <1>8 DEF GapTable
  <2> QED
    BY <1>3, <2>1, TableShape
<1>11. PlacedAt(w, i, a0)
  BY <1>9, <1>10, PlaceOne
<1> HIDE DEF a0
<1>12. /\ a0 \in Table /\ Backed(a0) /\ Len(a0.slots) = Len(Now.slots)
       /\ Len(a0.heap) = n /\ a0.heap[i] = Now.heap[n + 1]
       /\ \A a \in 1..n : a # i => a0.heap[a] = Now.heap[a]
       /\ \A s \in DOMAIN Now.slots : /\ a0.slots[s].gen = y[s].gen
                                      /\ a0.slots[s].next_free = y[s].next_free
                                      /\ a0.slots[s].pos = NO_POS <=> y[s].pos = NO_POS
  BY <1>3, <1>7, <1>8, <1>11, GapFilled
<1>13. i \in DOMAIN a0.heap
  BY <1>3, <1>12, TableShape
<1>14. down \in Table /\ Backed(down) /\ Rearranged(a0, down)
       /\ (GapAt(a0.heap, i) => OrderedBut(down.heap, i))
  BY <1>12, <1>13, SiftDownShape
<1> HIDE DEF down
<1>15. i \in DOMAIN down.heap
  <2>1. Len(down.heap) = n
    BY <1>12, <1>14 DEF Rearranged
  <2> QED
    BY <1>3, <1>14, <2>1, TableShape
<1>16. u \in Table /\ Backed(u) /\ Rearranged(down, u)
       /\ (OrderedBut(down.heap, i) => Ordered(u.heap))
  BY <1>14, <1>15, SiftUpShape
<1>17. Removed(i) = u
  <2>1. down.slots[down.heap[i].id.idx].pos = i
    BY <1>14, <1>15 DEF Backed
  <2> QED
    BY <1>6, <2>1
<1> HIDE DEF u
<1>18. Rearranged(a0, u)
  BY <1>12, <1>14, <1>16, RearrangedTwice
<1>19. /\ Len(u.heap) = n /\ Timers(u.heap) = Timers(a0.heap) /\ Len(u.slots) = Len(slots)
       /\ \A s \in DOMAIN slots : /\ u.slots[s].gen = y[s].gen
                                  /\ u.slots[s].next_free = y[s].next_free
                                  /\ u.slots[s].pos = NO_POS <=> y[s].pos = NO_POS
  <2>1. DOMAIN a0.slots = DOMAIN slots
    BY <1>1, <1>2, <1>12, TableShape
  <2> QED
    BY <1>1, <1>12, <1>18, <2>1 DEF Rearranged
<1>20. Timers(u.heap) = Timers(h) \ {h[i]}
  <2>1. DOMAIN a0.heap = 1..n
    BY <1>12, TableShape
  <2>2. a0.heap[i] = h[n + 1] /\ \A a \in 1..n : a # i => a0.heap[a] = h[a]
    BY <1>1, <1>12
  <2>3. \A a \in DOMAIN h : a # i => h[a] # h[i]
    BY <1>1 DEF Backed
  <2>4. n + 1 \in DOMAIN h /\ n + 1 # i /\ \A a \in 1..n : a \in DOMAIN h
    BY <1>3
  <2>5. \A a \in DOMAIN h : a = n + 1 \/ a \in 1..n
    BY <1>3
  <2>6. ASSUME NEW v \in Timers(a0.heap) PROVE v \in Timers(h) \ {h[i]}
    <3>1. PICK a \in 1..n : v = a0.heap[a]
      BY <2>1 DEF Timers
    <3> QED
      BY <2>2, <2>3, <2>4, <3>1 DEF Timers
  <2>7. ASSUME NEW v \in Timers(h) \ {h[i]} PROVE v \in Timers(a0.heap)
    <3>1. PICK a \in DOMAIN h : v = h[a] /\ a # i
      BY DEF Timers
    <3>2. CASE a = n + 1
      BY <1>3, <2>1, <2>2, <3>1, <3>2 DEF Timers
    <3>3. CASE a \in 1..n
      BY <2>1, <2>2, <3>1, <3>3 DEF Timers
    <3> QED
      BY <2>5, <3>2, <3>3
  <2> QED
    BY <1>19, <2>6, <2>7
<1>21. ASSUME Ordered(h) PROVE Ordered(u.heap)
  <2> DEFINE k == a0.heap
  <2>1. k[i] = h[n + 1] /\ \A a \in 1..n : a # i => k[a] = h[a]
    BY <1>1, <1>12
  <2>2. \A j \in 2..n : j \in 1..n /\ j \in 2..Len(h) /\ j \div 2 \in 1..n /\ j \div 2 < j
    BY <1>3, Halves
  <2>3. \A j \in 2..Len(h) : ~node_less(h[j], h[j \div 2])
    BY <1>21 DEF Ordered
  <2>4. Len(k) = n
    BY <1>12
  <2> HIDE DEF k
  <2>5. \A j \in 2..n : j # i /\ j \div 2 # i => ~node_less(k[j], k[j \div 2])
    BY <2>1, <2>2, <2>3
  <2>6. ASSUME NEW j \in 2..n, j \div 2 = i, i > 1 PROVE ~node_less(k[j], k[i \div 2])
    <3>1. i \in 2..n
      BY <1>3, <2>6
    <3>2. j # i /\ i \div 2 # i /\ i \div 2 \in 1..n
      BY <1>3, <2>2, <2>6, <3>1
    <3>3. k[j] = h[j] /\ k[i \div 2] = h[i \div 2]
      BY <2>1, <2>2, <3>2
    <3>4. ~node_less(h[j], h[i]) /\ ~node_less(h[i], h[i \div 2])
      BY <2>2, <2>3, <2>6, <3>1
    <3>5. h[j] \in Node /\ h[i] \in Node /\ h[i \div 2] \in Node
      BY <1>2, <1>3, <2>2, <3>2
    <3> QED
      BY <3>3, <3>4, <3>5, NodeOrder
  <2>7. GapAt(k, i)
    BY <2>4, <2>5, <2>6 DEF GapAt
  <2> QED
    BY <1>14, <1>16, <2>7 DEF k
<1>22. \A s \in DOMAIN slots : s # x => y[s] = slots[s]
  BY <1>5 DEF Vacated
<1>23. y[x].pos = NO_POS /\ Len(u.heap) = Len(h) - 1
  BY <1>5, <1>19 DEF Vacated, n
<1>24. RemovedFrom(i, u)
  BY <1>5, <1>16, <1>19, <1>20, <1>21, <1>22, <1>23 DEF RemovedFrom
<1> QED
  BY <1>17, <1>24

\* heap_remove_at
LEMMA RemovedShape ==
  ASSUME Now \in Table, Backed(Now), free_head \in 0..MaxSlots, NEW i \in DOMAIN h
  PROVE  RemovedFrom(i, Removed(i))
BY RemovedLast, RemovedMiddle

\* The timer v at the end of the heap, where its slot does not know it yet.
Appended(t, v, w) ==
    /\ w \in Table /\ w.slots = t.slots /\ Len(w.heap) = Len(t.heap) + 1
    /\ w.heap[Len(t.heap) + 1] = v
    /\ \A a \in DOMAIN t.heap : w.heap[a] = t.heap[a]

\* What dyn_timer_add leaves: the timer v more, in a slot that was free.
AddedTo(t, v, u) ==
    /\ u \in Table /\ Backed(u)
    /\ Len(u.heap) = Len(t.heap) + 1 /\ Len(u.slots) = Len(t.slots)
    /\ Timers(u.heap) = Timers(t.heap) \cup {v}
    /\ \A s \in DOMAIN t.slots :
          /\ u.slots[s].pos = NO_POS <=> t.slots[s].pos = NO_POS /\ s # v.id.idx
          /\ u.slots[s].gen = t.slots[s].gen
          /\ u.slots[s].next_free = t.slots[s].next_free
    /\ Ordered(t.heap) => Ordered(u.heap)

\* Appending v at the end, before its slot is told.
LEMMA AppendedShape ==
  ASSUME NEW t \in Table, NEW v \in Node
  PROVE  Appended(t, v, [heap |-> Append(t.heap, v), slots |-> t.slots])
<1> DEFINE k == Append(t.heap, v)
<1>1. t.heap \in Seq(Node) /\ t.slots \in Seq(Slot) /\ DOMAIN t.heap = 1..Len(t.heap)
  BY TableShape
<1>2. /\ k \in Seq(Node) /\ Len(k) = Len(t.heap) + 1 /\ k[Len(t.heap) + 1] = v
      /\ \A a \in DOMAIN t.heap : k[a] = t.heap[a]
  BY <1>1, AppendProperties
<1> HIDE DEF k
<1>3. Appended(t, v, [heap |-> k, slots |-> t.slots])
  BY <1>1, <1>2 DEF Appended, Table
<1> QED
  BY <1>3 DEF k

\* The new timer's slot was free, so no other timer has it.
LEMMA AppendedOwnSlots ==
  ASSUME NEW t \in Table, Backed(t), NEW v \in Node, NEW w, Appended(t, v, w),
         v.id.idx \in DOMAIN t.slots, t.slots[v.id.idx].pos = NO_POS
  PROVE  OwnSlots(w)
<1> DEFINE n == Len(t.heap) + 1
           g == t.heap
           k == w.heap
<1>1. DOMAIN g = 1..Len(g) /\ Len(g) \in Nat
  BY TableShape
<1>2. w \in Table /\ w.slots = t.slots /\ Len(k) = n /\ k[n] = v /\ \A a \in DOMAIN g : k[a] = g[a]
  BY DEF Appended
<1>3. DOMAIN k = 1..n
  BY <1>2, TableShape
<1>4. \A a \in 1..n : a = n \/ a \in DOMAIN g
  BY <1>1
<1>5. \A a \in DOMAIN g : g[a].id.idx \in DOMAIN t.slots /\ t.slots[g[a].id.idx].pos = a
  BY DEF Backed
<1>6. \A a \in DOMAIN g : a # NO_POS
  BY <1>1 DEF NO_POS
<1> HIDE DEF g, k, n
<1>7. \A a \in DOMAIN g : g[a].id.idx # v.id.idx
  BY <1>5, <1>6
<1>8. \A a \in 1..n : k[a].id.idx \in DOMAIN t.slots
  BY <1>2, <1>4, <1>5
<1>9. ASSUME NEW a \in 1..n, NEW b \in 1..n, k[a].id.idx = k[b].id.idx PROVE a = b
  <2>1. CASE a = n \/ b = n
    BY <1>2, <1>4, <1>7, <1>9, <2>1
  <2>2. CASE a # n /\ b # n
    <3>1. a \in DOMAIN g /\ b \in DOMAIN g /\ g[a].id.idx = g[b].id.idx
      BY <1>2, <1>4, <1>9, <2>2
    <3> QED
      BY <1>5, <3>1
  <2> QED
    BY <2>1, <2>2
<1> QED
  BY <1>2, <1>3, <1>8, <1>9 DEF OwnSlots, k

\* Once its slot is told, heap and slots point at each other again.
LEMMA AppendedPlaced ==
  ASSUME NEW t \in Table, Backed(t), NEW v \in Node, NEW w, Appended(t, v, w),
         v.id.idx \in DOMAIN t.slots, t.slots[v.id.idx].pos = NO_POS,
         t.slots[v.id.idx].gen = v.id.gen,
         NEW u, PlacedAt(w, Len(t.heap) + 1, u)
  PROVE  /\ u \in Table /\ Backed(u) /\ u.heap = w.heap /\ Len(u.slots) = Len(t.slots)
         /\ \A s \in DOMAIN t.slots :
               /\ u.slots[s].pos = NO_POS <=> t.slots[s].pos = NO_POS /\ s # v.id.idx
               /\ u.slots[s].gen = t.slots[s].gen
               /\ u.slots[s].next_free = t.slots[s].next_free
<1> DEFINE n == Len(t.heap) + 1
           g == t.heap
           k == u.heap
           x == v.id.idx
<1>1. DOMAIN g = 1..Len(g) /\ Len(g) \in Nat /\ DOMAIN t.slots = 1..Len(t.slots)
      /\ \A s \in DOMAIN t.slots : t.slots[s] \in Slot
  BY TableShape
<1>2. /\ u \in Table /\ Len(u.slots) = Len(t.slots) /\ u.heap = w.heap
      /\ Len(k) = n /\ k[n] = v /\ \A a \in DOMAIN g : k[a] = g[a]
      /\ u.slots[x] = [t.slots[x] EXCEPT !.pos = n]
      /\ \A s \in DOMAIN t.slots : s # x => u.slots[s] = t.slots[s]
  BY DEF Appended, PlacedAt
<1>3. DOMAIN k = 1..n /\ DOMAIN u.slots = DOMAIN t.slots
  BY <1>1, <1>2, TableShape
<1>4. n # NO_POS /\ n \in 1..n /\ \A a \in 1..n : a = n \/ a \in DOMAIN g
  BY <1>1 DEF NO_POS
<1>5. /\ \A a \in DOMAIN g : /\ g[a].id.idx \in DOMAIN t.slots
                             /\ t.slots[g[a].id.idx].pos = a
                             /\ t.slots[g[a].id.idx].gen = g[a].id.gen
      /\ \A s \in DOMAIN t.slots :
           t.slots[s].pos # NO_POS => t.slots[s].pos \in DOMAIN g /\ g[t.slots[s].pos].id.idx = s
  BY DEF Backed
<1>6. \A a \in DOMAIN g : a # NO_POS /\ a \in 1..n
  BY <1>1 DEF NO_POS
<1>7. x \in DOMAIN t.slots /\ u.slots[x].pos = n /\ u.slots[x].gen = t.slots[x].gen
      /\ u.slots[x].next_free = t.slots[x].next_free
  BY <1>1, <1>2 DEF Slot
<1> HIDE DEF g, k, n, x
<1>8. \A a \in DOMAIN g : g[a].id.idx # x
  BY <1>5, <1>6 DEF x
<1>9. ASSUME NEW a \in 1..n
      PROVE  /\ k[a].id.idx \in DOMAIN u.slots /\ u.slots[k[a].id.idx].pos = a
             /\ u.slots[k[a].id.idx].gen = k[a].id.gen
  <2>1. CASE a = n
    BY <1>2, <1>3, <1>7, <2>1 DEF x
  <2>2. CASE a \in DOMAIN g
    <3>1. k[a] = g[a] /\ u.slots[g[a].id.idx] = t.slots[g[a].id.idx]
      BY <1>2, <1>5, <1>8, <2>2
    <3> QED
      BY <1>3, <1>5, <2>2, <3>1
  <2> QED
    BY <1>4, <2>1, <2>2
<1>10. ASSUME NEW s \in DOMAIN u.slots, u.slots[s].pos # NO_POS
       PROVE  u.slots[s].pos \in 1..n /\ k[u.slots[s].pos].id.idx = s
  <2>1. CASE s = x
    BY <1>2, <1>4, <1>7, <2>1 DEF x
  <2>2. CASE s # x
    <3>1. u.slots[s] = t.slots[s]
      BY <1>2, <1>3, <2>2
    <3> QED
      BY <1>2, <1>3, <1>5, <1>6, <1>10, <3>1
  <2> QED
    BY <2>1, <2>2
<1>11. Backed(u)
  BY <1>3, <1>9, <1>10 DEF Backed, k
<1>12. ASSUME NEW s \in DOMAIN t.slots
       PROVE  /\ u.slots[s].pos = NO_POS <=> t.slots[s].pos = NO_POS /\ s # v.id.idx
              /\ u.slots[s].gen = t.slots[s].gen
              /\ u.slots[s].next_free = t.slots[s].next_free
  <2>1. CASE s = x
    BY <1>4, <1>7, <2>1 DEF x
  <2>2. CASE s # x
    BY <1>2, <2>2 DEF x
  <2> QED
    BY <2>1, <2>2
<1> QED
  BY <1>2, <1>11, <1>12

\* The heap part of dyn_timer_add.
LEMMA AddedShape ==
  ASSUME NEW t \in Table, Backed(t), NEW v \in Node,
         v.id.idx \in DOMAIN t.slots, t.slots[v.id.idx].pos = NO_POS,
         t.slots[v.id.idx].gen = v.id.gen
  PROVE  LET n == Len(t.heap) + 1
             w == [heap |-> Append(t.heap, v), slots |-> t.slots]
         IN  AddedTo(t, v, sift_up(Place(w, {n}), n))
<1> DEFINE n == Len(t.heap) + 1
           w == [heap |-> Append(t.heap, v), slots |-> t.slots]
           a0 == Place(w, {n})
           u == sift_up(a0, n)
<1>1. DOMAIN t.heap = 1..Len(t.heap) /\ Len(t.heap) \in Nat
  BY TableShape
<1>2. Appended(t, v, w)
  BY AppendedShape
<1> HIDE DEF w
<1>3. OwnSlots(w)
  BY <1>2, AppendedOwnSlots
<1>4. w \in Table /\ DOMAIN w.heap = 1..n /\ n \in DOMAIN w.heap
      /\ w.heap[n] = v /\ Len(w.heap) = n /\ \A a \in DOMAIN t.heap : w.heap[a] = t.heap[a]
  <2>1. w \in Table /\ Len(w.heap) = n
    BY <1>2 DEF Appended
  <2>2. DOMAIN w.heap = 1..n
    BY <2>1, TableShape
  <2> QED
    BY <1>1, <1>2, <2>1, <2>2 DEF Appended
<1>5. PlacedAt(w, n, a0)
  <2> HIDE DEF n
  <2> QED
    BY <1>3, <1>4, PlaceOne
<1> HIDE DEF a0
<1>6. /\ a0 \in Table /\ Backed(a0) /\ a0.heap = w.heap /\ Len(a0.slots) = Len(t.slots)
      /\ \A s \in DOMAIN t.slots :
            /\ a0.slots[s].pos = NO_POS <=> t.slots[s].pos = NO_POS /\ s # v.id.idx
            /\ a0.slots[s].gen = t.slots[s].gen
            /\ a0.slots[s].next_free = t.slots[s].next_free
  BY <1>2, <1>5, AppendedPlaced
<1> HIDE DEF n
<1>7. u \in Table /\ Backed(u) /\ Rearranged(a0, u) /\ (OrderedBut(a0.heap, n) => Ordered(u.heap))
  BY <1>4, <1>6, SiftUpShape
<1> HIDE DEF u
<1>8. Timers(a0.heap) = Timers(t.heap) \cup {v}
  <2>1. \A a \in 1..n : a = n \/ a \in DOMAIN t.heap
    BY <1>1 DEF n
  <2>2. n \in 1..n /\ \A a \in DOMAIN t.heap : a \in 1..n
    BY <1>1 DEF n
  <2> QED
    BY <1>4, <1>6, <2>1, <2>2 DEF Timers
<1>9. ASSUME Ordered(t.heap) PROVE OrderedBut(a0.heap, n)
  <2> DEFINE k == a0.heap
  <2>1. \A j \in 2..n : /\ j # n => j \in 2..Len(t.heap) /\ j \in DOMAIN t.heap /\ j \div 2 \in DOMAIN t.heap
                        /\ j \div 2 # n
    BY <1>1, Halves DEF n
  <2>2. Len(k) = n /\ \A a \in DOMAIN t.heap : k[a] = t.heap[a]
    BY <1>4, <1>6
  <2> HIDE DEF k
  <2>3. \A j \in 2..n : j # n => ~node_less(k[j], k[j \div 2])
    BY <1>9, <2>1, <2>2 DEF Ordered
  <2>4. OrderedBut(k, n)
    BY <2>1, <2>2, <2>3 DEF OrderedBut
  <2> QED
    BY <2>4 DEF k
<1>10. DOMAIN a0.slots = DOMAIN t.slots
  BY <1>6, TableShape
<1>11. AddedTo(t, v, u)
  BY <1>4, <1>6, <1>7, <1>8, <1>9, <1>10 DEF AddedTo, Rearranged, n
<1> QED
  BY <1>11 DEF u, a0, w, n

-----------------------------------------------------------------------------
(* The list of free slots *)

\* q[1], ..., q[m] are the free slots of sl in the order of the list that
\* starts at head, each once, and q[m + 1] is the end of the list.
Chain(sl, head, m, q) ==
    /\ m \in Nat /\ q \in [1..(m + 1) -> Nat]
    /\ q[1] = head /\ q[m + 1] = NO_POS
    /\ \A k \in 1..m : /\ q[k] \in DOMAIN sl /\ sl[q[k]].pos = NO_POS
                       /\ sl[q[k]].next_free = q[k + 1]
    /\ \A j, k \in 1..m : q[j] = q[k] => j = k
    /\ \A s \in DOMAIN sl : sl[s].pos = NO_POS => \E k \in 1..m : q[k] = s

\* A slot released goes to the front of the list.
LEMMA ChainPush ==
  ASSUME NEW sl \in Seq(Slot), NEW head, NEW m, NEW q, Chain(sl, head, m, q),
         NEW y \in Seq(Slot), Len(y) = Len(sl), NEW x \in DOMAIN sl, sl[x].pos # NO_POS,
         y[x].pos = NO_POS, y[x].next_free = head,
         \A s \in DOMAIN sl : s # x => /\ y[s].next_free = sl[s].next_free
                                       /\ y[s].pos = NO_POS <=> sl[s].pos = NO_POS
  PROVE  \E p : Chain(y, x, m + 1, p)
<1> DEFINE p == [k \in 1..(m + 2) |-> IF k = 1 THEN x ELSE q[k - 1]]
<1>1. DOMAIN sl = 1..Len(sl) /\ DOMAIN y = 1..Len(y) /\ Len(sl) \in Nat
  BY LenProperties
<1>2. /\ m \in Nat /\ q \in [1..(m + 1) -> Nat] /\ q[1] = head /\ q[m + 1] = NO_POS
      /\ \A k \in 1..m : /\ q[k] \in DOMAIN sl /\ sl[q[k]].pos = NO_POS
                         /\ sl[q[k]].next_free = q[k + 1]
      /\ \A j, k \in 1..m : q[j] = q[k] => j = k
      /\ \A s \in DOMAIN sl : sl[s].pos = NO_POS => \E k \in 1..m : q[k] = s
  BY DEF Chain
<1>3. x \in Nat
  BY <1>1
<1>4. /\ p \in [1..((m + 1) + 1) -> Nat]
      /\ p[1] = x /\ p[(m + 1) + 1] = NO_POS
      /\ \A k \in 1..(m + 1) : k # 1 => k - 1 \in 1..m /\ p[k] = q[k - 1] /\ p[k + 1] = q[(k - 1) + 1]
      /\ p[2] = head
      /\ \A k \in 1..m : k + 1 \in 1..(m + 1) /\ p[k + 1] = q[k]
  BY <1>2, <1>3
<1> HIDE DEF p
<1>5. \A k \in 1..m : q[k] # x /\ q[k] \in DOMAIN y /\ y[q[k]].pos = NO_POS /\ y[q[k]].next_free = q[k + 1]
  BY <1>1, <1>2
<1>6. ASSUME NEW k \in 1..(m + 1)
      PROVE  p[k] \in DOMAIN y /\ y[p[k]].pos = NO_POS /\ y[p[k]].next_free = p[k + 1]
  <2>1. CASE k = 1
    BY <1>1, <1>4, <2>1
  <2>2. CASE k # 1
    BY <1>4, <1>5, <2>2
  <2> QED
    BY <2>1, <2>2
<1>7. ASSUME NEW j \in 1..(m + 1), NEW k \in 1..(m + 1), p[j] = p[k] PROVE j = k
  <2>1. CASE j = 1 \/ k = 1
    <3>1. \A c \in 1..(m + 1) : c # 1 => p[c] # x
      BY <1>4, <1>5
    <3> QED
      BY <1>4, <1>7, <2>1, <3>1
  <2>2. CASE j # 1 /\ k # 1
    <3>0. j - 1 \in 1..m /\ k - 1 \in 1..m /\ q[j - 1] = q[k - 1]
      BY <1>4, <1>7, <2>2
    <3>1. j - 1 = k - 1
      BY <1>2, <3>0
    <3> QED
      BY <1>2, <3>1
  <2> QED
    BY <2>1, <2>2
<1>8. ASSUME NEW s \in DOMAIN y, y[s].pos = NO_POS PROVE \E k \in 1..(m + 1) : p[k] = s
  <2>1. CASE s = x
    <3>1. 1 \in 1..(m + 1)
      BY <1>2
    <3> QED
      BY <1>4, <2>1, <3>1
  <2>2. CASE s # x
    <3>1. s \in DOMAIN sl /\ sl[s].pos = NO_POS
      BY <1>1, <1>8, <2>2
    <3>2. PICK k \in 1..m : q[k] = s
      BY <1>2, <3>1
    <3> QED
      BY <1>4, <3>2
  <2> QED
    BY <2>1, <2>2
<1>9. m + 1 \in Nat
  BY <1>2
<1>10. Chain(y, x, m + 1, p)
  BY <1>4, <1>6, <1>7, <1>8, <1>9 DEF Chain
<1> QED
  BY <1>10

\* A slot taken comes from the front of the list.
LEMMA ChainPop ==
  ASSUME NEW sl \in Seq(Slot), NEW head, NEW m, NEW q, Chain(sl, head, m, q), head # NO_POS,
         NEW y \in Seq(Slot), Len(y) = Len(sl),
         \A s \in DOMAIN sl : /\ y[s].next_free = sl[s].next_free
                              /\ y[s].pos = NO_POS <=> sl[s].pos = NO_POS /\ s # head
  PROVE  /\ m - 1 \in Nat /\ head \in DOMAIN sl /\ sl[head].pos = NO_POS
         /\ \E p : Chain(y, sl[head].next_free, m - 1, p)
<1> DEFINE p == [k \in 1..m |-> q[k + 1]]
<1>1. DOMAIN sl = 1..Len(sl) /\ DOMAIN y = 1..Len(y) /\ Len(sl) \in Nat
  BY LenProperties
<1>2. /\ m \in Nat /\ q \in [1..(m + 1) -> Nat] /\ q[1] = head /\ q[m + 1] = NO_POS
      /\ \A k \in 1..m : /\ q[k] \in DOMAIN sl /\ sl[q[k]].pos = NO_POS
                         /\ sl[q[k]].next_free = q[k + 1]
      /\ \A j, k \in 1..m : q[j] = q[k] => j = k
      /\ \A s \in DOMAIN sl : sl[s].pos = NO_POS => \E k \in 1..m : q[k] = s
  BY DEF Chain
<1>3. m # 0
  BY <1>2
<1>4. m - 1 \in Nat /\ 1 \in 1..m
  BY <1>2, <1>3
<1>5. head \in DOMAIN sl /\ sl[head].pos = NO_POS /\ sl[head].next_free = q[2]
  BY <1>2, <1>4
<1>6. /\ p \in [1..((m - 1) + 1) -> Nat] /\ p[1] = q[2] /\ p[(m - 1) + 1] = NO_POS
      /\ \A k \in 1..(m - 1) : k + 1 \in 1..m /\ k + 1 # 1 /\ p[k] = q[k + 1] /\ p[k + 1] = q[(k + 1) + 1]
  BY <1>2, <1>4
<1> HIDE DEF p
<1>7. \A k \in 1..m : k # 1 => q[k] # head
  BY <1>2, <1>4
<1>8. ASSUME NEW k \in 1..(m - 1)
      PROVE  p[k] \in DOMAIN y /\ y[p[k]].pos = NO_POS /\ y[p[k]].next_free = p[k + 1]
  <2>1. k + 1 \in 1..m /\ q[k + 1] # head /\ p[k] = q[k + 1]
    BY <1>6, <1>7
  <2>2. q[k + 1] \in DOMAIN sl /\ sl[q[k + 1]].pos = NO_POS /\ sl[q[k + 1]].next_free = q[(k + 1) + 1]
    BY <1>2, <2>1
  <2> QED
    BY <1>1, <1>6, <2>1, <2>2
<1>9. ASSUME NEW j \in 1..(m - 1), NEW k \in 1..(m - 1), p[j] = p[k] PROVE j = k
  <2>0. j + 1 \in 1..m /\ k + 1 \in 1..m /\ q[j + 1] = q[k + 1]
    BY <1>6, <1>9
  <2>1. j + 1 = k + 1
    BY <1>2, <2>0
  <2> QED
    BY <1>2, <2>1
<1>10. ASSUME NEW s \in DOMAIN y, y[s].pos = NO_POS PROVE \E k \in 1..(m - 1) : p[k] = s
  <2>1. s \in DOMAIN sl /\ sl[s].pos = NO_POS /\ s # head
    BY <1>1, <1>10
  <2>2. PICK k \in 1..m : q[k] = s
    BY <1>2, <2>1
  <2>3. k # 1
    BY <1>2, <2>1, <2>2
  <2>4. k - 1 \in 1..(m - 1) /\ (k - 1) + 1 = k
    BY <1>2, <2>3
  <2> QED
    BY <1>6, <2>2, <2>4
<1>11. Chain(y, q[2], m - 1, p)
  BY <1>4, <1>6, <1>8, <1>9, <1>10 DEF Chain
<1> QED
  BY <1>4, <1>5, <1>11

\* The positions of a sequence are as many as its length says.
LEMMA SegmentCard ==
  ASSUME NEW n \in Nat
  PROVE  IsFiniteSet(1..n) /\ Cardinality(1..n) = n
<1>1. 1 \in Int /\ n \in Int
  OBVIOUS
<1>2. IsFiniteSet(1..n) /\ Cardinality(1..n) = IF 1 > n THEN 0 ELSE n - 1 + 1
  BY <1>1, FS_Interval
<1> QED
  BY <1>2

\* The list is no longer than the table.
LEMMA ChainBound ==
  ASSUME NEW sl \in Seq(Slot), NEW head, NEW m, NEW q, Chain(sl, head, m, q)
  PROVE  m <= Len(sl)
<1> DEFINE f == [k \in 1..m |-> q[k]]
<1>1. DOMAIN sl = 1..Len(sl) /\ Len(sl) \in Nat
  BY LenProperties
<1>2. m \in Nat /\ f \in [1..m -> 1..Len(sl)] /\ \A j, k \in 1..m : f[j] = f[k] => j = k
  BY <1>1 DEF Chain
<1> HIDE DEF f
<1>3. f \in Injection(1..m, 1..Len(sl))
  BY <1>2 DEF Injection, IsInjective
<1>4. IsFiniteSet(1..Len(sl)) /\ Cardinality(1..Len(sl)) = Len(sl) /\ Cardinality(1..m) = m
  BY <1>1, <1>2, SegmentCard
<1>5. Cardinality(1..m) <= Cardinality(1..Len(sl))
  BY <1>3, <1>4, FS_Injection
<1> QED
  BY <1>4, <1>5

\* FreeWalk follows the list.
LEMMA WalkChain ==
  ASSUME slots \in Seq(Slot), NEW m, NEW q, Chain(slots, free_head, m, q)
  PROVE  FreeWalk = [k \in 0..Len(slots) |-> IF k <= m THEN q[k + 1] ELSE NO_POS]
<1> DEFINE n == Len(slots)
           next(k, x) == IF k = 0 THEN free_head ELSE IF x = NO_POS THEN NO_POS ELSE slots[x].next_free
           body(f) == [k \in 0..n |-> next(k, f[k - 1])]
           F == [k \in 0..n |-> IF k <= m THEN q[k + 1] ELSE NO_POS]
           W == FreeWalk
<1>1. W = CHOOSE f : f = body(f)
  BY Zenon DEF FreeWalk
<1>2. n \in Nat /\ DOMAIN slots = 1..n
  BY LenProperties
<1>3. /\ m \in Nat /\ q[1] = free_head /\ q[m + 1] = NO_POS
      /\ \A k \in 1..m : q[k] \in DOMAIN slots /\ slots[q[k]].next_free = q[k + 1]
  BY DEF Chain
<1>4. \A k \in 1..m : q[k] # NO_POS
  BY <1>2, <1>3 DEF NO_POS
<1>5. \A k \in 0..n : F[k] = IF k <= m THEN q[k + 1] ELSE NO_POS
  OBVIOUS
<1> HIDE DEF F, W, n
<1>6. ASSUME NEW k \in 0..n PROVE F[k] = next(k, F[k - 1])
  <2>1. CASE k = 0
    BY <1>3, <1>5, <2>1
  <2>2. CASE k # 0 /\ k <= m
    <3>1. k - 1 \in 0..n /\ k - 1 <= m /\ k \in 1..m /\ (k - 1) + 1 = k
      BY <1>2, <1>3, <2>2
    <3>2. F[k] = q[k + 1] /\ F[k - 1] = q[k]
      BY <1>5, <2>2, <3>1
    <3> QED
      BY <1>3, <1>4, <2>2, <3>1, <3>2
  <2>3. CASE k # 0 /\ k = m + 1
    <3>1. k - 1 \in 0..n /\ k - 1 <= m /\ (k - 1) + 1 = m + 1 /\ ~(k <= m)
      BY <1>2, <1>3, <2>3
    <3>2. F[k] = NO_POS /\ F[k - 1] = q[m + 1]
      BY <1>5, <3>1
    <3> QED
      BY <1>3, <2>3, <3>2
  <2>4. CASE k # 0 /\ k > m + 1
    <3>1. k - 1 \in 0..n /\ ~(k - 1 <= m) /\ ~(k <= m)
      BY <1>2, <1>3, <2>4
    <3> QED
      BY <1>5, <2>4, <3>1
  <2> QED
    BY <1>2, <1>3, <2>1, <2>2, <2>3, <2>4
<1>7. F = body(F)
  <2>1. F = [k \in 0..n |-> F[k]]
    BY DEF F
  <2> HIDE DEF next
  <2> QED
    BY <1>6, <2>1
<1>8. W = body(W)
  <2> HIDE DEF body
  <2> QED
    BY <1>1, <1>7
<1>9. DOMAIN W = 0..n /\ W = [k \in 0..n |-> W[k]] /\ \A k \in 0..n : W[k] = next(k, W[k - 1])
  <2> HIDE DEF next
  <2>1. DOMAIN W = 0..n
    BY <1>8
  <2>2. \A k \in 0..n : W[k] = next(k, W[k - 1])
    BY <1>8
  <2> QED
    BY <1>8, <2>1, <2>2
<1> DEFINE D == 0..n
           r == [k \in D |-> k]
           A == {k \in D : W[k] = F[k]}
<1>10. ASSUME NEW k \in D, \A b \in D : r[b] < r[k] => b \in A PROVE k \in A
  <2>1. CASE k = 0
    BY <1>6, <1>9, <2>1
  <2>2. CASE k # 0
    <3>1. k - 1 \in D /\ k - 1 < k
      BY <1>2, <2>2
    <3>2. W[k - 1] = F[k - 1]
      BY <1>10, <3>1
    <3> QED
      BY <1>6, <1>9, <3>2
  <2> QED
    BY <2>1, <2>2
<1>11. A = D
  <2>1. r \in [D -> Nat] /\ A \in SUBSET D
    BY <1>2
  <2> HIDE DEF r, A, D
  <2> QED
    BY <1>10, <2>1, RankInduction
<1>12. W = F
  <2>1. \A k \in 0..n : W[k] = F[k]
    BY <1>11
  <2>2. F = [k \in 0..n |-> F[k]]
    BY DEF F
  <2> QED
    BY <1>9, <2>1, <2>2
<1> QED
  BY <1>12 DEF W, F, n

\* Slots that lie on the list and slots that point at their timers are a
\* coherent table.
LEMMA ChainCoherent ==
  ASSUME Now \in Table, Backed(Now), NEW m, NEW q, Chain(slots, free_head, m, q)
  PROVE  SlotsCoherent /\ Len(h) <= Len(slots)
<1> DEFINE n == Len(slots)
           D == DOMAIN h
           S == 1..n
           B == S \ FreeSlots
           f == [a \in D |-> h[a].id.idx]
<1>1. Now.heap = h /\ Now.slots = slots
  BY DEF Now
<1>2. slots \in Seq(Slot) /\ n \in Nat /\ DOMAIN slots = S /\ D = 1..Len(h) /\ Len(h) \in Nat
  BY <1>1, TableShape
<1>3. /\ \A a \in D : h[a].id.idx \in S /\ slots[h[a].id.idx].pos = a /\ slots[h[a].id.idx].gen = h[a].id.gen
      /\ \A s \in S : slots[s].pos # NO_POS => slots[s].pos \in D /\ h[slots[s].pos].id.idx = s
  BY <1>1, <1>2 DEF Backed
<1>4. \A a \in D : a # NO_POS
  BY <1>2 DEF NO_POS
<1>5. B = {s \in S : slots[s].pos # NO_POS} /\ FreeSlots \in SUBSET S
  BY <1>2 DEF FreeSlots
<1> HIDE DEF D, S, B
<1>6. f \in [D -> B] /\ (\A a, b \in D : f[a] = f[b] => a = b) /\ \A s \in B : \E a \in D : f[a] = s
  <2>1. \A a \in D : f[a] \in B
    BY <1>3, <1>4, <1>5
  <2>2. \A a, b \in D : f[a] = f[b] => a = b
    BY <1>3
  <2>3. \A s \in B : \E a \in D : f[a] = s
    BY <1>3, <1>5
  <2> QED
    BY <2>1, <2>2, <2>3
<1> HIDE DEF f
<1>7. IsFiniteSet(S) /\ Cardinality(S) = n
  BY <1>2, SegmentCard DEF S
<1>8. IsFiniteSet(B) /\ Cardinality(B) = Cardinality(S) - Cardinality(FreeSlots)
  <2>1. S \cap FreeSlots = FreeSlots
    BY <1>5
  <2> QED
    BY <1>7, <2>1, FS_Difference DEF B
<1>9. Cardinality(D) = Cardinality(B)
  <2>1. f \in Injection(D, B)
    BY <1>6 DEF Injection, IsInjective
  <2>2. f \in Surjection(D, B)
    BY <1>6 DEF Surjection
  <2> QED
    BY <1>8, <2>1, <2>2, FS_Injection
<1>10. Cardinality(D) = Len(h)
  BY <1>2, SegmentCard
<1>11. Cardinality(FreeSlots) \in Nat
  BY <1>5, <1>7, FS_Subset, FS_CardinalityType
<1>12. Cardinality(FreeSlots) = Len(slots) - Len(h) /\ Len(h) <= Len(slots)
  BY <1>2, <1>7, <1>8, <1>9, <1>10, <1>11
<1>13. FreeList = FreeSlots \cup {NO_POS}
  <2>1. FreeWalk = [k \in 0..n |-> IF k <= m THEN q[k + 1] ELSE NO_POS]
    BY <1>2, WalkChain
  <2>2. m <= n /\ m \in Nat
    <3>1. m <= n
      BY <1>2, ChainBound
    <3> QED
      BY <3>1 DEF Chain
  <2>3. DOMAIN FreeWalk = 0..n /\ \A k \in 0..n : FreeWalk[k] = IF k <= m THEN q[k + 1] ELSE NO_POS
    BY <2>1
  <2>4. /\ q[m + 1] = NO_POS
        /\ \A k \in 1..m : q[k] \in FreeSlots
        /\ \A s \in FreeSlots : \E k \in 1..m : q[k] = s
    BY DEF Chain, FreeSlots
  <2>5. ASSUME NEW x \in FreeList PROVE x \in FreeSlots \cup {NO_POS}
    <3>1. PICK k \in 0..n : x = IF k <= m THEN q[k + 1] ELSE NO_POS
      BY <2>3 DEF FreeList
    <3>2. k <= m => k + 1 = m + 1 \/ k + 1 \in 1..m
      BY <2>2
    <3> QED
      BY <2>4, <3>1, <3>2
  <2>6. ASSUME NEW x \in FreeSlots PROVE x \in FreeList
    <3>1. PICK k \in 1..m : q[k] = x
      BY <2>4
    <3>2. k - 1 \in 0..n /\ k - 1 <= m /\ (k - 1) + 1 = k
      BY <1>2, <2>2
    <3>3. FreeWalk[k - 1] = x
      BY <2>3, <3>1, <3>2
    <3> QED
      BY <2>3, <3>2, <3>3 DEF FreeList
  <2>7. NO_POS \in FreeList
    <3>1. m \in 0..n /\ m <= m
      BY <1>2, <2>2
    <3>2. FreeWalk[m] = NO_POS
      BY <2>3, <2>4, <3>1
    <3> QED
      BY <2>3, <3>1, <3>2 DEF FreeList
  <2> QED
    BY <2>5, <2>6, <2>7
<1> QED
  BY <1>3, <1>12, <1>13 DEF SlotsCoherent, D

-----------------------------------------------------------------------------
(* The inductive invariant *)

\* Heap and slots point at each other, the heap is in order, and the free
\* slots are on the list.
HeapInv ==
    /\ Now \in Table /\ Len(slots) <= MaxSlots
    /\ Backed(Now) /\ Ordered(h)
    /\ \E m, q : Chain(slots, free_head, m, q)

\* The timers in the heap are the ones their numbers and ids were given for.
HistInv ==
    /\ seq = Len(ids) /\ ids \in Seq(Id)
    /\ clock \in 0..TimeMax /\ run_now \in -1..TimeMax /\ run_now <= clock
    /\ fired \subseteq 0..(seq - 1) /\ cancelled \subseteq 0..(seq - 1)
    /\ \A v \in Timers(h) : v.seq \in 0..(seq - 1) /\ ids[v.seq + 1] = v.id

\* The list starts at a slot or is empty.
LEMMA ChainHead ==
  ASSUME NEW sl \in Seq(Slot), NEW head, NEW m, NEW q, Chain(sl, head, m, q)
  PROVE  head \in 0..Len(sl) /\ (head = NO_POS => m = 0)
<1>1. DOMAIN sl = 1..Len(sl) /\ Len(sl) \in Nat
  BY LenProperties
<1>2. /\ m \in Nat /\ q[1] = head /\ q[m + 1] = NO_POS
      /\ \A k \in 1..m : q[k] \in DOMAIN sl
  BY DEF Chain
<1>3. CASE m = 0
  BY <1>1, <1>2, <1>3 DEF NO_POS
<1>4. CASE m # 0
  <2>1. 1 \in 1..m
    BY <1>2, <1>4
  <2> QED
    BY <1>1, <1>2, <2>1 DEF NO_POS
<1> QED
  BY <1>3, <1>4

\* The invariant says all that HeapSound does, and the types.
LEMMA HeapInvSound ==
  ASSUME HeapInv
  PROVE  HeapSound /\ h \in Seq(Node) /\ slots \in Seq(Slot) /\ Len(h) <= Len(slots)
         /\ free_head \in 0..Len(slots) /\ free_head \in 0..MaxSlots /\ Len(slots) \in Nat
         /\ DOMAIN h = 1..Len(h) /\ DOMAIN slots = 1..Len(slots) /\ Len(h) \in Nat
         /\ Now.heap = h /\ Now.slots = slots
<1>1. PICK m, q : Chain(slots, free_head, m, q)
  BY DEF HeapInv
<1>2. Now \in Table /\ Backed(Now) /\ Ordered(h) /\ Len(slots) <= MaxSlots
  BY DEF HeapInv
<1>3. SlotsCoherent /\ Len(h) <= Len(slots)
  BY <1>1, <1>2, ChainCoherent
<1>4. Now.heap = h /\ Now.slots = slots
  BY DEF Now
<1>5. h \in Seq(Node) /\ slots \in Seq(Slot) /\ Len(slots) \in Nat
      /\ DOMAIN h = 1..Len(h) /\ DOMAIN slots = 1..Len(slots) /\ Len(h) \in Nat
  BY <1>2, <1>4, TableShape
<1>6. free_head \in 0..Len(slots)
  BY <1>1, <1>5, ChainHead
<1>7. free_head \in 0..MaxSlots
  BY <1>2, <1>5, <1>6, BoundAssumption
<1>8. HeapOrdered
  BY <1>2 DEF Ordered, HeapOrdered
<1> QED
  BY <1>3, <1>4, <1>5, <1>6, <1>7, <1>8 DEF HeapSound

\* heap_remove_at keeps the heap and the slots sound and takes one timer out.
LEMMA RemoveStep ==
  ASSUME HeapInv, NEW i \in DOMAIN h, heap_remove_at(i)
  PROVE  /\ HeapInv' /\ Timers(h') = Timers(h) \ {h[i]}
         /\ DOMAIN slots' = DOMAIN slots /\ h[i].id.idx \in DOMAIN slots
         /\ \A s \in DOMAIN slots :
              IF s = h[i].id.idx
              THEN slots'[s].pos = NO_POS /\ slots'[s].gen = (slots[s].gen + 1) % GenMod
              ELSE /\ slots'[s].pos = NO_POS <=> slots[s].pos = NO_POS
                   /\ slots'[s].gen = slots[s].gen
<1> DEFINE u == Removed(i)
           x == h[i].id.idx
<1>1. h' = u.heap /\ slots' = u.slots /\ free_head' = x
  BY DEF heap_remove_at
<1>2. Now \in Table /\ Backed(Now) /\ Ordered(h) /\ Len(slots) <= MaxSlots
  BY DEF HeapInv
<1>3. /\ slots \in Seq(Slot) /\ free_head \in 0..MaxSlots /\ Now.heap = h /\ Now.slots = slots
      /\ DOMAIN h = 1..Len(h) /\ Len(h) \in Nat
  BY HeapInvSound
<1>4. RemovedFrom(i, u)
  BY <1>2, <1>3, RemovedShape
<1> HIDE DEF u
<1>5. /\ u \in Table /\ Backed(u) /\ Ordered(u.heap)
      /\ Len(u.slots) = Len(slots) /\ Timers(u.heap) = Timers(h) \ {h[i]}
  BY <1>2, <1>4 DEF RemovedFrom
<1>6. x \in DOMAIN slots /\ slots[x].pos = i /\ i # NO_POS
  BY <1>2, <1>3 DEF Backed, NO_POS
<1>7. /\ u.slots[x].pos = NO_POS /\ u.slots[x].next_free = free_head
      /\ u.slots[x].gen = (slots[x].gen + 1) % GenMod
      /\ \A s \in DOMAIN slots : s # x => /\ u.slots[s].next_free = slots[s].next_free
                                          /\ u.slots[s].gen = slots[s].gen
                                          /\ u.slots[s].pos = NO_POS <=> slots[s].pos = NO_POS
  BY <1>4, <1>6 DEF RemovedFrom
<1>8. PICK m, q : Chain(slots, free_head, m, q)
  BY DEF HeapInv
<1>9. u.slots \in Seq(Slot) /\ DOMAIN u.slots = DOMAIN slots
  BY <1>3, <1>5, TableShape, LenProperties
<1> HIDE DEF x
<1>10. \E p : Chain(u.slots, x, m + 1, p)
  BY <1>3, <1>5, <1>6, <1>7, <1>8, <1>9, ChainPush
<1>11. Now' = u
  BY <1>1, <1>5, TableShape DEF Now
<1>12. HeapInv'
  BY <1>1, <1>2, <1>5, <1>10, <1>11 DEF HeapInv
<1> QED
  BY <1>1, <1>5, <1>6, <1>7, <1>9, <1>12 DEF x

\* A new slot at the end of the table, free and on no list.
LEMMA FreshSlot ==
  ASSUME NEW z \in Seq(Slot), NEW g \in Seq(Node), Backed([heap |-> g, slots |-> z]),
         NEW c \in Slot, c.pos = NO_POS
  PROVE  LET t == [heap |-> g, slots |-> Append(z, c)] IN
         /\ t \in Table /\ Backed(t) /\ Len(t.slots) = Len(z) + 1 /\ t.slots[Len(z) + 1] = c
         /\ \A s \in DOMAIN z : t.slots[s] = z[s]
<1> DEFINE b == [heap |-> g, slots |-> z]
           y == Append(z, c)
           t == [heap |-> g, slots |-> y]
<1>1. y \in Seq(Slot) /\ Len(y) = Len(z) + 1 /\ y[Len(z) + 1] = c
      /\ DOMAIN z = 1..Len(z) /\ DOMAIN y = 1..(Len(z) + 1) /\ Len(z) \in Nat
      /\ \A s \in 1..Len(z) : y[s] = z[s]
  BY LenProperties, AppendProperties
<1>2. \A s \in DOMAIN y : s = Len(z) + 1 \/ s \in DOMAIN z
  BY <1>1
<1>3. \A s \in DOMAIN z : s \in DOMAIN y /\ y[s] = z[s]
  BY <1>1
<1> HIDE DEF y
<1>4. t.heap = g /\ t.slots = y /\ b.heap = g /\ b.slots = z /\ t \in Table
  BY <1>1 DEF Table
<1>5. /\ \A a \in DOMAIN g : /\ g[a].id.idx \in DOMAIN z /\ z[g[a].id.idx].pos = a
                             /\ z[g[a].id.idx].gen = g[a].id.gen
      /\ \A s \in DOMAIN z : z[s].pos # NO_POS => z[s].pos \in DOMAIN g /\ g[z[s].pos].id.idx = s
  BY <1>4 DEF Backed
<1> HIDE DEF t
<1>6. Backed(t)
  BY <1>1, <1>2, <1>3, <1>4, <1>5 DEF Backed
<1>7. t \in Table /\ Backed(t) /\ Len(t.slots) = Len(z) + 1 /\ t.slots[Len(z) + 1] = c
      /\ \A s \in DOMAIN z : t.slots[s] = z[s]
  BY <1>1, <1>3, <1>4, <1>6
<1> QED
  BY <1>7 DEF t, y

\* What a step of dyn_timer_add does, with v the timer created.
Adds(d, v) ==
    /\ v \in Node /\ v.seq = seq /\ v.deadline = Deadline(d) /\ ids' = Append(ids, v.id)
    /\ Timers(h') = Timers(h) \cup {v}
    /\ DOMAIN slots' = DOMAIN slots \cup {v.id.idx}
    /\ slots'[v.id.idx].pos # NO_POS /\ slots'[v.id.idx].gen = v.id.gen
    /\ \/ v.id.idx \in DOMAIN slots /\ slots[v.id.idx].pos = NO_POS /\ slots[v.id.idx].gen = v.id.gen
       \/ v.id.idx \notin DOMAIN slots /\ v.id.gen = 0
    /\ \A s \in DOMAIN slots : s # v.id.idx =>
          (slots'[s].pos = NO_POS <=> slots[s].pos = NO_POS) /\ slots'[s].gen = slots[s].gen

\* dyn_timer_add keeps the heap and the slots sound and puts one timer in.
LEMMA AddStep ==
  ASSUME HeapInv, HistInv, NEW d \in Delay, dyn_timer_add(d)
  PROVE  HeapInv' /\ \E v : Adds(d, v)
<1> DEFINE fresh == free_head = NO_POS
           idx == IF fresh THEN Len(slots) + 1 ELSE free_head
           c == [pos |-> NO_POS, gen |-> 0, next_free |-> NO_POS]
           tbl == IF fresh THEN Append(slots, c) ELSE slots
           v == [deadline |-> Deadline(d), seq |-> seq, id |-> [idx |-> idx, gen |-> tbl[idx].gen]]
           n == Len(h) + 1
           u == sift_up(Place([heap |-> Append(h, v), slots |-> tbl], {n}), n)
           t == [heap |-> h, slots |-> tbl]
<1>1. /\ h' = u.heap /\ slots' = u.slots /\ free_head' = tbl[idx].next_free
      /\ ids' = Append(ids, v.id) /\ SlotAvailable
  BY Zenon DEF dyn_timer_add
<1>2. /\ h \in Seq(Node) /\ slots \in Seq(Slot) /\ free_head \in 0..Len(slots) /\ Len(slots) \in Nat
      /\ DOMAIN slots = 1..Len(slots) /\ Len(h) \in Nat
  BY HeapInvSound
<1>3. Backed(Now) /\ Now \in Table /\ Ordered(h) /\ Len(slots) <= MaxSlots /\ Now = [heap |-> h, slots |-> slots]
  BY DEF HeapInv, Now
<1>4. PICK m, q : Chain(slots, free_head, m, q)
  BY DEF HeapInv
<1>5. c \in Slot /\ c.pos = NO_POS /\ c.gen = 0 /\ c.next_free = NO_POS
  <2>1. 0 \in 0..(GenMod - 1) /\ 0 \in 0..MaxSlots
    BY BoundAssumption
  <2> QED
    BY <2>1 DEF Slot, NO_POS
<1>6. /\ t \in Table /\ Backed(t) /\ idx \in DOMAIN tbl /\ tbl[idx].pos = NO_POS
      /\ tbl \in Seq(Slot) /\ Len(tbl) <= MaxSlots /\ tbl[idx] \in Slot
      /\ DOMAIN tbl = DOMAIN slots \cup {idx} /\ \A s \in DOMAIN slots : tbl[s] = slots[s]
      /\ \/ idx \in DOMAIN slots /\ slots[idx].pos = NO_POS
         \/ idx \notin DOMAIN slots /\ tbl[idx].gen = 0
  <2>1. CASE fresh
    <3>1. tbl = Append(slots, c) /\ idx = Len(slots) + 1 /\ Len(slots) < MaxSlots
      BY <1>1, <2>1 DEF SlotAvailable
    <3> HIDE DEF tbl, idx, fresh, c
    <3>2. /\ t \in Table /\ Backed(t) /\ Len(t.slots) = Len(slots) + 1 /\ t.slots[Len(slots) + 1] = c
          /\ \A s \in DOMAIN slots : t.slots[s] = slots[s]
      BY <1>2, <1>3, <1>5, <3>1, FreshSlot
    <3>3. t.slots = tbl
      OBVIOUS
    <3>4. tbl \in Seq(Slot) /\ Len(tbl) = Len(slots) + 1 /\ DOMAIN tbl = 1..(Len(slots) + 1)
      BY <3>2, <3>3, TableShape
    <3>5. 1..(Len(slots) + 1) = 1..Len(slots) \cup {Len(slots) + 1}
      BY <1>2
    <3>6. Len(tbl) <= MaxSlots
      BY <1>2, <3>1, <3>4, BoundAssumption
    <3>7. idx \notin DOMAIN slots
      BY <1>2, <3>1
    <3> QED
      BY <1>2, <1>5, <3>1, <3>2, <3>3, <3>4, <3>5, <3>6, <3>7
  <2>2. CASE ~fresh
    <3>1. tbl = slots /\ idx = free_head /\ t = Now
      BY <1>3, <2>2
    <3>2. free_head # NO_POS
      BY <2>2
    <3> HIDE DEF tbl, idx, fresh, c, t
    <3>3. free_head \in DOMAIN slots /\ slots[free_head].pos = NO_POS
      <4>1. /\ m \in Nat /\ q[1] = free_head /\ q[m + 1] = NO_POS
            /\ \A k \in 1..m : q[k] \in DOMAIN slots /\ slots[q[k]].pos = NO_POS
        BY <1>4 DEF Chain
      <4>2. 1 \in 1..m
        BY <3>2, <4>1
      <4> QED
        BY <4>1, <4>2
    <3>4. slots[free_head] \in Slot
      BY <1>2, <3>3, ElementOfSeq
    <3> QED
      BY <1>2, <1>3, <3>1, <3>3, <3>4
  <2> QED
    BY <2>1, <2>2
<1>7. v \in Node /\ v.id.idx = idx /\ v.id.gen = tbl[idx].gen /\ v.seq = seq /\ v.deadline = Deadline(d)
  <2>1. Deadline(d) \in 0..TimeMax
    <3>1. clock \in Nat /\ d \in Nat /\ TimeMax \in Nat
      BY DelayAssumption, BoundAssumption DEF HistInv
    <3> QED
      BY <3>1 DEF Deadline
  <2>2. seq \in Nat
    BY LenProperties DEF HistInv
  <2>3. idx \in 1..MaxSlots /\ tbl[idx].gen \in 0..(GenMod - 1)
    <3>1. DOMAIN tbl = 1..Len(tbl) /\ Len(tbl) \in Nat
      BY <1>6, LenProperties
    <3>2. MaxSlots \in Nat
      BY BoundAssumption
    <3> HIDE DEF tbl, idx
    <3>3. idx \in 1..MaxSlots
      BY <1>6, <3>1, <3>2
    <3> QED
      BY <1>6, <3>3 DEF Slot
  <2> HIDE DEF tbl, idx
  <2> QED
    BY <2>1, <2>2, <2>3 DEF Node, Id
<1> HIDE DEF v, tbl, idx
<1>8. AddedTo(t, v, u)
  <2>1. t.heap = h /\ t.slots = tbl
    OBVIOUS
  <2> DEFINE n2 == Len(t.heap) + 1
             w2 == [heap |-> Append(t.heap, v), slots |-> t.slots]
  <2> HIDE DEF t
  <2>2. AddedTo(t, v, sift_up(Place(w2, {n2}), n2))
    BY <1>6, <1>7, <2>1, AddedShape
  <2> QED
    BY <2>1, <2>2
<1> HIDE DEF u
<1>9. t.heap = h /\ t.slots = tbl
  OBVIOUS
<1> HIDE DEF t
<1>10. /\ u \in Table /\ Backed(u) /\ Len(u.slots) = Len(tbl) /\ Ordered(u.heap)
       /\ Timers(u.heap) = Timers(h) \cup {v}
       /\ \A s \in DOMAIN tbl :
             /\ u.slots[s].pos = NO_POS <=> tbl[s].pos = NO_POS /\ s # idx
             /\ u.slots[s].gen = tbl[s].gen
             /\ u.slots[s].next_free = tbl[s].next_free
  BY <1>3, <1>7, <1>8, <1>9 DEF AddedTo
<1>11. u.slots \in Seq(Slot) /\ DOMAIN u.slots = DOMAIN tbl
  BY <1>6, <1>10, TableShape, LenProperties
<1>12. \E mm, p : Chain(u.slots, tbl[idx].next_free, mm, p)
  <2>1. CASE fresh
    <3>1. tbl[idx].next_free = NO_POS /\ idx = Len(slots) + 1
      BY <1>2, <1>5, <2>1, AppendProperties DEF tbl, idx
    <3>2. \A s \in DOMAIN slots : slots[s].pos # NO_POS
      <4>1. m = 0
        BY <1>2, <1>4, <2>1, ChainHead
      <4> QED
        BY <1>4, <4>1 DEF Chain
    <3>3. \A s \in DOMAIN u.slots : u.slots[s].pos # NO_POS
      BY <1>6, <1>10, <1>11, <3>2
    <3> DEFINE p == [k \in 1..1 |-> NO_POS]
    <3>4. Chain(u.slots, NO_POS, 0, p)
      BY <3>3 DEF Chain, NO_POS
    <3> QED
      BY <3>1, <3>4
  <2>2. CASE ~fresh
    <3>1. tbl = slots /\ idx = free_head /\ free_head # NO_POS
      BY <2>2 DEF tbl, idx
    <3>2. \E p : Chain(u.slots, slots[free_head].next_free, m - 1, p)
      BY <1>2, <1>4, <1>10, <1>11, <3>1, ChainPop
    <3> QED
      BY <3>1, <3>2
  <2> QED
    BY <2>1, <2>2
<1>13. Now' = u
  BY <1>1, <1>10, TableShape DEF Now
<1>14. HeapInv'
  BY <1>1, <1>6, <1>10, <1>12, <1>13 DEF HeapInv
<1>15. Adds(d, v)
  BY <1>1, <1>6, <1>7, <1>10, <1>11 DEF Adds
<1> QED
  BY <1>14, <1>15

\* dyn_timers_new
LEMMA InitHeap == Init => HeapInv /\ HistInv
<1> SUFFICES ASSUME Init PROVE HeapInv /\ HistInv
  OBVIOUS
<1>1. h = <<>> /\ slots = <<>> /\ free_head = NO_POS /\ seq = 0 /\ clock = 0 /\ run_now = -1
      /\ ids = <<>> /\ fired = {} /\ cancelled = {}
  BY DEF Init, NotRunning
<1>2. Now \in Table /\ Now.heap = <<>> /\ Now.slots = <<>>
  BY <1>1 DEF Now, Table
<1>3. DOMAIN <<>> = 1..0 /\ Len(<<>>) = 0
  OBVIOUS
<1>4. Backed(Now) /\ Ordered(h)
  BY <1>1, <1>2, <1>3 DEF Backed, Ordered
<1>5. Chain(slots, free_head, 0, [k \in 1..1 |-> NO_POS])
  BY <1>1, <1>3 DEF Chain, NO_POS
<1>6. Len(slots) <= MaxSlots
  BY <1>1, <1>3, BoundAssumption
<1>7. HeapInv
  BY <1>2, <1>4, <1>5, <1>6 DEF HeapInv
<1>8. HistInv
  BY <1>1, <1>3, BoundAssumption DEF HistInv, Timers
<1> QED
  BY <1>7, <1>8

\* The timer that an accepted id leads to.
LEMMA ValidPosition ==
  ASSUME HeapInv, HistInv, NEW k \in DOMAIN ids, Valid(ids[k])
  PROVE  /\ ids[k].idx \in DOMAIN slots
         /\ slots[ids[k].idx].pos \in DOMAIN h
         /\ h[slots[ids[k].idx].pos].id = ids[k]
<1>1. ids[k] \in Id /\ k \in 1..seq
  BY ElementOfSeq, LenProperties DEF HistInv
<1>2. DOMAIN slots = 1..Len(slots) /\ Now.heap = h /\ Now.slots = slots
      /\ h \in Seq(Node) /\ DOMAIN h = 1..Len(h)
  BY HeapInvSound
<1>3. ids[k].idx \in DOMAIN slots /\ slots[ids[k].idx].pos # NO_POS /\ slots[ids[k].idx].gen = ids[k].gen
  BY <1>1, <1>2 DEF Valid, Id
<1> DEFINE i == slots[ids[k].idx].pos
<1>4. i \in DOMAIN h /\ h[i].id.idx = ids[k].idx /\ h[i].id.gen = ids[k].gen
  BY <1>2, <1>3 DEF HeapInv, Backed
<1>5. h[i].id \in Id
  <2>1. h[i] \in Node
    BY <1>2, <1>4, ElementOfSeq
  <2> QED
    BY <2>1 DEF Node
<1> HIDE DEF i
<1>6. h[i].id = ids[k]
  BY <1>1, <1>4, <1>5 DEF Id
<1> QED
  BY <1>3, <1>4, <1>6 DEF i

\* The first timer is there when one is due.
LEMMA DueFirst ==
  ASSUME HeapInv, NEW now, Due(now)
  PROVE  1 \in DOMAIN h /\ h[1].deadline <= now
<1>1. h \in Seq(Node) /\ DOMAIN h = 1..Len(h) /\ Len(h) \in Nat
  BY HeapInvSound
<1>2. h # <<>> /\ h[1].deadline <= now
  BY DEF Due
<1>3. Len(h) # 0
  BY <1>1, <1>2, EmptySeq
<1> QED
  BY <1>1, <1>2, <1>3

\* What stands at a position of the heap is one of its timers.
LEMMA HeapTimers ==
  ASSUME NEW i \in DOMAIN h
  PROVE  h[i] \in Timers(h)
BY DEF Timers

\* Every step keeps the heap, the slots and the numbers of the timers.
LEMMA NextHeap ==
  ASSUME HeapInv, HistInv, [Next]_vars
  PROVE  HeapInv' /\ HistInv'
<1> DEFINE Known(ts, nn, tab) == \A v \in ts : v.seq \in 0..(nn - 1) /\ tab[v.seq + 1] = v.id
<1>0. /\ seq = Len(ids) /\ ids \in Seq(Id) /\ seq \in Nat
      /\ clock \in 0..TimeMax /\ run_now \in -1..TimeMax /\ run_now <= clock
      /\ fired \subseteq 0..(seq - 1) /\ cancelled \subseteq 0..(seq - 1)
      /\ Known(Timers(h), seq, ids) /\ DOMAIN ids = 1..seq
  BY LenProperties DEF HistInv
<1>1. ASSUME NEW d \in Delay, dyn_timer_add(d) PROVE HeapInv' /\ HistInv'
  <2>1. HeapInv' /\ \E v : Adds(d, v)
    BY <1>1, AddStep
  <2>2. PICK v : Adds(d, v)
    BY <2>1
  <2>3. v \in Node /\ v.seq = seq /\ ids' = Append(ids, v.id) /\ Timers(h') = Timers(h) \cup {v}
    BY <2>2 DEF Adds
  <2>4. seq' = seq + 1 /\ UNCHANGED <<clock, run_now, fired, cancelled>>
    BY <1>1 DEF dyn_timer_add
  <2>5. ids' \in Seq(Id) /\ Len(ids') = seq + 1 /\ ids'[seq + 1] = v.id /\ \A k \in 1..seq : ids'[k] = ids[k]
    <3>1. v.id \in Id
      BY <2>3 DEF Node
    <3> QED
      BY <1>0, <2>3, <3>1, AppendProperties
  <2>6. Known(Timers(h'), seq + 1, ids')
    <3> SUFFICES ASSUME NEW y \in Timers(h')
                 PROVE  y.seq \in 0..((seq + 1) - 1) /\ ids'[y.seq + 1] = y.id
      OBVIOUS
    <3>1. CASE y = v
      BY <1>0, <2>3, <2>5, <3>1
    <3>2. CASE y \in Timers(h)
      <4>1. y.seq \in 0..(seq - 1) /\ ids[y.seq + 1] = y.id
        BY <1>0, <3>2
      <4>2. y.seq + 1 \in 1..seq
        BY <1>0, <4>1
      <4> QED
        BY <1>0, <2>5, <4>1, <4>2
    <3> QED
      BY <2>3, <3>1, <3>2
  <2>7. fired \subseteq 0..((seq + 1) - 1) /\ cancelled \subseteq 0..((seq + 1) - 1)
    BY <1>0
  <2> QED
    BY <1>0, <2>1, <2>4, <2>5, <2>6, <2>7 DEF HistInv
<1>2. ASSUME NEW k \in DOMAIN ids, dyn_timer_cancel(k) PROVE HeapInv' /\ HistInv'
  <2> DEFINE i == slots[ids[k].idx].pos
  <2>1. /\ Valid(ids[k]) /\ heap_remove_at(i) /\ cancelled' = cancelled \cup {k - 1}
        /\ UNCHANGED <<seq, clock, run_now, ids, fired>>
    BY <1>2 DEF dyn_timer_cancel
  <2>2. i \in DOMAIN h
    BY <2>1, ValidPosition
  <2> HIDE DEF i
  <2>3. HeapInv' /\ Timers(h') = Timers(h) \ {h[i]}
    BY <2>1, <2>2, RemoveStep
  <2>4. Known(Timers(h'), seq, ids)
    BY <1>0, <2>3
  <2>5. k - 1 \in 0..(seq - 1)
    BY <1>0
  <2> QED
    BY <1>0, <2>1, <2>3, <2>4, <2>5 DEF HistInv
<1>3. ASSUME Pop, NEW now, Due(now), run_now' \in -1..TimeMax, run_now' <= clock
      PROVE  HeapInv' /\ HistInv'
  <2>1. heap_remove_at(1) /\ fired' = fired \cup {h[1].seq} /\ UNCHANGED <<seq, clock, ids, cancelled>>
    BY <1>3 DEF Pop
  <2>2. 1 \in DOMAIN h
    BY <1>3, DueFirst
  <2>3. HeapInv' /\ Timers(h') = Timers(h) \ {h[1]}
    BY <2>1, <2>2, RemoveStep
  <2>4. Known(Timers(h'), seq, ids)
    BY <1>0, <2>3
  <2>5. h[1].seq \in 0..(seq - 1)
    BY <1>0, <2>2, HeapTimers
  <2> QED
    BY <1>0, <1>3, <2>1, <2>3, <2>4, <2>5 DEF HistInv
<1>4. CASE RunBegin
  <2>1. Pop /\ Due(clock) /\ run_now' = clock
    BY <1>4 DEF RunBegin
  <2>2. run_now' \in -1..TimeMax /\ run_now' <= clock
    BY <1>0, <2>1, BoundAssumption
  <2> QED
    BY <1>3, <2>1, <2>2
<1>5. CASE RunNext
  <2>1. Pop /\ Due(run_now) /\ run_now' = run_now
    BY <1>5 DEF RunNext
  <2> QED
    BY <1>0, <1>3, <2>1
<1>6. CASE RunEnd
  <2>1. h' = h /\ slots' = slots /\ free_head' = free_head /\ run_now' = -1
        /\ UNCHANGED <<seq, clock, ids, fired, cancelled>>
    BY <1>6 DEF RunEnd, heapVars, NotRunning
  <2>2. HeapInv'
    BY <2>1 DEF HeapInv, Now
  <2> QED
    BY <1>0, <2>1, <2>2, BoundAssumption DEF HistInv
<1>7. CASE Tick
  <2>1. h' = h /\ slots' = slots /\ free_head' = free_head /\ clock' = clock + 1 /\ clock < MaxClock
        /\ UNCHANGED <<seq, run_now, ids, fired, cancelled>>
    BY <1>7 DEF Tick, heapVars
  <2>2. HeapInv'
    BY <2>1 DEF HeapInv, Now
  <2>3. clock' \in 0..TimeMax /\ run_now <= clock'
    BY <1>0, <2>1, BoundAssumption
  <2> QED
    BY <1>0, <2>1, <2>2, <2>3 DEF HistInv
<1>8. CASE UNCHANGED vars
  <2>1. h' = h /\ slots' = slots /\ free_head' = free_head
        /\ UNCHANGED <<seq, clock, run_now, ids, fired, cancelled>>
    BY <1>8 DEF vars, heapVars
  <2>2. HeapInv'
    BY <2>1 DEF HeapInv, Now
  <2> QED
    BY <1>0, <2>1, <2>2 DEF HistInv
<1> QED
  BY <1>1, <1>2, <1>4, <1>5, <1>6, <1>7, <1>8 DEF Next

\* The invariant holds in every reachable state.
LEMMA HeapInvariant == Spec => [](HeapInv /\ HistInv)
<1>1. Init => HeapInv /\ HistInv
  BY InitHeap
<1>2. (HeapInv /\ HistInv) /\ [Next]_vars => (HeapInv /\ HistInv)'
  BY NextHeap
<1> QED
  BY <1>1, <1>2, PTL DEF Spec

\* Type correctness: positions, slots, generations and histories stay in
\* their ranges, and the heap never outgrows the table of slots.
THEOREM TimerTypes == Spec => []TypeOK
<1>1. HeapInv /\ HistInv => TypeOK
  <2> SUFFICES ASSUME HeapInv, HistInv PROVE TypeOK
    OBVIOUS
  <2>1. /\ h \in Seq(Node) /\ slots \in Seq(Slot) /\ Len(h) <= Len(slots)
        /\ free_head \in 0..Len(slots) /\ Len(slots) <= MaxSlots
    BY HeapInvSound DEF HeapInv
  <2> QED
    BY <2>1 DEF TypeOK, HistInv
<1> QED
  BY <1>1, HeapInvariant, PTL

\* No mixture of additions, removals from the middle and pops puts a timer
\* before its parent, leaves a slot pointing at the wrong timer, or loses a
\* slot from the free list: HeapSound, for any number of timers and slots.
THEOREM HeapAlwaysSound == Spec => []HeapSound
<1>1. HeapInv /\ HistInv => HeapSound
  BY HeapInvSound
<1> QED
  BY <1>1, HeapInvariant, PTL

-----------------------------------------------------------------------------
(* Generations *)

\* The timers that were given the slot s.
Uses(s) == {k \in DOMAIN ids : ids[k].idx = s}

\* No slot has been used so often that its generation came round again, which
\* takes 2^32 timers in the one slot.
NoSlotWraps == \A s \in 1..MaxSlots : Cardinality(Uses(s)) < GenMod

Busy(sl, s) == IF sl[s].pos = NO_POS THEN 0 ELSE 1

\* Until a generation comes round, it counts the timers that gave the slot up,
\* every id handed out is of this or an earlier one, and no two ids are equal.
GenInv ==
    /\ \A s \in DOMAIN slots : slots[s].gen + Busy(slots, s) = Cardinality(Uses(s))
    /\ \A k \in DOMAIN ids : /\ ids[k].idx \in DOMAIN slots
                             /\ ids[k].gen < slots[ids[k].idx].gen + Busy(slots, ids[k].idx)
    /\ \A j, k \in DOMAIN ids : ids[j] = ids[k] => j = k

\* Generations are naturals, and a slot counts as busy once or not at all.
LEMMA GenShape ==
  ASSUME HeapInv
  PROVE  \A s \in DOMAIN slots : slots[s].gen \in Nat /\ Busy(slots, s) \in {0, 1} /\ s \in 1..MaxSlots
<1>1. slots \in Seq(Slot) /\ DOMAIN slots = 1..Len(slots) /\ Len(slots) \in Nat /\ Len(slots) <= MaxSlots
  BY HeapInvSound DEF HeapInv
<1>2. \A s \in DOMAIN slots : slots[s] \in Slot
  BY <1>1, ElementOfSeq
<1>3. \A s \in DOMAIN slots : slots[s].gen \in Nat
  BY <1>2, BoundAssumption DEF Slot
<1> QED
  BY <1>1, <1>3, BoundAssumption DEF Busy

\* A removal counts one more timer gone and keeps the ids as they are.
LEMMA GenRemove ==
  ASSUME HeapInv, HistInv, GenInv, NoSlotWraps, NEW i \in DOMAIN h, heap_remove_at(i), ids' = ids
  PROVE  GenInv'
<1> DEFINE x == h[i].id.idx
<1>1. /\ DOMAIN slots' = DOMAIN slots /\ x \in DOMAIN slots
      /\ \A s \in DOMAIN slots :
           IF s = x
           THEN slots'[s].pos = NO_POS /\ slots'[s].gen = (slots[s].gen + 1) % GenMod
           ELSE /\ slots'[s].pos = NO_POS <=> slots[s].pos = NO_POS
                /\ slots'[s].gen = slots[s].gen
  BY RemoveStep
<1>3. slots[x].pos # NO_POS
  <2>1. Now.heap = h /\ Now.slots = slots /\ DOMAIN h = 1..Len(h)
    BY HeapInvSound
  <2> QED
    BY <2>1 DEF HeapInv, Backed, NO_POS
<1> HIDE DEF x
<1>4. slots[x].gen \in Nat /\ x \in 1..MaxSlots /\ slots[x].gen + 1 = Cardinality(Uses(x))
  BY <1>1, <1>3, GenShape DEF GenInv, Busy
<1>5. slots'[x].gen = slots[x].gen + 1 /\ slots'[x].pos = NO_POS
  <2>1. slots[x].gen + 1 < GenMod /\ GenMod \in Nat \ {0}
    BY <1>4, BoundAssumption DEF NoSlotWraps
  <2>2. (slots[x].gen + 1) % GenMod = slots[x].gen + 1
    BY <1>4, <2>1
  <2> QED
    BY <1>1, <2>2
<1>6. \A s \in DOMAIN slots : slots'[s].gen + Busy(slots', s) = slots[s].gen + Busy(slots, s)
  <2> SUFFICES ASSUME NEW s \in DOMAIN slots PROVE slots'[s].gen + Busy(slots', s) = slots[s].gen + Busy(slots, s)
    OBVIOUS
  <2>1. CASE s = x
    BY <1>3, <1>4, <1>5, <2>1 DEF Busy
  <2>2. CASE s # x
    BY <1>1, <2>2 DEF Busy
  <2> QED
    BY <2>1, <2>2
<1>7. \A s : Uses(s)' = Uses(s)
  BY DEF Uses
<1>8. \A k \in DOMAIN ids : ids[k].idx \in DOMAIN slots
  BY DEF GenInv
<1> QED
  BY <1>1, <1>6, <1>7, <1>8 DEF GenInv

\* A new timer gets an id that no earlier timer had.
LEMMA GenAdd ==
  ASSUME HeapInv, HistInv, GenInv, NEW d, NEW v, Adds(d, v)
  PROVE  GenInv'
<1> DEFINE x == v.id.idx
           n == Len(ids)
<1>1. /\ v \in Node /\ ids' = Append(ids, v.id)
      /\ DOMAIN slots' = DOMAIN slots \cup {x}
      /\ slots'[x].pos # NO_POS /\ slots'[x].gen = v.id.gen
      /\ \/ x \in DOMAIN slots /\ slots[x].pos = NO_POS /\ slots[x].gen = v.id.gen
         \/ x \notin DOMAIN slots /\ v.id.gen = 0
      /\ \A s \in DOMAIN slots : s # x =>
            (slots'[s].pos = NO_POS <=> slots[s].pos = NO_POS) /\ slots'[s].gen = slots[s].gen
  BY DEF Adds
<1>2. v.id \in Id /\ v.id.gen \in Nat
  BY <1>1, BoundAssumption DEF Node, Id
<1>3. ids \in Seq(Id) /\ n \in Nat /\ DOMAIN ids = 1..n
  BY LenProperties DEF HistInv
<1>4. /\ DOMAIN ids' = 1..(n + 1) /\ ids'[n + 1] = v.id /\ \A k \in 1..n : ids'[k] = ids[k]
  BY <1>1, <1>2, <1>3, AppendProperties
<1>5. \A k \in DOMAIN ids' : k = n + 1 \/ k \in DOMAIN ids
  BY <1>3, <1>4
<1>6. n + 1 \notin DOMAIN ids
  BY <1>3
<1>7. /\ \A s \in DOMAIN slots : slots[s].gen + Busy(slots, s) = Cardinality(Uses(s))
      /\ \A k \in DOMAIN ids : /\ ids[k].idx \in DOMAIN slots
                               /\ ids[k].gen < slots[ids[k].idx].gen + Busy(slots, ids[k].idx)
      /\ \A j, k \in DOMAIN ids : ids[j] = ids[k] => j = k
  BY DEF GenInv
<1>8. \A s : Uses(s) \in SUBSET (1..n) /\ IsFiniteSet(Uses(s))
  <2>1. IsFiniteSet(1..n)
    BY <1>3, SegmentCard
  <2>2. \A s : Uses(s) \in SUBSET (1..n)
    BY <1>3 DEF Uses
  <2> QED
    BY <2>1, <2>2, FS_Subset
<1> HIDE DEF x
<1>9. Uses(x)' = Uses(x) \cup {n + 1}
  BY <1>3, <1>4, <1>5 DEF Uses, x
<1>10. \A s : s # x => Uses(s)' = Uses(s)
  BY <1>3, <1>4, <1>5 DEF Uses, x
<1>11. Cardinality(Uses(x)') = Cardinality(Uses(x)) + 1
  <2>1. n + 1 \notin Uses(x)
    BY <1>6, <1>8, <1>3
  <2> QED
    BY <1>8, <1>9, <2>1, FS_AddElement
<1>12. Cardinality(Uses(x)) = v.id.gen
  <2>1. CASE x \in DOMAIN slots
    BY <1>1, <1>2, <1>7, <2>1 DEF Busy
  <2>2. CASE x \notin DOMAIN slots
    <3>1. Uses(x) = {}
      BY <1>7, <2>2 DEF Uses
    <3> QED
      BY <1>1, <2>2, <3>1, FS_EmptySet
  <2> QED
    BY <2>1, <2>2
<1>13. Busy(slots', x) = 1 /\ \A s \in DOMAIN slots : s # x => Busy(slots', s) = Busy(slots, s)
  BY <1>1 DEF Busy
<1>14. ASSUME NEW s \in DOMAIN slots' PROVE slots'[s].gen + Busy(slots', s) = Cardinality(Uses(s)')
  <2>1. CASE s = x
    BY <1>1, <1>11, <1>12, <1>13, <2>1
  <2>2. CASE s # x
    BY <1>1, <1>7, <1>10, <1>13, <2>2
  <2> QED
    BY <2>1, <2>2
\* An earlier id of the slot is of an earlier generation.
<1>15. ASSUME NEW k \in DOMAIN ids, ids[k].idx = x PROVE ids[k].gen < v.id.gen
  BY <1>1, <1>7, <1>15, GenShape DEF Busy
<1>16. ASSUME NEW k \in DOMAIN ids' PROVE /\ ids'[k].idx \in DOMAIN slots'
                                          /\ ids'[k].gen < slots'[ids'[k].idx].gen + Busy(slots', ids'[k].idx)
  <2>1. CASE k = n + 1
    BY <1>1, <1>2, <1>4, <1>13, <2>1 DEF x
  <2>2. CASE k \in DOMAIN ids /\ ids[k].idx = x
    <3>1. ids'[k] = ids[k] /\ ids[k].gen \in Nat
      <4>1. ids[k] \in Id
        BY <1>3, <2>2, ElementOfSeq
      <4> QED
        BY <1>3, <1>4, <2>2, <4>1, BoundAssumption DEF Id
    <3> QED
      BY <1>1, <1>2, <1>13, <1>15, <2>2, <3>1
  <2>3. CASE k \in DOMAIN ids /\ ids[k].idx # x
    <3>1. ids'[k] = ids[k] /\ ids[k].idx \in DOMAIN slots
      BY <1>3, <1>4, <1>7, <2>3
    <3> DEFINE s == ids[k].idx
    <3>2. slots'[s].gen = slots[s].gen /\ Busy(slots', s) = Busy(slots, s)
      BY <1>1, <1>13, <2>3, <3>1
    <3>3. ids[k].gen < slots[s].gen + Busy(slots, s)
      BY <1>7, <2>3
    <3> HIDE DEF s
    <3> QED
      BY <1>1, <3>1, <3>2, <3>3 DEF s
  <2> QED
    BY <1>5, <2>1, <2>2, <2>3
<1>17. ASSUME NEW j \in DOMAIN ids', NEW k \in DOMAIN ids', ids'[j] = ids'[k] PROVE j = k
  <2>1. ASSUME NEW c \in DOMAIN ids PROVE ids'[c] = ids[c] /\ ids[c] # v.id
    <3>1. ids'[c] = ids[c]
      BY <1>3, <1>4
    <3>2. ids[c] = v.id => v.id.gen < v.id.gen
      BY <1>15 DEF x
    <3> QED
      BY <1>2, <3>1, <3>2
  <2> QED
    BY <1>4, <1>5, <1>7, <1>17, <2>1
<1> QED
  BY <1>14, <1>16, <1>17 DEF GenInv

-----------------------------------------------------------------------------
(* The refinement *)

\* The timer of the abstract specification that v stands for.
Bar(v) == [deadline |-> v.deadline, seq |-> v.seq]
Bars(ts) == {Bar(v) : v \in ts}

\* The refinement mapping is the image of the timers in the heap.
LEMMA BarTimers ==
  /\ armedBar = Bars(Timers(h))
  /\ armedBar' = Bars(Timers(h'))
BY DEF armedBar, Bars, Bar, Timers

\* Two timers of the heap with one number are the same timer.
LEMMA NumbersDiffer ==
  ASSUME HeapInv, HistInv, NEW v \in Timers(h), NEW w \in Timers(h), v.seq = w.seq
  PROVE  v = w
<1>1. v.id = w.id
  BY DEF HistInv
<1>2. PICK a \in DOMAIN h : v = h[a]
  BY DEF Timers
<1>3. PICK b \in DOMAIN h : w = h[b]
  BY DEF Timers
<1>4. Now.heap = h /\ Now.slots = slots /\ Backed(Now)
  BY HeapInvSound DEF HeapInv
<1>5. slots[v.id.idx].pos = a /\ slots[w.id.idx].pos = b
  BY <1>2, <1>3, <1>4 DEF Backed
<1> QED
  BY <1>1, <1>2, <1>3, <1>5

\* Taking a timer out of the heap takes its image out of the service.
LEMMA BarsRemove ==
  ASSUME HeapInv, HistInv, NEW a \in Timers(h)
  PROVE  Bars(Timers(h) \ {a}) = Bars(Timers(h)) \ {Bar(a)}
<1>1. \A v \in Timers(h) : Bar(v) = Bar(a) => v = a
  <2> SUFFICES ASSUME NEW v \in Timers(h), Bar(v) = Bar(a) PROVE v = a
    OBVIOUS
  <2>1. v.seq = a.seq
    BY DEF Bar
  <2> QED
    BY <2>1, NumbersDiffer
<1> QED
  BY <1>1 DEF Bars

\* The timers in the heap are nodes.
LEMMA TimersAreNodes ==
  ASSUME HeapInv, NEW v \in Timers(h)
  PROVE  v \in Node
<1>1. h \in Seq(Node) /\ DOMAIN h = 1..Len(h)
  BY HeapInvSound
<1> QED
  BY <1>1, ElementOfSeq DEF Timers

\* In an ordered heap nothing comes before the timer at the top.
LEMMA TopFirst ==
  ASSUME HeapInv, 1 \in DOMAIN h, NEW v \in Timers(h)
  PROVE  ~node_less(v, h[1])
<1> DEFINE D == DOMAIN h
           r == [a \in D |-> a]
           A == {a \in D : ~node_less(h[a], h[1])}
<1>1. D = 1..Len(h) /\ Len(h) \in Nat /\ h \in Seq(Node) /\ Ordered(h)
  BY HeapInvSound DEF HeapInv
<1>2. \A a \in D : h[a] \in Node
  BY <1>1, ElementOfSeq
<1>3. ASSUME NEW a \in D, \A b \in D : r[b] < r[a] => b \in A PROVE a \in A
  <2>1. CASE a = 1
    BY <1>2, <2>1, NodeOrder
  <2>2. CASE a # 1
    <3>1. a \in 2..Len(h) /\ a \div 2 \in D /\ a \div 2 < a
      BY <1>1, <2>2, Halves
    <3>2. ~node_less(h[a \div 2], h[1])
      BY <1>3, <3>1
    <3>3. ~node_less(h[a], h[a \div 2])
      BY <1>1, <3>1 DEF Ordered
    <3>4. h[a] \in Node /\ h[a \div 2] \in Node /\ h[1] \in Node
      BY <1>2, <3>1
    <3> QED
      BY <3>2, <3>3, <3>4, NodeOrder
  <2> QED
    BY <2>1, <2>2
<1>4. A = D
  <2>1. r \in [D -> Nat] /\ A \in SUBSET D
    BY <1>1
  <2> HIDE DEF r, A, D
  <2> QED
    BY <1>3, <2>1, RankInduction
<1> QED
  BY <1>4 DEF Timers

\* Firing the timer at the top is a step of the service.
LEMMA FireStep ==
  ASSUME HeapInv, HistInv, Pop, NEW now \in Int, now <= clock, Due(now)
  PROVE  \E t \in armedBar : Service!Fire(t)
<1> DEFINE a == h[1]
           t == Bar(a)
<1>1. heap_remove_at(1) /\ fired' = fired \cup {a.seq} /\ UNCHANGED <<clock, cancelled>>
  BY DEF Pop
<1>2. 1 \in DOMAIN h /\ a.deadline <= now
  BY DueFirst
<1>3. a \in Timers(h) /\ a \in Node
  BY <1>2, HeapTimers, TimersAreNodes
<1>4. Timers(h') = Timers(h) \ {a}
  BY <1>1, <1>2, RemoveStep
<1>5. armedBar = Bars(Timers(h)) /\ armedBar' = armedBar \ {t}
  BY <1>3, <1>4, BarTimers, BarsRemove
<1>6. t \in armedBar /\ t.deadline = a.deadline /\ t.seq = a.seq
  BY <1>3, <1>5 DEF Bars, Bar
<1>7. t.deadline <= clock
  <2>1. a.deadline \in Int /\ clock \in Int
    BY <1>3, BoundAssumption DEF Node, HistInv
  <2> QED
    BY <1>2, <1>6, <2>1
<1>8. ASSUME NEW u \in armedBar \ {t} PROVE Service!Before(t, u)
  <2>1. PICK w \in Timers(h) : u = Bar(w)
    BY <1>5 DEF Bars
  <2>2. w \in Node /\ ~node_less(w, a) /\ w.seq # a.seq
    BY <1>2, <1>3, <1>8, <2>1, TimersAreNodes, TopFirst, NumbersDiffer
  <2>3. u.deadline = w.deadline /\ u.seq = w.seq
    BY <2>1 DEF Bar
  <2>4. a.deadline \in Int /\ w.deadline \in Int /\ a.seq \in Int /\ w.seq \in Int
    BY <1>3, <2>2, BoundAssumption DEF Node
  <2>5. a.deadline < w.deadline \/ (a.deadline = w.deadline /\ a.seq < w.seq)
    BY <2>2, <2>4 DEF node_less
  <2> QED
    BY <1>6, <2>3, <2>5 DEF Service!Before
<1> HIDE DEF t
<1>9. Service!Fire(t)
  BY <1>1, <1>5, <1>6, <1>7, <1>8 DEF Service!Fire
<1> QED
  BY <1>6, <1>9

\* An accepted cancellation takes the timer out that the id was made for.
LEMMA CancelStep ==
  ASSUME HeapInv, HistInv, GenInv, NEW k \in DOMAIN ids, dyn_timer_cancel(k)
  PROVE  \E t \in armedBar : Service!Cancel(t)
<1> DEFINE i == slots[ids[k].idx].pos
           a == h[i]
           t == Bar(a)
<1>1. /\ Valid(ids[k]) /\ heap_remove_at(i) /\ cancelled' = cancelled \cup {k - 1}
      /\ UNCHANGED <<clock, fired>>
  BY DEF dyn_timer_cancel
<1>2. i \in DOMAIN h /\ a.id = ids[k]
  BY <1>1, ValidPosition
<1> HIDE DEF i
<1>3. a \in Timers(h) /\ a \in Node
  BY <1>2, HeapTimers, TimersAreNodes
<1>4. a.seq = k - 1
  <2>1. a.seq \in 0..(seq - 1) /\ ids[a.seq + 1] = a.id /\ seq = Len(ids) /\ ids \in Seq(Id)
    BY <1>3 DEF HistInv
  <2>2. DOMAIN ids = 1..seq /\ seq \in Nat
    BY <2>1, LenProperties
  <2>3. a.seq + 1 \in DOMAIN ids
    BY <2>1, <2>2
  <2>4. a.seq + 1 = k
    BY <1>2, <2>1, <2>3 DEF GenInv
  <2> QED
    BY <2>1, <2>2, <2>4
<1>5. Timers(h') = Timers(h) \ {a}
  BY <1>1, <1>2, RemoveStep
<1>6. armedBar = Bars(Timers(h)) /\ armedBar' = armedBar \ {t}
  BY <1>3, <1>5, BarTimers, BarsRemove
<1>7. t \in armedBar /\ t.seq = a.seq
  BY <1>3, <1>6 DEF Bars, Bar
<1> HIDE DEF t
<1>8. Service!Cancel(t)
  BY <1>1, <1>4, <1>6, <1>7 DEF Service!Cancel
<1> QED
  BY <1>7, <1>8

\* A timer added is new to the service and not due in the past.
LEMMA AddsStep ==
  ASSUME HeapInv, HistInv, NEW d \in Delay, dyn_timer_add(d)
  PROVE  \E t \in armedBar' : Service!Add(t)
<1>1. PICK v : Adds(d, v)
  BY AddStep
<1> DEFINE t == Bar(v)
<1>2. v \in Node /\ v.seq = seq /\ v.deadline = Deadline(d) /\ Timers(h') = Timers(h) \cup {v}
  BY <1>1 DEF Adds
<1>3. UNCHANGED <<clock, fired, cancelled>>
  BY DEF dyn_timer_add
<1>4. armedBar = Bars(Timers(h)) /\ armedBar' = armedBar \cup {t}
  BY <1>2, BarTimers DEF Bars
<1>5. t.deadline = Deadline(d) /\ t.seq = seq
  BY <1>2 DEF Bar
<1>6. t.deadline >= clock
  <2>1. clock \in 0..TimeMax /\ d \in Nat /\ TimeMax \in Nat
    BY DelayAssumption, BoundAssumption DEF HistInv
  <2> QED
    BY <1>5, <2>1 DEF Deadline
<1>7. seq \in Nat
  BY LenProperties DEF HistInv
<1>8. \A u \in armedBar : u.seq # seq
  <2> SUFFICES ASSUME NEW u \in armedBar PROVE u.seq # seq
    OBVIOUS
  <2>1. PICK w \in Timers(h) : u = Bar(w)
    BY <1>4 DEF Bars
  <2>2. u.seq = w.seq /\ w.seq \in 0..(seq - 1)
    BY <2>1 DEF Bar, HistInv
  <2> QED
    BY <1>7, <2>2
<1>9. seq \notin fired /\ seq \notin cancelled
  BY <1>7 DEF HistInv
<1> HIDE DEF t
<1>10. Service!Add(t)
  BY <1>3, <1>4, <1>5, <1>6, <1>8, <1>9 DEF Service!Add, Service!Numbers
<1> QED
  BY <1>4, <1>10

\* Every step of the heap is a step of the service or changes nothing in it.
LEMMA ServiceStep ==
  ASSUME HeapInv, HistInv, GenInv, [Next]_vars
  PROVE  [Service!Next]_(Service!vars)
<1>1. ASSUME h' = h, UNCHANGED <<fired, cancelled, clock>> PROVE UNCHANGED Service!vars
  BY <1>1 DEF Service!vars, armedBar
<1>2. ASSUME NEW d \in Delay, dyn_timer_add(d) PROVE Service!Next
  BY <1>2, AddsStep DEF Service!Next
<1>3. ASSUME NEW k \in DOMAIN ids, dyn_timer_cancel(k) PROVE Service!Next
  BY <1>3, CancelStep DEF Service!Next
<1>4. clock \in Int /\ run_now \in Int /\ clock <= clock /\ run_now <= clock
  BY BoundAssumption DEF HistInv
<1>5. CASE RunBegin
  <2>1. Pop /\ Due(clock)
    BY <1>5 DEF RunBegin
  <2> QED
    BY <1>4, <2>1, FireStep DEF Service!Next
<1>6. CASE RunNext
  <2>1. Pop /\ Due(run_now)
    BY <1>6 DEF RunNext
  <2> QED
    BY <1>4, <2>1, FireStep DEF Service!Next
<1>7. CASE RunEnd
  BY <1>1, <1>7 DEF RunEnd, heapVars
<1>8. CASE Tick
  <2>1. h' = h /\ clock' = clock + 1 /\ UNCHANGED <<fired, cancelled>>
    BY <1>8 DEF Tick, heapVars
  <2>2. armedBar' = armedBar
    BY <2>1 DEF armedBar
  <2> QED
    BY <1>4, <2>1, <2>2 DEF Service!Next, Service!Tick
<1>9. CASE UNCHANGED vars
  BY <1>1, <1>9 DEF vars, heapVars
<1> QED
  BY <1>2, <1>3, <1>5, <1>6, <1>7, <1>8, <1>9 DEF Next

\* No timer is armed at first.
LEMMA ServiceInit == Init => Service!Init
<1> SUFFICES ASSUME Init PROVE Service!Init
  OBVIOUS
<1>1. h = <<>> /\ fired = {} /\ cancelled = {} /\ clock = 0
  BY DEF Init
<1>2. armedBar = {}
  BY <1>1 DEF armedBar
<1> QED
  BY <1>1, <1>2 DEF Service!Init

\* No slot has been used at first.
LEMMA InitGen == Init => GenInv
<1> SUFFICES ASSUME Init PROVE GenInv
  OBVIOUS
<1>1. slots = <<>> /\ ids = <<>>
  BY DEF Init
<1> QED
  BY <1>1 DEF GenInv

\* Every step keeps the generations, until one comes round.
LEMMA NextGen ==
  ASSUME HeapInv, HistInv, GenInv, NoSlotWraps, [Next]_vars
  PROVE  GenInv'
<1>1. ASSUME slots' = slots, ids' = ids PROVE GenInv'
  BY <1>1 DEF GenInv, Uses
<1>2. ASSUME NEW d \in Delay, dyn_timer_add(d) PROVE GenInv'
  BY <1>2, AddStep, GenAdd
<1>3. ASSUME NEW k \in DOMAIN ids, dyn_timer_cancel(k) PROVE GenInv'
  <2> DEFINE i == slots[ids[k].idx].pos
  <2>1. Valid(ids[k]) /\ heap_remove_at(i) /\ ids' = ids
    BY <1>3 DEF dyn_timer_cancel
  <2>2. i \in DOMAIN h
    BY <2>1, ValidPosition
  <2> HIDE DEF i
  <2> QED
    BY <2>1, <2>2, GenRemove
<1>4. ASSUME Pop, NEW now, Due(now) PROVE GenInv'
  <2>1. heap_remove_at(1) /\ ids' = ids /\ 1 \in DOMAIN h
    BY <1>4, DueFirst DEF Pop
  <2> QED
    BY <2>1, GenRemove
<1>5. CASE RunBegin
  BY <1>4, <1>5 DEF RunBegin
<1>6. CASE RunNext
  BY <1>4, <1>6 DEF RunNext
<1>7. CASE RunEnd
  BY <1>1, <1>7 DEF RunEnd, heapVars
<1>8. CASE Tick
  BY <1>1, <1>8 DEF Tick, heapVars
<1>9. CASE UNCHANGED vars
  BY <1>1, <1>9 DEF vars, heapVars
<1> QED
  BY <1>2, <1>3, <1>5, <1>6, <1>7, <1>8, <1>9 DEF Next

\* As long as no generation has come round, the heap implements TimerService:
\* each timer fires at most once, in order and never early, and an id that
\* outlived its timer cancels nothing.
THEOREM HeapImplementsTimerService == Spec /\ []NoSlotWraps => ImplementsTimerService
<1>1. Init => GenInv
  BY InitGen
<1>2. HeapInv /\ HistInv /\ GenInv /\ NoSlotWraps /\ [Next]_vars => GenInv'
  BY NextGen
<1>3. Init => Service!Init
  BY ServiceInit
<1>4. HeapInv /\ HistInv /\ GenInv /\ [Next]_vars => [Service!Next]_(Service!vars)
  BY ServiceStep
<1> QED
  BY <1>1, <1>2, <1>3, <1>4, HeapInvariant, PTL DEF Spec, ImplementsTimerService, Service!Spec

\* The bound on the number of timers ever created.
FewTimers == seq <= MaxTimers \/ seq <= MaxLate

\* With fewer timers than generations no generation comes round.
LEMMA FewTimersNoWrap ==
  ASSUME MaxTimers < GenMod, MaxLate < GenMod, HistInv, FewTimers
  PROVE  NoSlotWraps
<1>1. seq \in Nat /\ DOMAIN ids = 1..seq /\ seq < GenMod /\ GenMod \in Nat
  BY LenProperties, BoundAssumption DEF HistInv, FewTimers
<1>2. IsFiniteSet(1..seq) /\ Cardinality(1..seq) = seq
  BY <1>1, SegmentCard
<1>3. ASSUME NEW s PROVE Cardinality(Uses(s)) < GenMod
  <2>1. Uses(s) \in SUBSET (1..seq)
    BY <1>1 DEF Uses
  <2>2. IsFiniteSet(Uses(s)) /\ Cardinality(Uses(s)) <= seq
    BY <1>2, <2>1, FS_Subset
  <2>3. Cardinality(Uses(s)) \in Nat
    BY <2>2, FS_CardinalityType
  <2> QED
    BY <1>1, <2>2, <2>3
<1> QED
  BY <1>3 DEF NoSlotWraps

\* Timers are created up to the bounds only.
LEMMA FewTimersInvariant == Spec => []FewTimers
<1>1. Init => FewTimers
  BY BoundAssumption DEF Init, FewTimers
<1>2. HistInv /\ FewTimers /\ [Next]_vars => FewTimers'
  <2> SUFFICES ASSUME HistInv, FewTimers, [Next]_vars PROVE FewTimers'
    OBVIOUS
  <2>1. seq \in Nat /\ MaxTimers \in Nat /\ MaxLate \in Nat
    BY LenProperties, BoundAssumption DEF HistInv
  <2>2. ASSUME NEW d \in Delay, dyn_timer_add(d) PROVE FewTimers'
    <3>1. (seq < IF clock = 0 THEN MaxTimers ELSE MaxLate) /\ seq' = seq + 1
      BY <2>2 DEF dyn_timer_add
    <3> QED
      BY <2>1, <3>1 DEF FewTimers
  <2>3. ASSUME seq' = seq PROVE FewTimers'
    BY <2>3 DEF FewTimers
  <2> QED
    BY <2>2, <2>3 DEF Next, dyn_timer_cancel, RunBegin, RunNext, Pop, RunEnd, Tick, heapVars, vars
<1> QED
  BY <1>1, <1>2, HeapInvariant, PTL DEF Spec

\* ImplementsTimerService without a hypothesis on the run, where the timers
\* ever created are fewer than the generations.
THEOREM FewTimersImplement ==
  ASSUME MaxTimers < GenMod, MaxLate < GenMod
  PROVE  Spec => ImplementsTimerService
<1>1. HistInv /\ FewTimers => NoSlotWraps
  BY FewTimersNoWrap
<1> QED
  BY <1>1, HeapInvariant, FewTimersInvariant, HeapImplementsTimerService, PTL
=============================================================================
