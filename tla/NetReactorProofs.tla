-------------------------- MODULE NetReactorProofs --------------------------
(***************************************************************************)
(* The life of the shared reactor of module NetReactor, for any number of  *)
(* users, hooks, listeners and drains inside drains.                       *)
(***************************************************************************)
EXTENDS NetReactor, FiniteSetTheorems, TLAPS

\* What the proofs need of the types.
LifeTypes ==
    /\ held \in SUBSET User
    /\ net_aio \in BOOLEAN /\ net_release_deferred \in BOOLEAN /\ io_reactor_weak \in BOOLEAN
    /\ net_weak_holds \in Nat
    /\ drains \in Seq(Nat)

\* The count of references is exact.
RefsExact == net_aio_refs = Cardinality(held)

\* A reactor that nobody holds any more is marked for the drain that frees it.
UnheldIsMarked == net_aio /\ held = {} /\ net_weak_holds = 0 => net_release_deferred

\* The loop waits for a reactor that a user holds, and for none that only the
\* idle pool holds.
WeakExact ==
    /\ held # {} => ~io_reactor_weak
    /\ held = {} /\ net_weak_holds > 0 => io_reactor_weak

LifeInv == LifeTypes /\ RefsExact /\ AliveIffNeeded /\ UnheldIsMarked /\ WeakExact

lifeVars == <<net_aio, net_aio_refs, net_weak_holds, net_release_deferred, io_reactor_weak, drains, held>>

-----------------------------------------------------------------------------
\* References to the reactor are as many as its holders: none, when there is
\* none, and one more or less with each that comes or goes.
LEMMA HolderCount ==
    ASSUME NEW H \in SUBSET User
    PROVE  /\ Cardinality(H) \in Nat /\ (Cardinality(H) = 0 <=> H = {})
           /\ \A u \in User \ H : Cardinality(H \cup {u}) = Cardinality(H) + 1
           /\ \A u \in H : Cardinality(H \ {u}) = Cardinality(H) - 1
<1>1. IsFiniteSet(H)
  BY NetAssumption, FS_Subset
<1>2. Cardinality(H) \in Nat /\ (Cardinality(H) = 0 <=> H = {})
  BY <1>1, FS_CardinalityType, FS_EmptySet
<1>3. ASSUME NEW u \in User \ H PROVE Cardinality(H \cup {u}) = Cardinality(H) + 1
  BY <1>1, FS_AddElement
<1>4. ASSUME NEW u \in H PROVE Cardinality(H \ {u}) = Cardinality(H) - 1
  BY <1>1, FS_RemoveElement
<1> QED
  BY <1>2, <1>3, <1>4

\* A sequence with an element appended is one, and is not empty.
LEMMA AppendIsSeq ==
    ASSUME NEW S, NEW s \in Seq(S), NEW e \in S
    PROVE  /\ Append(s, e) \in Seq(S) /\ Len(Append(s, e)) = Len(s) + 1
           /\ Append(s, e) # <<>>
           /\ \A k \in DOMAIN Append(s, e) : k \in DOMAIN s \/ k = Len(s) + 1
  OBVIOUS

\* No holder, no hold and no drain have the types of holders, holds and drains.
LEMMA EmptyTypes == {} \in SUBSET User /\ FALSE \in BOOLEAN /\ 0 \in Nat /\ <<>> \in Seq(Nat)
<1>1. <<>> \in Seq(Nat)
  OBVIOUS
<1> QED
  BY <1>1

\* A drain that begins, goes on or ends leaves a sequence of drains.
LEMMA DrainSeqs ==
    ASSUME drains \in Seq(Nat)
    PROVE  /\ Append(drains, 0) \in Seq(Nat) /\ Append(drains, 0) # <<>>
           /\ drains # <<>> => /\ Outer \in Seq(Nat)
                               /\ Append(Outer, HookStep) \in Seq(Nat)
                               /\ Append(Outer, HookStep) # <<>>
           /\ net_draining > 0 <=> drains # <<>>
<1>1. Append(drains, 0) \in Seq(Nat) /\ Append(drains, 0) # <<>>
  BY AppendIsSeq
<1>2. ASSUME drains # <<>> PROVE Outer \in Seq(Nat) /\ At \in Nat
  BY <1>2 DEF Outer, At, net_draining
<1>3. ASSUME drains # <<>> PROVE HookStep \in Nat
  BY <1>2, <1>3 DEF HookStep
<1>4. ASSUME drains # <<>> PROVE Append(Outer, HookStep) \in Seq(Nat) /\ Append(Outer, HookStep) # <<>>
  BY <1>2, <1>3, <1>4, AppendIsSeq
<1>5. net_draining > 0 <=> drains # <<>>
  BY DEF net_draining
<1> QED
  BY <1>1, <1>2, <1>4, <1>5

-----------------------------------------------------------------------------
\* Once nobody holds the reactor any more it is freed, or marked for the drain
\* under way to free.
LEMMA LastGoesKeeps ==
    ASSUME LifeInv, net_aio, LastGoes, held' = {}, drains' = drains
    PROVE  LifeInv'
<1>1. Cardinality({}) = 0
  BY FS_EmptySet
<1>2. CASE Deferred
  BY <1>1, <1>2, DrainSeqs DEF LifeInv, LifeTypes, RefsExact, AliveIffNeeded, UnheldIsMarked, WeakExact, LastGoes, Deferred
<1>3. CASE ~Deferred
  <2>1. drains = <<>> /\ drains' = <<>>
    BY <1>3, DrainSeqs DEF LifeInv, LifeTypes, Deferred
  <2>2. /\ net_aio' = FALSE /\ net_aio_refs' = 0 /\ net_release_deferred' = FALSE
        /\ net_weak_holds' = 0 /\ io_reactor_weak' = FALSE
    BY <1>3 DEF LastGoes, net_reactor_free
  <2>3. LifeTypes'
    BY <2>1, <2>2 DEF LifeInv, LifeTypes
  <2>4. RefsExact' /\ AliveIffNeeded' /\ UnheldIsMarked' /\ WeakExact'
    BY <1>1, <2>1, <2>2 DEF RefsExact, AliveIffNeeded, UnheldIsMarked, WeakExact
  <2> QED
    BY <2>3, <2>4 DEF LifeInv
<1> QED
  BY <1>2, <1>3

\* What touches neither the references nor the drains keeps the invariant.
LEMMA LifeUntouched ==
    ASSUME LifeInv, UNCHANGED lifeVars
    PROVE  LifeInv'
  BY DEF LifeInv, LifeTypes, RefsExact, AliveIffNeeded, UnheldIsMarked, WeakExact, lifeVars

\* A user that comes.
LEMMA AcquireKeeps ==
    ASSUME LifeInv, NEW u \in User, dyn_net_reactor_acquire(u)
    PROVE  LifeInv'
<1>1. Cardinality(held \cup {u}) = Cardinality(held) + 1 /\ held \cup {u} \in SUBSET User /\ held \cup {u} # {}
  BY HolderCount DEF LifeInv, LifeTypes, dyn_net_reactor_acquire
<1> QED
  BY <1>1 DEF LifeInv, LifeTypes, RefsExact, AliveIffNeeded, UnheldIsMarked, WeakExact, dyn_net_reactor_acquire

\* A user that goes: others stay, the idle pool stays, or nobody does.
LEMMA ReleaseKeeps ==
    ASSUME LifeInv, NEW u \in User, dyn_net_reactor_release(u)
    PROVE  LifeInv'
<1>1. /\ Cardinality(held \ {u}) = Cardinality(held) - 1 /\ held \ {u} \in SUBSET User
      /\ Cardinality(held) \in Nat /\ u \in held
      /\ Cardinality(held) = 1 <=> held \ {u} = {}
  <2>1. u \in held /\ held \in SUBSET User /\ held \ {u} \in SUBSET User
    BY DEF LifeInv, LifeTypes, dyn_net_reactor_release
  <2>2. Cardinality(held \ {u}) = Cardinality(held) - 1 /\ Cardinality(held) \in Nat
    BY <2>1, HolderCount
  <2>3. Cardinality(held \ {u}) \in Nat /\ (Cardinality(held \ {u}) = 0 <=> held \ {u} = {})
    BY <2>1, HolderCount
  <2> QED
    BY <2>1, <2>2, <2>3
<1>2. net_aio /\ net_aio_refs = Cardinality(held) /\ net_aio_refs > 0
  <2>1. Cardinality(held) # 0
    BY <1>1, HolderCount DEF LifeInv, LifeTypes
  <2> QED
    BY <1>1, <2>1 DEF LifeInv, RefsExact, AliveIffNeeded
<1>3. CASE net_aio_refs > 1
  <2>1. /\ held' = held \ {u} /\ net_aio_refs' = net_aio_refs - 1 /\ net_aio' = net_aio
        /\ net_weak_holds' = net_weak_holds /\ net_release_deferred' = net_release_deferred
        /\ io_reactor_weak' = io_reactor_weak /\ drains' = drains
    <3>1. ~(net_aio_refs <= 1)
      BY <1>1, <1>2, <1>3
    <3> QED
      BY <3>1, Zenon DEF dyn_net_reactor_release
  <2>2. held' # {} /\ RefsExact'
    BY <1>1, <1>2, <1>3, <2>1 DEF RefsExact
  <2>3. LifeTypes'
    BY <1>1, <2>1 DEF LifeInv, LifeTypes
  <2>4. AliveIffNeeded' /\ UnheldIsMarked' /\ WeakExact'
    BY <1>1, <1>2, <2>1, <2>2 DEF LifeInv, AliveIffNeeded, UnheldIsMarked, WeakExact
  <2> QED
    BY <2>2, <2>3, <2>4 DEF LifeInv
<1>4. CASE net_aio_refs <= 1 /\ net_weak_holds > 0
  <2>1. /\ held' = held \ {u} /\ net_aio_refs' = 0 /\ net_aio' = net_aio
        /\ net_weak_holds' = net_weak_holds /\ net_release_deferred' = net_release_deferred
        /\ io_reactor_weak' = TRUE /\ drains' = drains
    <3>1. ~(net_aio_refs > 1) /\ net_weak_holds # 0
      BY <1>1, <1>2, <1>4
    <3> QED
      BY <3>1, Zenon DEF dyn_net_reactor_release, LoopWeak
  <2>2. held' = {} /\ RefsExact'
    BY <1>1, <1>2, <1>4, <2>1 DEF RefsExact
  <2>3. LifeTypes'
    BY <1>1, <2>1 DEF LifeInv, LifeTypes
  <2>4. AliveIffNeeded' /\ UnheldIsMarked' /\ WeakExact'
    BY <1>2, <1>4, <2>1, <2>2 DEF LifeInv, LifeTypes, AliveIffNeeded, UnheldIsMarked, WeakExact
  <2> QED
    BY <2>2, <2>3, <2>4 DEF LifeInv
<1>5. CASE net_aio_refs <= 1 /\ net_weak_holds = 0
  <2>1. LastGoes /\ held' = {} /\ drains' = drains
    <3>1. ~(net_aio_refs > 1) /\ ~(net_weak_holds > 0) /\ held \ {u} = {}
      BY <1>1, <1>2, <1>5
    <3> QED
      BY <3>1, Zenon DEF dyn_net_reactor_release
  <2> QED
    BY <1>2, <2>1, LastGoesKeeps
<1> QED
  BY <1>3, <1>4, <1>5 DEF dyn_net_reactor_release

\* The idle pool that comes and goes.
LEMMA WeakKeeps ==
    ASSUME LifeInv, dyn_net_reactor_weak_hold \/ dyn_net_reactor_weak_drop
    PROVE  LifeInv'
<1>1. CASE dyn_net_reactor_weak_hold
  BY <1>1 DEF LifeInv, LifeTypes, RefsExact, AliveIffNeeded, UnheldIsMarked, WeakExact, dyn_net_reactor_weak_hold
<1>2. Cardinality(held) \in Nat /\ (Cardinality(held) = 0 <=> held = {}) /\ net_aio_refs = Cardinality(held)
  BY HolderCount DEF LifeInv, LifeTypes, RefsExact
<1>3. CASE dyn_net_reactor_weak_drop /\ net_aio_refs > 0
  BY <1>2, <1>3 DEF LifeInv, LifeTypes, RefsExact, AliveIffNeeded, UnheldIsMarked, WeakExact, dyn_net_reactor_weak_drop
<1>4. CASE dyn_net_reactor_weak_drop /\ ~(net_aio_refs > 0)
  <2>1. LastGoes /\ held' = {} /\ drains' = drains /\ net_aio
    BY <1>2, <1>4 DEF dyn_net_reactor_weak_drop, LifeInv, AliveIffNeeded
  <2> QED
    BY <2>1, LastGoesKeeps
<1> QED
  BY <1>1, <1>3, <1>4

\* A drain begins, runs a hook or ends; the outermost frees a reactor that was
\* released under it, and none that was taken again since.
LEMMA DrainKeeps ==
    ASSUME LifeInv, (\E fired \in Fired : DrainStarts(fired)) \/ RunsHook \/ DrainEnds
    PROVE  LifeInv'
<1> USE DEF LifeInv, LifeTypes, RefsExact, AliveIffNeeded, UnheldIsMarked, WeakExact, refVars
<1>1. CASE \E fired \in Fired : DrainStarts(fired)
  BY <1>1, DrainSeqs DEF DrainStarts
<1>2. CASE RunsHook
  BY <1>2, DrainSeqs DEF RunsHook
<1>3. Cardinality(held) \in Nat /\ (Cardinality(held) = 0 <=> held = {}) /\ net_aio_refs = Cardinality(held)
  BY HolderCount
<1>4. CASE DrainEnds /\ Outer = <<>> /\ Released
  <2>1. held = {}
    BY <1>3, <1>4 DEF Released
  <2>2. /\ net_aio' = FALSE /\ net_aio_refs' = 0 /\ net_release_deferred' = FALSE
        /\ net_weak_holds' = 0 /\ io_reactor_weak' = FALSE /\ held' = {} /\ drains' = <<>>
    BY <1>4, <2>1 DEF DrainEnds, net_reactor_free
  <2>3. LifeTypes'
    BY <2>2, EmptyTypes
  <2>4. Cardinality(held') = 0
    BY <1>3, <2>1, <2>2
  <2>5. RefsExact' /\ AliveIffNeeded' /\ UnheldIsMarked' /\ WeakExact'
    BY <2>2, <2>4
  <2> QED
    BY <2>3, <2>5
<1>5. CASE DrainEnds /\ ~(Outer = <<>> /\ Released)
  <2>1. held = {} /\ net_weak_holds = 0 => Outer # <<>>
    BY <1>3, <1>5 DEF DrainEnds, Released
  <2> QED
    BY <1>3, <1>5, <2>1, DrainSeqs DEF DrainEnds
<1> QED
  BY <1>1, <1>2, <1>4, <1>5

-----------------------------------------------------------------------------
\* The reactor's references, weak holds, put-off release and weak flag stay
\* consistent with its holders and drains, whatever users, hooks, listeners
\* and drains do (all of dyna-net.c).
THEOREM LifeInvHolds == Spec => []LifeInv
<1>1. Init => LifeInv
  <2>1. Cardinality({}) = 0
    BY FS_EmptySet
  <2>2. Init => LifeTypes
    BY EmptyTypes DEF Init, LifeTypes
  <2>3. Init => RefsExact /\ AliveIffNeeded /\ UnheldIsMarked /\ WeakExact
    BY <2>1 DEF Init, RefsExact, AliveIffNeeded, UnheldIsMarked, WeakExact
  <2> QED
    BY <2>2, <2>3 DEF LifeInv
<1>2. ASSUME LifeInv, [Next]_vars PROVE LifeInv'
  <2>1. CASE Users
    <3>1. ASSUME NEW u \in User, dyn_net_reactor_acquire(u) \/ dyn_net_reactor_release(u) PROVE LifeInv'
      BY <1>2, <3>1, AcquireKeeps, ReleaseKeeps
    <3>2. ASSUME NEW u \in Owner, NEW ok \in Aio!TimerResult, dyn_net_on_drain(u, ok) PROVE LifeInv'
      BY <1>2, <3>2, LifeUntouched DEF dyn_net_on_drain, lifeVars, refVars
    <3>3. ASSUME NEW u \in Owner, dyn_net_off_drain(u) PROVE LifeInv'
      BY <1>2, <3>3, LifeUntouched DEF dyn_net_off_drain, lifeVars, refVars
    <3>4. CASE dyn_net_on_drain_notick
      BY <1>2, <3>4, LifeUntouched DEF dyn_net_on_drain_notick, lifeVars, refVars
    <3>5. CASE dyn_net_reactor_weak_hold \/ dyn_net_reactor_weak_drop
      BY <1>2, <3>5, WeakKeeps
    <3> QED
      BY <2>1, <3>1, <3>2, <3>3, <3>4, <3>5 DEF Users
  <2>2. CASE Listening
    BY <1>2, <2>2, LifeUntouched DEF Listening, lifeVars, refVars
  <2>3. CASE (\E fired \in Fired : DrainStarts(fired)) \/ RunsHook \/ DrainEnds
    BY <1>2, <2>3, DrainKeeps
  <2>4. CASE UNCHANGED vars
    BY <1>2, <2>4, LifeUntouched DEF vars, lifeVars, refVars
  <2> QED
    BY <1>2, <2>1, <2>2, <2>3, <2>4 DEF Next
<1> QED
  BY <1>1, <1>2, PTL DEF Spec

\* The reactor is never freed under a drain, a user or the idle pool
\* (dyn_net_reactor_release_rt, dyn_net_reactor_weak_drop), and a release that
\* a drain puts off is carried out when the last drain ends (dyn_net_drain).
THEOREM ReactorLivesAsNeeded == Spec => []AliveIffNeeded
<1>1. LifeInv => AliveIffNeeded
  BY DEF LifeInv
<1> QED
  BY <1>1, LifeInvHolds, PTL

\* Between drains the JS loop waits for the reactor exactly as long as a user
\* holds it (js_std_set_io_reactor_weak as dyna-net.c calls it).
THEOREM LoopWaitsExactly == Spec => []LoopWaitsForUsers
<1>1. LifeInv => LoopWaitsForUsers
  BY DEF LifeInv, LifeTypes, AliveIffNeeded, WeakExact, LoopWaitsForUsers
<1> QED
  BY <1>1, LifeInvHolds, PTL

-----------------------------------------------------------------------------
(* The timer *)

Accepting == {fd \in Aio!Fd : listening[fd]}

\* What the listeners rely on: they are counted (a cancelled one may stay
\* counted), one that is not watched waits for the sweep, and the timer runs if
\* it was set for them.
ListenInv ==
    /\ Aio!TypeOK
    /\ Cardinality(Accepting) <= n_listen
    /\ timer_armed => ticking
    /\ \A fd \in Aio!Fd : listening[fd] /\ ~watched[fd] => paused[fd]

\* What the hooks rely on: the first of them, unless it is the one that needs no
\* tick, has set the timer and said so.
HookInv == net_hooks # <<>> /\ GRAVE \notin Hooks => ticking /\ hook_timer

TimerInv == net_hooks \in Seq(Owner \cup {GRAVE}) /\ ListenInv /\ HookInv

\* Listeners can be counted.
LEMMA AcceptingCount ==
    ASSUME NEW S \in SUBSET Aio!Fd
    PROVE  /\ Cardinality(S) \in Nat /\ (Cardinality(S) = 0 <=> S = {})
           /\ \A fd \in Aio!Fd \ S : Cardinality(S \cup {fd}) = Cardinality(S) + 1
           /\ \A fd \in S : Cardinality(S \ {fd}) = Cardinality(S) - 1
<1>1. IsFiniteSet(S)
  <2>1. IsFiniteSet(Aio!Fd)
    BY NetAssumption, FS_Interval DEF Aio!Fd
  <2> QED
    BY <2>1, FS_Subset
<1>2. Cardinality(S) \in Nat /\ (Cardinality(S) = 0 <=> S = {})
  BY <1>1, FS_CardinalityType, FS_EmptySet
<1>3. ASSUME NEW fd \in Aio!Fd \ S PROVE Cardinality(S \cup {fd}) = Cardinality(S) + 1
  BY <1>1, FS_AddElement
<1>4. ASSUME NEW fd \in S PROVE Cardinality(S \ {fd}) = Cardinality(S) - 1
  BY <1>1, FS_RemoveElement
<1> QED
  BY <1>2, <1>3, <1>4

\* A step that neither listens nor stops listening.
LEMMA ListenSame ==
    ASSUME ListenInv, Aio!TypeOK', listening' = listening, n_listen' = n_listen, timer_armed' => ticking',
           \A fd \in Aio!Fd : listening[fd] /\ ~watched'[fd] => paused'[fd]
    PROVE  ListenInv'
<1>1. Accepting' = Accepting
  BY DEF Accepting
<1> QED
  BY <1>1 DEF ListenInv

\* dyn_aio_accept counts the listener it watches.
LEMMA ListenAccept ==
    ASSUME ListenInv, NEW fd \in Aio!Fd, NEW ok \in BOOLEAN, NEW added \in BOOLEAN, Aio!dyn_aio_accept(fd, ok, added)
    PROVE  ListenInv' /\ (ticking => ticking') /\ hook_timer' = hook_timer
<1>1. /\ (ticking => ticking') /\ hook_timer' = hook_timer /\ (timer_armed' => ticking')
      /\ ticking' \in BOOLEAN /\ timer_armed' \in BOOLEAN /\ paused' = paused /\ sweep' = sweep
      /\ ~listening[fd] /\ n_listen < MaxListen
  BY DEF ListenInv, Aio!TypeOK, Aio!dyn_aio_accept, Aio!Arms
<1>2. CASE added
  <2>1. /\ listening' = [listening EXCEPT ![fd] = TRUE] /\ watched' = [watched EXCEPT ![fd] = TRUE]
        /\ n_listen' = n_listen + 1
    BY <1>2 DEF Aio!dyn_aio_accept
  <2>2. Accepting' = Accepting \cup {fd} /\ fd \notin Accepting
    BY <1>1, <2>1 DEF Accepting, ListenInv, Aio!TypeOK
  <2>3. Cardinality(Accepting') = Cardinality(Accepting) + 1 /\ Cardinality(Accepting) \in Nat
    BY <2>2, AcceptingCount DEF Accepting
  <2>4. n_listen' \in 0..MaxListen /\ Cardinality(Accepting') <= n_listen'
    BY <1>1, <2>1, <2>3, NetAssumption DEF ListenInv, Aio!TypeOK
  <2>5. Aio!TypeOK'
    BY <1>1, <2>1, <2>4 DEF ListenInv, Aio!TypeOK
  <2>6. \A x \in Aio!Fd : listening'[x] /\ ~watched'[x] => paused'[x]
    BY <1>1, <2>1 DEF ListenInv, Aio!TypeOK
  <2> QED
    BY <1>1, <2>4, <2>5, <2>6 DEF ListenInv
<1>3. CASE ~added
  <2>1. UNCHANGED <<listening, watched, n_listen>>
    BY <1>3 DEF Aio!dyn_aio_accept
  <2>2. Aio!TypeOK'
    BY <1>1, <2>1 DEF ListenInv, Aio!TypeOK
  <2> QED
    BY <1>1, <2>1, <2>2, ListenSame DEF ListenInv
<1> QED
  BY <1>2, <1>3

\* dyn_aio_close of the last listener stops the timer, unless the hook has it.
LEMMA ListenClose ==
    ASSUME ListenInv, NEW fd \in Aio!Fd, Aio!dyn_aio_close(fd)
    PROVE  ListenInv' /\ (ticking /\ hook_timer => ticking') /\ hook_timer' = hook_timer
<1>1. /\ (ticking /\ hook_timer => ticking') /\ hook_timer' = hook_timer /\ (timer_armed' => ticking')
      /\ ticking' \in BOOLEAN /\ timer_armed' \in BOOLEAN /\ sweep' = sweep
      /\ listening[fd] /\ n_listen' = n_listen - 1
      /\ listening' = [listening EXCEPT ![fd] = FALSE] /\ watched' = [watched EXCEPT ![fd] = FALSE]
      /\ paused' = [paused EXCEPT ![fd] = FALSE]
  BY DEF ListenInv, Aio!TypeOK, Aio!dyn_aio_close, Aio!Disarms
<1>2. Accepting' = Accepting \ {fd} /\ fd \in Accepting
  BY <1>1 DEF Accepting, ListenInv, Aio!TypeOK
<1>3. Cardinality(Accepting') = Cardinality(Accepting) - 1 /\ Cardinality(Accepting) \in Nat /\ Cardinality(Accepting) # 0
  BY <1>2, AcceptingCount DEF Accepting
<1>4. n_listen' \in 0..MaxListen /\ Cardinality(Accepting') <= n_listen'
  BY <1>1, <1>3, NetAssumption DEF ListenInv, Aio!TypeOK
<1>5. Aio!TypeOK'
  BY <1>1, <1>4 DEF ListenInv, Aio!TypeOK
<1>6. \A x \in Aio!Fd : listening'[x] /\ ~watched'[x] => paused'[x]
  BY <1>1 DEF ListenInv, Aio!TypeOK
<1> QED
  BY <1>1, <1>4, <1>5, <1>6 DEF ListenInv

\* dyn_aio_cancel forgets a listener that stays counted; it is closed later.
LEMMA ListenCancel ==
    ASSUME ListenInv, NEW fd \in Aio!Fd, Aio!dyn_aio_cancel(fd) \/ Aio!CloseCancelled(fd)
    PROVE  ListenInv' /\ UNCHANGED <<ticking, hook_timer>>
<1>1. UNCHANGED <<ticking, hook_timer, timer_armed, n_listen, sweep>>
  BY DEF Aio!dyn_aio_cancel, Aio!CloseCancelled
<1>2. CASE Aio!dyn_aio_cancel(fd)
  <2>1. /\ listening[fd] /\ paused' = paused
        /\ listening' = [listening EXCEPT ![fd] = FALSE] /\ watched' = [watched EXCEPT ![fd] = FALSE]
    BY <1>2 DEF Aio!dyn_aio_cancel
  <2>2. Accepting' = Accepting \ {fd} /\ fd \in Accepting
    BY <2>1 DEF Accepting, ListenInv, Aio!TypeOK
  <2>3. Cardinality(Accepting') = Cardinality(Accepting) - 1 /\ Cardinality(Accepting) \in Nat
    BY <2>2, AcceptingCount DEF Accepting
  <2>4. Cardinality(Accepting') <= n_listen'
    BY <1>1, <2>3, NetAssumption DEF ListenInv, Aio!TypeOK
  <2>5. Aio!TypeOK'
    BY <1>1, <2>1 DEF ListenInv, Aio!TypeOK
  <2>6. \A x \in Aio!Fd : listening'[x] /\ ~watched'[x] => paused'[x]
    BY <2>1 DEF ListenInv, Aio!TypeOK
  <2> QED
    BY <1>1, <2>4, <2>5, <2>6 DEF ListenInv
<1>3. CASE Aio!CloseCancelled(fd)
  <2>1. ~listening[fd] /\ paused' = [paused EXCEPT ![fd] = FALSE] /\ UNCHANGED <<listening, watched>>
    BY <1>3 DEF Aio!CloseCancelled
  <2>2. Aio!TypeOK'
    BY <1>1, <2>1 DEF ListenInv, Aio!TypeOK
  <2>3. \A x \in Aio!Fd : listening[x] /\ ~watched'[x] => paused'[x]
    BY <2>1 DEF ListenInv, Aio!TypeOK
  <2> QED
    BY <1>1, <2>1, <2>2, <2>3, ListenSame DEF ListenInv
<1> QED
  BY <1>1, <1>2, <1>3

\* A listener is paused, and the sweep takes it up again.
LEMMA ListenSweep ==
    ASSUME ListenInv, (\E fd \in Aio!Fd : Aio!DispatchAccept(fd)) \/ Aio!SweepStarts \/ Aio!Sweep
    PROVE  ListenInv' /\ UNCHANGED <<ticking, hook_timer>>
<1>1. UNCHANGED <<listening, n_listen, timer_armed, hook_timer, ticking>>
  BY DEF Aio!DispatchAccept, Aio!SweepStarts, Aio!Sweep, Aio!SweepRetries, Aio!SweepSkips
<1>2. ASSUME NEW fd \in Aio!Fd, Aio!DispatchAccept(fd) PROVE ListenInv'
  <2>1. /\ paused' = [paused EXCEPT ![fd] = TRUE] /\ watched' = [watched EXCEPT ![fd] = FALSE] /\ sweep' = sweep
    BY <1>2 DEF Aio!DispatchAccept, Aio!Exhausted
  <2>2. Aio!TypeOK'
    BY <1>1, <2>1 DEF ListenInv, Aio!TypeOK
  <2>3. \A x \in Aio!Fd : listening[x] /\ ~watched'[x] => paused'[x]
    BY <2>1 DEF ListenInv, Aio!TypeOK
  <2> QED
    BY <1>1, <2>2, <2>3, ListenSame DEF ListenInv
<1>3. CASE Aio!SweepStarts \/ Aio!SweepSkips
  <2>1. sweep' \in 0..NFd /\ UNCHANGED <<paused, watched>>
    BY <1>3, NetAssumption DEF Aio!SweepStarts, Aio!SweepSkips, Aio!SweepNext, ListenInv, Aio!TypeOK
  <2>2. Aio!TypeOK'
    BY <1>1, <2>1 DEF ListenInv, Aio!TypeOK
  <2> QED
    BY <1>1, <2>1, <2>2, ListenSame DEF ListenInv
<1>4. CASE Aio!SweepRetries
  <2>1. /\ sweep \in Aio!Fd /\ sweep' \in 0..NFd
        /\ paused' = [paused EXCEPT ![sweep] = FALSE] /\ watched' = [watched EXCEPT ![sweep] = TRUE]
    BY <1>4, NetAssumption DEF Aio!SweepRetries, Aio!SweepNext, ListenInv, Aio!TypeOK, Aio!Fd
  <2>2. Aio!TypeOK'
    BY <1>1, <2>1 DEF ListenInv, Aio!TypeOK
  <2>3. \A x \in Aio!Fd : listening[x] /\ ~watched'[x] => paused'[x]
    BY <2>1 DEF ListenInv, Aio!TypeOK
  <2> QED
    BY <1>1, <2>2, <2>3, ListenSame DEF ListenInv
<1> QED
  BY <1>1, <1>2, <1>3, <1>4 DEF Aio!Sweep

\* Nothing of the reactor below moves.
LEMMA ListenUntouched ==
    ASSUME ListenInv, UNCHANGED aioVars
    PROVE  ListenInv' /\ UNCHANGED <<ticking, hook_timer>>
  BY DEF ListenInv, Aio!TypeOK, aioVars, Accepting

\* A reactor that is freed has no hook, no listener and no timer.
LEMMA TimerFreed ==
    ASSUME net_reactor_free
    PROVE  TimerInv'
<1>1. ListenInv'
  <2>1. Accepting' = {}
    BY DEF Accepting, net_reactor_free, AioGone
  <2>2. Cardinality(Accepting') = 0
    BY <2>1, FS_EmptySet
  <2>3. Aio!TypeOK'
    <3>1. 0 \in 0..MaxListen /\ 0 \in 0..NFd /\ [fd \in Aio!Fd |-> FALSE] \in [Aio!Fd -> BOOLEAN]
      BY NetAssumption
    <3> QED
      BY <3>1 DEF net_reactor_free, AioGone, Aio!TypeOK
  <2> QED
    BY <2>2, <2>3 DEF ListenInv, net_reactor_free, AioGone
<1>2. net_hooks' = <<>>
  BY DEF net_reactor_free
<1> QED
  BY <1>1, <1>2 DEF TimerInv, HookInv

\* A step on the timer that keeps it for the hooks, which stay.
LEMMA TimerKeeps ==
    ASSUME TimerInv, ListenInv', net_hooks' = net_hooks, hook_timer' = hook_timer,
           ticking /\ hook_timer => ticking'
    PROVE  TimerInv'
  BY DEF TimerInv, HookInv, Hooks

\* dyn_net_on_drain: the first hook sets the timer.
LEMMA TimerHook ==
    ASSUME TimerInv, NEW u \in Owner, NEW ok \in BOOLEAN, dyn_net_on_drain(u, ok)
    PROVE  TimerInv'
<1>1. net_hooks \in Seq(Owner \cup {GRAVE}) /\ ListenInv /\ u \in Owner \cup {GRAVE}
  BY DEF TimerInv
<1>2. CASE FirstHook
  <2>1. /\ hook_timer' = TRUE /\ ticking' = (ticking \/ ok)
        /\ UNCHANGED <<listening, paused, watched, n_listen, timer_armed, sweep>>
    BY <1>2 DEF dyn_net_on_drain, Aio!dyn_aio_set_timer
  <2>2. Aio!TypeOK'
    BY <1>1, <2>1 DEF ListenInv, Aio!TypeOK
  <2>3. ListenInv'
    BY <1>1, <2>1, <2>2, ListenSame DEF ListenInv
  <2>4. net_hooks = <<>> /\ (net_hooks' = <<>> \/ (ok /\ net_hooks' = Append(net_hooks, u)))
    BY <1>2 DEF FirstHook, dyn_net_on_drain
  <2>5. net_hooks' \in Seq(Owner \cup {GRAVE})
    <3>1. Append(net_hooks, u) \in Seq(Owner \cup {GRAVE})
      BY <1>1, AppendIsSeq
    <3> QED
      BY <1>1, <2>4, <3>1
  <2> QED
    BY <2>1, <2>3, <2>4, <2>5 DEF TimerInv, HookInv
<1>3. CASE ~FirstHook
  <2>1. net_hooks # <<>> /\ net_hooks' = Append(net_hooks, u) /\ UNCHANGED aioVars
    BY <1>3 DEF FirstHook, dyn_net_on_drain
  <2>2. ListenInv' /\ UNCHANGED <<ticking, hook_timer>>
    BY <1>1, <2>1, ListenUntouched
  <2>3. net_hooks' \in Seq(Owner \cup {GRAVE}) /\ Hooks \subseteq Hooks'
    BY <1>1, <2>1 DEF Hooks
  <2> QED
    BY <2>1, <2>2, <2>3 DEF TimerInv, HookInv
<1> QED
  BY <1>2, <1>3

\* dyn_net_on_drain_notick: from now on GRAVE is there.
LEMMA TimerGrave ==
    ASSUME TimerInv, dyn_net_on_drain_notick
    PROVE  TimerInv'
<1>1. /\ net_hooks \in Seq(Owner \cup {GRAVE}) /\ ListenInv /\ UNCHANGED aioVars
      /\ net_hooks' = Append(net_hooks, GRAVE)
  BY DEF TimerInv, dyn_net_on_drain_notick
<1>2. ListenInv'
  BY <1>1, ListenUntouched
<1>3. net_hooks' \in Seq(Owner \cup {GRAVE}) /\ GRAVE \in Hooks'
  BY <1>1 DEF Hooks
<1> QED
  BY <1>2, <1>3 DEF TimerInv, HookInv

\* dyn_net_off_drain: the last hook moves into the gap, and none is lost.
LEMMA TimerUnhook ==
    ASSUME TimerInv, NEW u \in Owner, dyn_net_off_drain(u)
    PROVE  TimerInv'
<1>1. /\ net_hooks \in Seq(Owner \cup {GRAVE}) /\ ListenInv /\ UNCHANGED aioVars
      /\ u \in Hooks /\ u # GRAVE /\ net_hooks' = Without(u)
  BY DEF TimerInv, dyn_net_off_drain
<1>2. ListenInv' /\ UNCHANGED <<ticking, hook_timer>>
  BY <1>1, ListenUntouched
<1> DEFINE n == Len(net_hooks)
           k == CHOOSE i \in DOMAIN net_hooks : net_hooks[i] = u
           moved == [net_hooks EXCEPT ![k] = net_hooks[n]]
<1>3. k \in 1..n /\ net_hooks[k] = u /\ n \in Nat
  BY <1>1 DEF Hooks
<1>4. net_hooks' = SubSeq(moved, 1, n - 1)
  BY <1>1 DEF Without
<1> HIDE DEF k
<1>5. moved \in Seq(Owner \cup {GRAVE}) /\ Len(moved) = n /\ n >= 1 /\ n \in DOMAIN net_hooks
  BY <1>1, <1>3
<1>6. /\ net_hooks' \in Seq(Owner \cup {GRAVE}) /\ Len(net_hooks') = n - 1
      /\ \A i \in 1..(n - 1) : net_hooks'[i] = moved[i]
  <2> HIDE DEF moved
  <2> QED
    BY <1>3, <1>4, <1>5
<1>7. \A i \in 1..(n - 1) : net_hooks'[i] = IF i = k THEN net_hooks[n] ELSE net_hooks[i]
  BY <1>1, <1>3, <1>6
<1>8. ASSUME GRAVE \in Hooks PROVE GRAVE \in Hooks'
  <2>1. PICK i \in 1..n : net_hooks[i] = GRAVE
    BY <1>1, <1>8 DEF Hooks
  <2>2. CASE i < n
    <3>1. i \in 1..(n - 1) /\ i # k /\ net_hooks'[i] = GRAVE
      BY <1>1, <1>3, <1>7, <2>1, <2>2
    <3> QED
      BY <1>3, <1>6, <3>1 DEF Hooks
  <2>3. CASE i = n
    <3>1. k \in 1..(n - 1) /\ net_hooks'[k] = GRAVE
      BY <1>1, <1>3, <1>7, <2>1, <2>3
    <3> QED
      BY <1>3, <1>6, <3>1 DEF Hooks
  <2> QED
    BY <1>3, <2>1, <2>2, <2>3
<1>9. net_hooks # <<>>
  BY <1>1, <1>5
<1> QED
  BY <1>2, <1>6, <1>8, <1>9 DEF TimerInv, HookInv

\* The last reference goes: the reactor is freed, or nothing happens to its
\* timer and hooks yet.
LEMMA TimerLastGoes ==
    ASSUME TimerInv, LastGoes
    PROVE  TimerInv'
<1>1. CASE Deferred
  <2>1. net_hooks' = net_hooks /\ UNCHANGED aioVars /\ ListenInv
    BY <1>1 DEF LastGoes, TimerInv
  <2> QED
    BY <2>1, ListenUntouched, TimerKeeps
<1>2. CASE ~Deferred
  BY <1>2, TimerFreed DEF LastGoes
<1> QED
  BY <1>1, <1>2

\* Every step of the reactor and of its users.
LEMMA TimerNext ==
    ASSUME TimerInv, [Next]_vars
    PROVE  TimerInv'
<1>1. ASSUME net_hooks' = net_hooks, UNCHANGED aioVars PROVE TimerInv'
  BY <1>1, ListenUntouched, TimerKeeps DEF TimerInv
<1>2. ASSUME NEW u \in User, dyn_net_reactor_acquire(u) \/ dyn_net_reactor_release(u) PROVE TimerInv'
  BY <1>1, <1>2, TimerLastGoes DEF dyn_net_reactor_acquire, dyn_net_reactor_release
<1>3. ASSUME NEW u \in Owner, NEW ok \in Aio!TimerResult, dyn_net_on_drain(u, ok) PROVE TimerInv'
  <2>1. ok \in BOOLEAN
    BY DEF Aio!TimerResult
  <2> QED
    BY <1>3, <2>1, TimerHook
<1>4. CASE dyn_net_reactor_weak_hold \/ dyn_net_reactor_weak_drop
  BY <1>1, <1>4, TimerLastGoes DEF dyn_net_reactor_weak_hold, dyn_net_reactor_weak_drop
<1>5. CASE Users
  BY <1>2, <1>3, <1>4, <1>5, TimerUnhook, TimerGrave DEF Users
<1>6. CASE Listening
  <2>1. net_hooks' = net_hooks /\ ListenInv /\ (Dispatch \/ Sweeps \/ Servers)
    BY <1>6 DEF Listening, TimerInv
  <2>2. CASE Dispatch \/ Sweeps
    BY <2>1, <2>2, ListenSweep, TimerKeeps DEF Dispatch, Sweeps
  <2>3. ASSUME NEW fd \in Aio!Fd, NEW ok \in Aio!TimerResult, NEW added \in Aio!AddResult, Aio!dyn_aio_accept(fd, ok, added)
        PROVE  TimerInv'
    <3>1. ok \in BOOLEAN /\ added \in BOOLEAN
      BY DEF Aio!TimerResult, Aio!AddResult
    <3> QED
      BY <2>1, <2>3, <3>1, ListenAccept, TimerKeeps
  <2>4. ASSUME NEW fd \in Aio!Fd, Aio!dyn_aio_close(fd) \/ Aio!dyn_aio_cancel(fd) \/ Aio!CloseCancelled(fd)
        PROVE  TimerInv'
    BY <2>1, <2>4, ListenClose, ListenCancel, TimerKeeps
  <2> QED
    BY <2>1, <2>2, <2>3, <2>4 DEF Servers, Aio!Listeners
<1>7. ASSUME NEW fired \in Fired, DrainStarts(fired) PROVE TimerInv'
  <2>1. net_hooks' = net_hooks /\ ListenInv /\ (Aio!SweepStarts \/ UNCHANGED aioVars)
    BY <1>7 DEF DrainStarts, TimerInv
  <2> QED
    BY <1>1, <2>1, ListenSweep, TimerKeeps
<1>8. CASE RunsHook
  BY <1>1, <1>8 DEF RunsHook
<1>9. CASE DrainEnds
  BY <1>1, <1>9, TimerFreed DEF DrainEnds
<1>10. CASE UNCHANGED vars
  BY <1>1, <1>10 DEF vars, aioVars
<1> QED
  BY <1>5, <1>6, <1>7, <1>8, <1>9, <1>10 DEF Next

\* The one timer of the reactor serves hooks and listeners alike: whatever
\* listeners come, go and pause, and whatever hooks are set and taken away, in
\* drains and outside, a deadline that is hooked has its tick, and a paused
\* listener is counted and has the timer that retries it (dyn_net_on_drain,
\* dyn_aio_set_timer, dyn_aio_accept, dyn_aio_close).
THEOREM OneTimerServesBoth == Spec => []TimerServesBoth
<1>1. Init => TimerInv
  <2> SUFFICES ASSUME Init PROVE TimerInv
    OBVIOUS
  <2>1. Accepting = {}
    BY DEF Accepting, Init, Aio!Init
  <2>2. Cardinality(Accepting) = 0
    BY <2>1, FS_EmptySet
  <2>3. Aio!TypeOK
    <3>1. 0 \in 0..MaxListen /\ 0 \in 0..NFd /\ [fd \in Aio!Fd |-> FALSE] \in [Aio!Fd -> BOOLEAN]
      BY NetAssumption
    <3> QED
      BY <3>1 DEF Init, Aio!Init, Aio!TypeOK
  <2>4. net_hooks \in Seq(Owner \cup {GRAVE})
    BY DEF Init
  <2> QED
    BY <2>2, <2>3, <2>4 DEF Init, Aio!Init, TimerInv, ListenInv, HookInv
<1>2. TimerInv /\ [Next]_vars => TimerInv'
  BY TimerNext
<1>3. TimerInv => TimerServesBoth
  <2> SUFFICES ASSUME TimerInv PROVE TimerServesBoth
    OBVIOUS
  <2>1. HookTicksWithoutGrave
    BY DEF TimerInv, HookInv, HookTicksWithoutGrave, HookTicks, Hooks
  <2>2. ASSUME NEW fd \in Aio!Fd, listening[fd] PROVE n_listen > 0
    <3>1. Cardinality(Accepting) # 0 /\ Cardinality(Accepting) \in Nat
      BY <2>2, AcceptingCount DEF Accepting
    <3> QED
      BY <3>1, NetAssumption DEF TimerInv, ListenInv, Aio!TypeOK
  <2> QED
    BY <2>1, <2>2 DEF TimerServesBoth, Aio!PausedHasTimer, TimerInv, ListenInv
<1> QED
  BY <1>1, <1>2, <1>3, PTL DEF Spec

=============================================================================
