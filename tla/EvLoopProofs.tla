---------------------------- MODULE EvLoopProofs ----------------------------
(***************************************************************************)
(* EvInv is an invariant of EvLoop, for every set of descriptors and every *)
(* number of files and generations.                                        *)
(***************************************************************************)
EXTENDS EvLoop, FiniteSetTheorems, FunctionTheorems, TLAPS

Live == {fd \in Fd : regs[fd].interest # {}}

\* The descriptors are finitely many, so registrations can be counted.
LEMMA LiveFinite == IsFiniteSet(Live) /\ Cardinality(Live) \in Nat
<1>1. Live \subseteq Fd
  BY DEF Live
<1> QED
  BY <1>1, FdAssumption, FS_Subset, FS_CardinalityType

\* The loop starts in a state of the invariant.
LEMMA EvInvInit == Init => EvInv
<1> SUFFICES ASSUME Init PROVE EvInv
  OBVIOUS
<1> USE BoundAssumption, FdAssumption DEF Init, NoFile, Interest
<1>1. TypeOK
  <2>1. regs \in [Fd -> Reg]
    BY DEF Reg
  <2>2. ready \in [Fd -> Interest] /\ file \in [Fd -> 0..MaxOpen] /\ batch \in Seq(Event)
    OBVIOUS
  <2>3. kern \in [Fd -> [tag : Nat, mask : Interest] \cup {NULL}] /\ opened \in 0..MaxOpen
    OBVIOUS
  <2>4. running \in [event : Event, owner : 0..MaxOpen] \cup {NULL}
    OBVIOUS
  <2>5. nreg \in Nat /\ timer_fd \in Fd \cup {NULL} /\ timer_fired \in BOOLEAN
    OBVIOUS
  <2> QED
    BY <2>1, <2>2, <2>3, <2>4, <2>5, Zenon DEF TypeOK
<1>2. KernelAgrees
  BY DEF KernelAgrees
<1>3. CountExact
  <2>1. {fd \in Fd : regs[fd].interest # {}} = {}
    OBVIOUS
  <2> QED
    BY <2>1, FS_EmptySet DEF CountExact
<1>4. OwnersAgree /\ BatchAges /\ NoStaleDelivery
  BY DEF OwnersAgree, BatchAges, NoStaleDelivery
<1> QED
  BY <1>1, <1>2, <1>3, <1>4 DEF EvInv

\* A step that leaves the registrations, the batch and the callback alone and
\* touches only descriptors nobody has registered.
LEMMA EvInvWorld ==
  ASSUME EvInv, TypeOK', UNCHANGED <<regs, nreg, batch, running>>,
         \A fd \in Fd : kern'[fd] = kern[fd] \/ (regs[fd].interest = {} /\ kern'[fd] = NULL),
         \A fd \in Fd : file'[fd] = file[fd] \/ regs[fd].interest = {}
  PROVE  EvInv'
<1>1. KernelAgrees'
  BY DEF EvInv, KernelAgrees
<1>2. CountExact'
  BY DEF EvInv, CountExact
<1>3. OwnersAgree'
  BY DEF EvInv, OwnersAgree
<1>4. BatchAges' /\ NoStaleDelivery'
  BY DEF EvInv, BatchAges, NoStaleDelivery
<1> QED
  BY <1>1, <1>2, <1>3, <1>4 DEF EvInv

\* A call the kernel accepts: table, count and generation move together.
LEMMA EvInvAccepted ==
  ASSUME EvInv, NEW fd \in Fd, NEW neu \in Interest, NEW r \in Reg,
         r.interest = regs[fd].interest, r.gen = regs[fd].gen,
         neu # {} => r.cb = file[fd] /\ file[fd] # NoFile,
         Accepted(fd, r, neu),
         UNCHANGED <<timer_fd, timer_fired, batch, running, file, opened, ready>>
  PROVE  EvInv'
<1> DEFINE g == Bump(r.gen, r.interest, neu)
<1>0. r.gen \in Nat /\ g \in Nat /\ g >= r.gen
  BY DEF Reg, Bump
<1>1. /\ regs' = [regs EXCEPT ![fd] = [r EXCEPT !.interest = neu, !.gen = g]]
      /\ kern' = [kern EXCEPT ![fd] = IF neu = {} THEN NULL ELSE [tag |-> g, mask |-> neu]]
      /\ Counted(r.interest, neu)
  BY DEF Accepted, Applied
<1>2. /\ [r EXCEPT !.interest = neu, !.gen = g] \in Reg
      /\ regs \in [Fd -> Reg]
      /\ kern \in [Fd -> [tag : Nat, mask : Interest] \cup {NULL}]
  BY <1>0 DEF Reg, EvInv, TypeOK
<1>3. /\ regs'[fd].interest = neu /\ regs'[fd].gen = g /\ regs'[fd].cb = r.cb
      /\ \A x \in Fd \ {fd} : regs'[x] = regs[x]
  BY <1>1, <1>2 DEF Reg
<1>4. neu # {} /\ r.interest = {} => g = r.gen + 1
  BY <1>0 DEF Bump, Toggles
<1>5. neu # {} /\ r.interest # {} => g = r.gen
  BY DEF Bump, Toggles
<1> HIDE DEF g
<1>6. CountExact' /\ nreg' \in Nat
  <2> DEFINE L == {x \in Fd : regs[x].interest # {}}
             M == {x \in Fd : regs'[x].interest # {}}
  <2>1. nreg = Cardinality(L) /\ IsFiniteSet(L) /\ nreg \in Nat
    BY LiveFinite DEF Live, EvInv, CountExact
  <2>2. CASE r.interest = {} /\ neu # {}
    <3>1. M = L \cup {fd} /\ fd \notin L
      BY <1>3, <2>2
    <3>2. nreg' = nreg + 1
      BY <1>1, <2>2 DEF Counted
    <3>3. Cardinality(M) = Cardinality(L) + 1
      BY <2>1, <3>1, FS_AddElement
    <3> QED
      BY <2>1, <3>2, <3>3 DEF CountExact
  <2>3. CASE r.interest # {} /\ neu = {}
    <3>1. M = L \ {fd} /\ fd \in L
      BY <1>3, <2>3
    <3>2. nreg' = nreg - 1
      BY <1>1, <2>3 DEF Counted
    <3>3. Cardinality(M) = Cardinality(L) - 1 /\ IsFiniteSet(M)
      BY <2>1, <3>1, FS_RemoveElement
    <3>4. Cardinality(M) \in Nat
      BY <3>3, FS_CardinalityType
    <3> QED
      BY <2>1, <3>2, <3>3, <3>4 DEF CountExact
  <2>4. CASE (r.interest = {}) = (neu = {})
    <3>1. M = L
      BY <1>3, <2>4
    <3>2. nreg' = nreg
      BY <1>1, <2>4 DEF Counted
    <3> QED
      BY <2>1, <3>1, <3>2 DEF CountExact
  <2> QED
    BY <2>2, <2>3, <2>4
<1>7. TypeOK'
  BY <1>0, <1>1, <1>2, <1>6 DEF EvInv, TypeOK
<1>8. KernelAgrees'
  BY <1>1, <1>2, <1>3 DEF EvInv, KernelAgrees
<1>9. OwnersAgree'
  BY <1>3 DEF EvInv, OwnersAgree
<1>10. BatchAges'
  <2> SUFFICES ASSUME NEW i \in DOMAIN batch, batch[i].file # TimerFile
               PROVE  /\ batch[i].tag <= regs'[batch[i].fd].gen
                      /\ regs'[batch[i].fd].interest # {} /\ batch[i].tag = regs'[batch[i].fd].gen
                           => batch[i].file = regs'[batch[i].fd].cb
    BY DEF BatchAges
  <2>1. batch[i] \in Event
    BY DEF EvInv, TypeOK
  <2>2. batch[i].fd \in Fd /\ batch[i].tag \in Nat
    BY <2>1 DEF Event
  <2>3. /\ batch[i].tag <= regs[batch[i].fd].gen
        /\ regs[batch[i].fd].interest # {} /\ batch[i].tag = regs[batch[i].fd].gen
             => batch[i].file = regs[batch[i].fd].cb
    BY DEF EvInv, BatchAges
  <2>4. CASE batch[i].fd # fd
    BY <1>3, <2>2, <2>3, <2>4
  <2>5. CASE batch[i].fd = fd
    <3>1. regs[fd].interest # {} => regs[fd].cb = file[fd]
      BY DEF EvInv, OwnersAgree
    <3> QED
      BY <1>0, <1>3, <1>4, <1>5, <2>2, <2>3, <2>5, <3>1
  <2> QED
    BY <2>4, <2>5
<1>11. NoStaleDelivery'
  BY DEF EvInv, NoStaleDelivery
<1> QED
  BY <1>6, <1>7, <1>8, <1>9, <1>10, <1>11 DEF EvInv

\* A call the kernel refuses: the generation moves on only where the kernel
\* holds no entry.
LEMMA EvInvRefused ==
  ASSUME EvInv, NEW fd \in Fd, NEW neu \in Interest, NEW r \in Reg, neu # {},
         r.interest = regs[fd].interest, r.gen = regs[fd].gen,
         r.cb = file[fd] /\ file[fd] # NoFile,
         Refused(fd, r, neu),
         UNCHANGED <<timer_fd, timer_fired, batch, running, file, opened, ready>>
  PROVE  EvInv'
<1> DEFINE g == Bump(Bump(r.gen, r.interest, neu), r.interest, neu)
<1>0. r.gen \in Nat /\ g \in Nat /\ g >= r.gen /\ (r.interest # {} => g = r.gen)
  BY DEF Reg, Bump, Toggles
<1>1. /\ regs' = [regs EXCEPT ![fd] = [r EXCEPT !.gen = g]]
      /\ UNCHANGED <<nreg, kern>>
  BY DEF Refused
<1>2. [r EXCEPT !.gen = g] \in Reg /\ regs \in [Fd -> Reg]
  BY <1>0 DEF Reg, EvInv, TypeOK
<1>3. /\ regs'[fd].interest = regs[fd].interest /\ regs'[fd].gen = g /\ regs'[fd].cb = file[fd]
      /\ \A x \in Fd \ {fd} : regs'[x] = regs[x]
  BY <1>1, <1>2 DEF Reg
<1> HIDE DEF g
<1>4. TypeOK'
  BY <1>0, <1>1, <1>2 DEF EvInv, TypeOK
<1>5. CountExact'
  <2>1. {x \in Fd : regs'[x].interest # {}} = {x \in Fd : regs[x].interest # {}}
    BY <1>3
  <2> QED
    BY <1>1, <2>1 DEF EvInv, CountExact
<1>6. KernelAgrees'
  BY <1>0, <1>1, <1>3 DEF EvInv, KernelAgrees
<1>7. OwnersAgree'
  BY <1>3 DEF EvInv, OwnersAgree
<1>8. BatchAges'
  <2> SUFFICES ASSUME NEW i \in DOMAIN batch, batch[i].file # TimerFile
               PROVE  /\ batch[i].tag <= regs'[batch[i].fd].gen
                      /\ regs'[batch[i].fd].interest # {} /\ batch[i].tag = regs'[batch[i].fd].gen
                           => batch[i].file = regs'[batch[i].fd].cb
    BY DEF BatchAges
  <2>1. batch[i] \in Event
    BY DEF EvInv, TypeOK
  <2>2. batch[i].fd \in Fd /\ batch[i].tag \in Nat
    BY <2>1 DEF Event
  <2>3. /\ batch[i].tag <= regs[batch[i].fd].gen
        /\ regs[batch[i].fd].interest # {} /\ batch[i].tag = regs[batch[i].fd].gen
             => batch[i].file = regs[batch[i].fd].cb
    BY DEF EvInv, BatchAges
  <2>4. CASE batch[i].fd # fd
    BY <1>3, <2>2, <2>3, <2>4
  <2>5. CASE batch[i].fd = fd
    <3>1. regs[fd].interest # {} => regs[fd].cb = file[fd]
      BY DEF EvInv, OwnersAgree
    <3> QED
      BY <1>0, <1>3, <2>2, <2>3, <2>5, <3>1
  <2> QED
    BY <2>4, <2>5
<1>9. NoStaleDelivery'
  BY DEF EvInv, NoStaleDelivery
<1> QED
  BY <1>4, <1>5, <1>6, <1>7, <1>8, <1>9 DEF EvInv

\* Every registration call, accepted or refused.
LEMMA EvInvChange ==
  ASSUME EvInv, NEW fd \in Fd, NEW neu \in Interest, NEW r \in Reg,
         r.interest = regs[fd].interest, r.gen = regs[fd].gen,
         neu # {} => r.cb = file[fd] /\ file[fd] # NoFile,
         Change(fd, r, neu)
  PROVE  EvInv'
<1>1. CASE Accepted(fd, r, neu)
  BY <1>1, EvInvAccepted DEF Change
<1>2. CASE neu # {} /\ Refused(fd, r, neu)
  BY <1>2, EvInvRefused DEF Change
<1> QED
  BY <1>1, <1>2 DEF Change

\* The events of one harvest are finitely many, and each bears the
\* generation and the owner of its registration.
LEMMA HarvestFresh ==
  ASSUME EvInv
  PROVE  /\ IsFiniteSet(FileEvents) /\ FileEvents \subseteq Event
         /\ \A e \in FileEvents : regs[e.fd].gen = e.tag /\ e.file = regs[e.fd].cb
<1> DEFINE W == {f \in Fd : kern[f] # NULL /\ ready[f] \cap kern[f].mask # {}}
           Ev(f) == [fd |-> f, tag |-> kern[f].tag, file |-> file[f]]
<1>1. IsFiniteSet(W)
  BY FdAssumption, FS_Subset
<1>2. FileEvents = {Ev(f) : f \in W}
  BY DEF FileEvents
<1>3. \A f \in W : /\ Ev(f) \in Event
                   /\ regs[f].gen = kern[f].tag /\ file[f] = regs[f].cb
  <2> SUFFICES ASSUME NEW f \in W
               PROVE  Ev(f) \in Event /\ regs[f].gen = kern[f].tag /\ file[f] = regs[f].cb
    OBVIOUS
  <2>1. f \in Fd /\ kern[f] # NULL
    OBVIOUS
  <2>2. regs[f].interest # {} /\ kern[f] = [tag |-> regs[f].gen, mask |-> regs[f].interest]
    BY <2>1 DEF EvInv, KernelAgrees
  <2>3. file[f] = regs[f].cb
    BY <2>1, <2>2 DEF EvInv, OwnersAgree
  <2>4. regs[f].gen \in Nat /\ file[f] \in 0..MaxOpen
    BY <2>1 DEF EvInv, TypeOK, Reg
  <2> QED
    BY <2>1, <2>2, <2>3, <2>4, BoundAssumption DEF Event
<1>4. IsFiniteSet({Ev(f) : f \in W})
  <2> DEFINE evs == [f \in W |-> Ev(f)]
  <2>1. evs \in Surjection(W, {Ev(f) : f \in W})
    BY DEF Surjection
  <2> QED
    BY <1>1, <2>1, FS_Surjection, Zenon
<1> HIDE DEF W
<1> QED
  BY <1>2, <1>3, <1>4

\* A harvest fills an empty batch with fresh events.
LEMMA EvInvPoll ==
  ASSUME EvInv, NEW timer \in SUBSET TimerEvents, IsFiniteSet(timer), Poll(timer)
  PROVE  EvInv'
<1> DEFINE S == FileEvents \cup timer
<1>1. timer \subseteq Event /\ \A e \in timer : e.file = TimerFile
  <2>1. timer_fd \in Fd \cup {NULL} /\ MaxOpen \in Nat /\ MaxGen \in Nat
    BY BoundAssumption DEF EvInv, TypeOK
  <2> QED
    BY <2>1 DEF TimerEvents, Event, TimerFile
<1>2. IsFiniteSet(S) /\ Cardinality(S) \in Nat
  <2>1. IsFiniteSet(FileEvents)
    BY HarvestFresh
  <2>2. IsFiniteSet(S)
    BY <2>1, FS_Union
  <2> QED
    BY <2>2, FS_CardinalityType
<1>3. batch' \in [1..Cardinality(S) -> S]
  <2>1. batch' \in Orders(S)
    BY DEF Poll
  <2> QED
    BY <2>1, Zenon DEF Orders
<1>4. S \subseteq Event
  BY <1>1, HarvestFresh
<1>5. batch' \in Seq(Event)
  <2>1. PICK n \in Nat : n = Cardinality(S)
    BY <1>2
  <2>2. batch' \in [1..n -> S]
    BY <1>3, <2>1
  <2> HIDE DEF S
  <2>3. batch' \in [1..n -> Event]
    BY <1>4, <2>2
  <2> QED
    BY <2>3
<1>6. TypeOK'
  BY <1>5 DEF Poll, EvInv, TypeOK, worldVars
<1>7. BatchAges'
  <2> SUFFICES ASSUME NEW i \in DOMAIN batch', batch'[i].file # TimerFile
               PROVE  /\ batch'[i].tag <= regs[batch'[i].fd].gen
                      /\ batch'[i].file = regs[batch'[i].fd].cb
    BY DEF BatchAges, Poll
  <2>1. batch'[i] \in FileEvents
    BY <1>1, <1>3
  <2>2. batch'[i].tag \in Nat
    BY <2>1, HarvestFresh DEF Event
  <2> QED
    BY <2>1, <2>2, HarvestFresh
<1>8. KernelAgrees' /\ CountExact' /\ OwnersAgree' /\ NoStaleDelivery'
  BY DEF Poll, EvInv, KernelAgrees, CountExact, OwnersAgree, NoStaleDelivery, worldVars
<1> QED
  BY <1>6, <1>7, <1>8 DEF EvInv

\* Taking the first event off the batch.
LEMMA EvInvTail ==
  ASSUME EvInv, batch # <<>>, batch' = Tail(batch),
         UNCHANGED <<regs, nreg, timer_fd, worldVars>>,
         timer_fired' \in BOOLEAN,
         running' \in [event : Event, owner : 0..MaxOpen] \cup {NULL},
         NoStaleDelivery'
  PROVE  EvInv'
<1>1. batch \in Seq(Event)
  BY DEF EvInv, TypeOK
<1>2. batch' \in Seq(Event) /\ \A i \in DOMAIN batch' : i + 1 \in DOMAIN batch /\ batch'[i] = batch[i + 1]
  BY <1>1
<1>3. TypeOK'
  BY <1>2 DEF EvInv, TypeOK, worldVars
<1>4. BatchAges'
  BY <1>2 DEF EvInv, BatchAges
<1>5. KernelAgrees' /\ CountExact' /\ OwnersAgree'
  BY DEF EvInv, KernelAgrees, CountExact, OwnersAgree, worldVars
<1> QED
  BY <1>3, <1>4, <1>5 DEF EvInv

\* The event at the head of the batch goes to its own owner, or to nobody.
LEMMA EvInvDispatch == EvInv /\ Dispatch => EvInv'
<1> SUFFICES ASSUME EvInv, Dispatch PROVE EvInv'
  OBVIOUS
<1> DEFINE e == Head(batch)
<1>1. batch \in Seq(Event) /\ batch # <<>>
  BY DEF Dispatch, EvInv, TypeOK
<1>2. e \in Event /\ 1 \in DOMAIN batch /\ e = batch[1]
  BY <1>1
<1> HIDE DEF e
<1>3. e.fd \in Fd /\ regs[e.fd] \in Reg
  BY <1>2 DEF Event, EvInv, TypeOK
<1>4. running' = IF IsFor(e) THEN [event |-> e, owner |-> regs[e.fd].cb] ELSE NULL
  BY DEF Dispatch, e
<1>5. CASE IsFor(e)
  <2>1. running' = [event |-> e, owner |-> regs[e.fd].cb]
    BY <1>4, <1>5
  <2>2. regs[e.fd].interest # {} /\ regs[e.fd].gen = e.tag
    BY <1>5 DEF IsFor
  <2>3. e.file # TimerFile => e.file = regs[e.fd].cb
    BY <1>2, <2>2 DEF EvInv, BatchAges
  <2>4. running' \in [event : Event, owner : 0..MaxOpen]
    BY <1>2, <1>3, <2>1 DEF Reg
  <2>5. NoStaleDelivery'
    BY <2>1, <2>3 DEF NoStaleDelivery
  <2> QED
    BY <1>1, <2>4, <2>5, EvInvTail DEF Dispatch, EvInv, TypeOK
<1>6. CASE ~IsFor(e)
  <2>1. running' = NULL
    BY <1>4, <1>6
  <2>2. NoStaleDelivery'
    BY <2>1 DEF NoStaleDelivery
  <2> QED
    BY <1>1, <2>1, <2>2, EvInvTail DEF Dispatch, EvInv, TypeOK
<1> QED
  BY <1>5, <1>6

\* Every step keeps the invariant.
LEMMA EvInvNext == EvInv /\ [Next]_vars => EvInv'
<1> SUFFICES ASSUME EvInv, [Next]_vars PROVE EvInv'
  OBVIOUS
<1> USE DEF NoFile
<1>0. TypeOK
  BY DEF EvInv
<1>1. ASSUME NEW fd \in Fd, Open(fd) PROVE EvInv'
  <2>1. regs[fd].interest = {}
    BY <1>1 DEF EvInv, OwnersAgree, Open
  <2>2. TypeOK'
    BY <1>0, <1>1, BoundAssumption DEF Open, TypeOK, loopVars
  <2>3. \A x \in Fd : file'[x] = file[x] \/ regs[x].interest = {}
    BY <1>0, <1>1, <2>1 DEF Open, TypeOK
  <2> QED
    BY <1>1, <2>2, <2>3, EvInvWorld DEF Open, loopVars
<1>2. ASSUME NEW fd \in Fd, Close(fd) PROVE EvInv'
  <2>1. TypeOK'
    BY <1>0, <1>2, BoundAssumption DEF Close, TypeOK, loopVars, Interest
  <2>2. \A x \in Fd : /\ file'[x] = file[x] \/ regs[x].interest = {}
                      /\ kern'[x] = kern[x] \/ (regs[x].interest = {} /\ kern'[x] = NULL)
    BY <1>0, <1>2 DEF Close, TypeOK
  <2> QED
    BY <1>2, <2>1, <2>2, EvInvWorld DEF Close, loopVars
<1>3. ASSUME NEW fd \in Fd, NEW m \in Interest, Readiness(fd, m) PROVE EvInv'
  <2>1. TypeOK'
    BY <1>0, <1>3 DEF Readiness, TypeOK, loopVars
  <2> QED
    BY <1>3, <2>1, EvInvWorld DEF Readiness, loopVars
<1>4. ASSUME NEW fd \in Fd, NEW m \in Interest, dyn_evloop_add(fd, m) PROVE EvInv'
  <2> DEFINE r == [regs[fd] EXCEPT !.cb = file[fd]]
  <2>1. r \in Reg /\ r.interest = regs[fd].interest /\ r.gen = regs[fd].gen /\ r.cb = file[fd]
    BY <1>0 DEF TypeOK, Reg
  <2>2. file[fd] # NoFile /\ Change(fd, r, m)
    BY <1>4 DEF dyn_evloop_add
  <2> HIDE DEF r
  <2> QED
    BY <2>1, <2>2, EvInvChange
<1>5. ASSUME NEW fd \in Fd, NEW m \in Interest, dyn_evloop_mod(fd, m) PROVE EvInv'
  <2>1. regs[fd] \in Reg
    BY <1>0 DEF TypeOK
  <2> QED
    BY <1>5, <2>1, EvInvChange DEF dyn_evloop_mod
<1>6. ASSUME NEW fd \in Fd, dyn_evloop_del(fd) PROVE EvInv'
  <2>1. regs[fd] \in Reg /\ {} \in Interest
    BY <1>0 DEF TypeOK, Interest
  <2> QED
    BY <1>6, <2>1, EvInvChange DEF dyn_evloop_del
<1>7. ASSUME NEW fd \in Fd, set_timer_on(fd) PROVE EvInv'
  <2>1. TypeOK'
    BY <1>0, <1>7 DEF set_timer_on, TypeOK, worldVars
  <2> QED
    BY <1>7, <2>1, EvInvWorld DEF set_timer_on, worldVars
<1>8. ASSUME set_timer_off PROVE EvInv'
  <2>1. TypeOK'
    BY <1>0, <1>8 DEF set_timer_off, TypeOK, worldVars
  <2> QED
    BY <1>8, <2>1, EvInvWorld DEF set_timer_off, worldVars
<1>9. ASSUME Poll({}) PROVE EvInv'
  BY <1>9, EvInvPoll, FS_EmptySet
<1>10. ASSUME NEW e \in TimerEvents, Poll({e}) PROVE EvInv'
  <2>1. IsFiniteSet({e})
    BY FS_Singleton
  <2> QED
    BY <1>10, <2>1, EvInvPoll
<1>11. ASSUME DispatchTimer PROVE EvInv'
  <2>1. NoStaleDelivery' /\ timer_fired' \in BOOLEAN /\ running' = running
    BY <1>11 DEF DispatchTimer, NoStaleDelivery, EvInv
  <2> QED
    BY <1>0, <1>11, <2>1, EvInvTail DEF DispatchTimer, TypeOK
<1>12. ASSUME Dispatch PROVE EvInv'
  BY <1>12, EvInvDispatch
<1>13. ASSUME CallbackReturns PROVE EvInv'
  <2>1. TypeOK'
    BY <1>0, <1>13 DEF CallbackReturns, TypeOK, worldVars
  <2>2. KernelAgrees' /\ CountExact' /\ OwnersAgree' /\ BatchAges' /\ NoStaleDelivery'
    BY <1>13 DEF CallbackReturns, EvInv, KernelAgrees, CountExact, OwnersAgree, BatchAges,
                 NoStaleDelivery, worldVars
  <2> QED
    BY <2>1, <2>2 DEF EvInv
<1>14. CASE UNCHANGED vars
  BY <1>14 DEF vars, loopVars, worldVars, EvInv, TypeOK, KernelAgrees, CountExact, OwnersAgree,
               BatchAges, NoStaleDelivery
<1> QED
  BY <1>1, <1>2, <1>3, <1>4, <1>5, <1>6, <1>7, <1>8, <1>9, <1>10, <1>11, <1>12, <1>13, <1>14
  DEF Next, UserStep, PollStep, LoopStep

\* The invariant holds in every reachable state.
LEMMA EvInvAlways == Spec => []EvInv
  BY EvInvInit, EvInvNext, PTL DEF Spec

\* An event harvested by dyn_evloop_poll reaches only the owner of the file
\* it was harvested for, however descriptors are closed and reused.
THEOREM NoStaleEvent == Spec => []NoStaleDelivery
<1>1. EvInv => NoStaleDelivery
  BY DEF EvInv
<1> QED
  BY <1>1, EvInvAlways, PTL

\* epoll's table equals the loop's after every add, mod and del, accepted or
\* refused.
THEOREM KernelFollows == Spec => []KernelAgrees
<1>1. EvInv => KernelAgrees
  BY DEF EvInv
<1> QED
  BY <1>1, EvInvAlways, PTL

\* lp->nreg is the number of live registrations.
THEOREM CountIsExact == Spec => []CountExact
<1>1. EvInv => CountExact
  BY DEF EvInv
<1> QED
  BY <1>1, EvInvAlways, PTL
=============================================================================
