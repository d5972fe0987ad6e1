---------------------------- MODULE JsLoopProofs ----------------------------
(***************************************************************************)
(* Safety of the event loop of module JsLoop, for any number of Workers,   *)
(* calls, files and messages: what a batch serves is still registered, a   *)
(* call that waits for a thread has one in front of it unless Workers have *)
(* all the threads, a loop that ends by itself has no call away and no     *)
(* message to serve, and the pipes count what they hold.                   *)
(***************************************************************************)
EXTENDS JsLoop, FiniteSetTheorems, WellFoundedInduction, TLAPS

Batching == {"top", "files", "msgs"}
ScriptSide == {"js", "send", "files", "msgs"}
ShutSide == {"shut", "wait", "drain", "take", "run", "start", "freed"}
MainPc == ScriptSide \cup ShutSide \cup {"top", "check", "set", "poll"}

\* The shape of the main thread's state, as far as the proofs look at it.
MainTyped ==
    /\ DOMAIN m = {"pc", "back", "batch", "quiet", "polled", "timed", "port", "todo", "left",
                   "gen", "send", "shut", "ok", "uses"}
    /\ m.pc \in MainPc /\ m.back \in Batching /\ m.batch \in Seq(Fiber)
    /\ m.port \in SUBSET Worker /\ m.todo \in SUBSET File /\ m.gen \in SUBSET {"port", "rw"}
    /\ m.shut \in BOOLEAN /\ m.ok \in BOOLEAN
    /\ handler \in SUBSET Worker /\ rw \in SUBSET File

PosterTyped ==
    poster \in [state : {"none", "open", "freed"}, pending : BOOLEAN, byte : BOOLEAN,
                list : Seq(Fiber)]

\* Where it can be: a batch is open only while its callbacks run, and a loop
\* that has ended never runs a script again.
MainWhere ==
    /\ m.pc \notin ScriptSide => m.back = "top"
    /\ m.shut => m.pc \in ShutSide
    /\ m.pc \in {"shut", "wait", "freed"} => m.shut
    /\ m.pc = "send" => m.send \in Worker \X Sizes

MainInv == MainTyped /\ PosterTyped /\ MainWhere

\* In a batch nothing that is still to be served has been dropped, unless the
\* generation says so.
BatchInv ==
    /\ "files" \in {m.pc, m.back} => "rw" \in m.gen \/ m.todo \subseteq rw
    /\ "msgs" \in {m.pc, m.back} => m.gen # {} \/ m.port \subseteq handler

-----------------------------------------------------------------------------
(* Fibers *)

Once(q) == \A i, k \in DOMAIN q : q[i] = q[k] => i = k

FiberTyped(b) ==
    b \in [st : [Fiber -> FiberState], trips : Nat, waitq : Seq(Fiber), holds : Nat]

\* Who waits for a thread stands in the line, once.
LineExact(b) ==
    /\ Once(b.waitq)
    /\ \A i \in DOMAIN b.waitq : b.st[b.waitq[i]] = "waiting"
    /\ \A f \in Fiber : b.st[f] = "waiting" => \E i \in DOMAIN b.waitq : b.waitq[i] = f

\* post_holds counts the calls that are away.
HoldsExact(b) == b.holds = Cardinality(Offloaded(b))

FibersOk(b) == FiberTyped(b) /\ LineExact(b) /\ HoldsExact(b)

\* A node that has been posted is on the way to the loop, once.
PostsExact ==
    /\ Once(poster.list) /\ Once(m.batch)
    /\ \A i \in DOMAIN poster.list : fb.st[poster.list[i]] = "posted"
    /\ \A i \in DOMAIN m.batch : fb.st[m.batch[i]] = "posted"
    /\ \A i \in DOMAIN poster.list, k \in DOMAIN m.batch : poster.list[i] # m.batch[k]

\* The part of EndOwesNothing about calls.
EndOwesNoCall == m.shut /\ m.ok => Offloaded(fb) = {} /\ poster.list = <<>>

FiberInv == FibersOk(fb) /\ PostsExact /\ EndOwesNoCall

\* What StrandedByWorkersOnly says of one step.
Strands == ~Stranded /\ Stranded' => m.pc = "start" /\ Cardinality(lent) >= MaxThreads

\* The threads that Workers have can be counted.
LentInv == IsFiniteSet(lent)

-----------------------------------------------------------------------------
(* Pipes *)

PipeOk(p) ==
    /\ p \in Pipe
    /\ p.waker <=> p.q # <<>>
    /\ p.bytes = Total(p.q) /\ p.bytes <= QueueMax

\* The part of EndOwesNothing about messages.
EndOwesNoMessage == m.shut /\ m.ok => \A w \in handler : up[w].q = <<>> /\ w \notin Live

\* What the limit was checked for still fits when it is appended: only the
\* one who checked appends to that pipe.
PipeInv ==
    /\ wk \in [Worker -> [pc : {"none", "run", "send", "kick", "write", "gone"},
                          handler : BOOLEAN, send : Sizes \cup {0}]]
    /\ DOMAIN up = Worker /\ DOMAIN down = Worker
    /\ \A w \in Worker : PipeOk(up[w]) /\ PipeOk(down[w])
    /\ \A w \in Worker : wk[w].pc = "send" => wk[w].send \in Sizes /\ ~Full(up[w], wk[w].send)
    /\ m.pc = "send" => ~Full(down[m.send[1]], m.send[2])
    /\ EndOwesNoMessage

-----------------------------------------------------------------------------
(* The main thread *)

\* What is left of the loop when it ends.
LEMMA LeavesFacts ==
    ASSUME MainTyped, NEW ok \in BOOLEAN, m' = Leaves(ok), UNCHANGED <<handler, rw>>
    PROVE  /\ MainTyped' /\ m'.pc = "shut" /\ m'.back = "top" /\ m'.shut /\ m'.ok = ok
           /\ m'.batch = m.batch /\ m'.uses = m.uses
  <1>1. {} \in SUBSET Worker /\ {} \in SUBSET File /\ {} \in SUBSET {"port", "rw"} /\ 0 \in Int
    OBVIOUS
  <1>2. /\ m'.pc = "shut" /\ m'.back = "top" /\ m'.shut = TRUE /\ m'.ok = ok
        /\ m'.batch = m.batch /\ m'.uses = m.uses
    BY DEF MainTyped, Leaves
  <1>3. MainTyped'
    BY <1>1 DEF MainTyped, Leaves, MainPc, ShutSide, Batching
  <1> QED BY <1>2, <1>3

\* The script's steps.
LEMMA MainScript ==
    ASSUME MainInv, Script
    PROVE  MainInv'
  <1> USE DEF MainInv, MainTyped, PosterTyped, MainWhere, MainPc, ScriptSide, ShutSide, Batching
  <1>1. ASSUME NEW w \in Worker, NEW listens \in BOOLEAN, NewWorker(w, listens) PROVE MainInv'
    BY <1>1 DEF NewWorker, Ensured
  <1>2. ASSUME NEW w \in Worker, SetOnMessage(w) \/ ClearOnMessage(w) PROVE MainInv'
    <2>1. handler' \in SUBSET Worker /\ \E gen \in {"port", "rw"} : Bumps(gen)
      BY <1>2 DEF SetOnMessage, ClearOnMessage
    <2> QED BY <1>2, <2>1 DEF SetOnMessage, ClearOnMessage, Bumps
  <1>3. ASSUME NEW w \in Worker, NEW n \in Sizes, PostChecks(w, n) PROVE MainInv'
    BY <1>3 DEF PostChecks
  <1>4. CASE PostAppends
    BY <1>4 DEF PostAppends
  <1>5. ASSUME NEW d \in File, Watch(d) \/ free_rw_handler(d) PROVE MainInv'
    BY <1>5 DEF Watch, free_rw_handler, Bumps
  <1>6. ASSUME NEW d \in File, NEW now, Uses(d, now) PROVE MainInv'
    BY <1>6 DEF Uses
  <1>7. ASSUME NEW f \in Fiber, Drives(f) PROVE MainInv'
    BY <1>7 DEF Drives, Ensured
  <1>8. CASE SetTimer
    BY <1>8 DEF SetTimer
  <1>9. CASE ScriptReturns
    BY <1>9 DEF ScriptReturns
  <1>10. CASE ScriptFails
    BY <1>10, LeavesFacts DEF ScriptFails
  <1> QED BY <1>1, <1>2, <1>3, <1>4, <1>5, <1>6, <1>7, <1>8, <1>9, <1>10 DEF Script

\* The steps of the loop up to the wait.
LEMMA MainBefore ==
    ASSUME MainInv,
           \/ SignalTurn \/ PostsTurn \/ Drains \/ Takes \/ BackOnJs \/ StartWaiting
           \/ StartsNone \/ PostsDone \/ LoopEnds \/ TimerTurn \/ GoesOn \/ PollSet
    PROVE  MainInv'
  <1> USE DEF MainInv, MainTyped, PosterTyped, MainWhere, MainPc, ScriptSide, ShutSide, Batching
  <1>1. CASE SignalTurn
    BY <1>1 DEF SignalTurn
  <1>2. CASE PostsTurn
    BY <1>2 DEF PostsTurn, Unflagged
  <1>3. CASE Drains
    BY <1>3 DEF Drains
  <1>4. CASE Takes
    <2>1. /\ DOMAIN m' = DOMAIN m /\ m'.pc = "run" /\ m'.batch = poster.list
          /\ m'.back = m.back /\ m'.port = m.port /\ m'.todo = m.todo /\ m'.gen = m.gen
          /\ m'.shut = m.shut /\ m'.ok = m.ok
      BY <1>4 DEF Takes
    <2>2. PosterTyped'
      <3>1. <<>> \in Seq(Fiber)
        OBVIOUS
      <3> QED BY <1>4, <3>1 DEF Takes
    <2> QED BY <1>4, <2>1, <2>2 DEF Takes
  <1>5. CASE BackOnJs
    BY <1>5 DEF BackOnJs
  <1>6. CASE StartWaiting
    BY <1>6 DEF StartWaiting
  <1>7. CASE StartsNone
    BY <1>7 DEF StartsNone
  <1>8. CASE PostsDone
    BY <1>8 DEF PostsDone
  <1>9. CASE LoopEnds
    BY <1>9, LeavesFacts DEF LoopEnds
  <1>10. CASE TimerTurn
    <2>1. handler' \in SUBSET Worker
      BY <1>10 DEF TimerTurn, DropsRefs
    <2> QED BY <1>10, <2>1 DEF TimerTurn
  <1>11. CASE GoesOn
    <2>1. handler' \in SUBSET Worker
      BY <1>11 DEF GoesOn, DropsRefs
    <2> QED BY <1>11, <2>1 DEF GoesOn
  <1>12. CASE PollSet
    BY <1>12 DEF PollSet
  <1> QED BY <1>1, <1>2, <1>3, <1>4, <1>5, <1>6, <1>7, <1>8, <1>9, <1>10, <1>11, <1>12

\* The steps of the loop after the wait.
LEMMA MainAfter ==
    ASSUME MainInv,
           \/ WakesForPosts \/ WakesForFiles \/ WakesForNothing \/ BatchDone
           \/ \E w \in Worker : WakesForPort(w) \/ Message(w)
           \/ \E d \in File : FileFires(d) \/ FileDropped(d)
    PROVE  MainInv'
  <1> USE DEF MainInv, MainTyped, PosterTyped, MainWhere, MainPc, ScriptSide, ShutSide, Batching
  <1>1. CASE WakesForPosts
    BY <1>1 DEF WakesForPosts, Unflagged
  <1>2. CASE WakesForFiles
    <2>1. FileReady \in SUBSET File
      BY DEF FileReady
    <2> QED BY <1>2, <2>1 DEF WakesForFiles
  <1>3. CASE WakesForNothing
    BY <1>3 DEF WakesForNothing
  <1>4. CASE BatchDone
    BY <1>4 DEF BatchDone
  <1>5. ASSUME NEW w \in Worker, WakesForPort(w) \/ Message(w) PROVE MainInv'
    <2>1. CASE WakesForPort(w)
      BY <2>1 DEF WakesForPort
    <2>2. CASE Message(w)
      BY <2>2 DEF Message
    <2> QED BY <1>5, <2>1, <2>2
  <1>6. ASSUME NEW d \in File, FileFires(d) \/ FileDropped(d) PROVE MainInv'
    <2>1. m.todo \ {d} \in SUBSET File
      OBVIOUS
    <2>2. CASE FileFires(d)
      BY <2>1, <2>2 DEF FileFires
    <2>3. CASE FileDropped(d)
      BY <2>1, <2>3 DEF FileDropped
    <2> QED BY <1>6, <2>2, <2>3
  <1> QED BY <1>1, <1>2, <1>3, <1>4, <1>5, <1>6

\* The end of the runtime.
LEMMA MainShutdown ==
    ASSUME MainInv, Shutdown
    PROVE  MainInv'
  <1> USE DEF MainInv, MainTyped, PosterTyped, MainWhere, MainPc, ScriptSide, ShutSide, Batching
  <1>1. CASE ShutWaiting
    BY <1>1 DEF ShutWaiting
  <1>2. CASE ShutPosts
    BY <1>2 DEF ShutPosts, Unflagged
  <1>3. CASE ShutWakes
    BY <1>3 DEF ShutWakes, Unflagged
  <1>4. CASE ShutTimesOut
    BY <1>4 DEF ShutTimesOut
  <1>5. CASE Freed
    BY <1>5 DEF Freed
  <1>6. ASSUME NEW f \in Fiber, ShutAwaits(f) PROVE MainInv'
    BY <1>6 DEF ShutAwaits
  <1> QED BY <1>1, <1>2, <1>3, <1>4, <1>5, <1>6 DEF Shutdown

\* The steps of the other threads and of the environment.
Others ==
    \/ \E w \in Worker :
          \/ \E n \in Sizes : WorkerChecks(w, n)
          \/ \E listens \in BOOLEAN : WorkerHandles(w, listens)
          \/ WorkerSteps(w)
    \/ \E f \in Fiber : FiberLeaves(f) \/ FiberPosts(f)
    \/ FiberKicks \/ FiberWrites
    \/ Signal
    \/ \E d \in File : FileBecomesReady(d)

\* The main thread's state is its own.
LEMMA OthersLeaveMain ==
    ASSUME Others
    PROVE  UNCHANGED <<m, handler, rw, timers>>
  BY DEF Others, WorkerChecks, WorkerHandles, WorkerSteps, WorkerAppends, WorkerEnds,
         WorkerKicks, WorkerWrites, WorkerSpawns, WorkerCallEnds, FiberLeaves, FiberPosts, FiberKicks, FiberWrites,
         Signal, FileBecomesReady

\* What they do to the poster.
LEMMA MainOthers ==
    ASSUME MainInv, Others
    PROVE  MainInv'
  <1>1. PosterTyped'
    <2> USE DEF MainInv, PosterTyped
    <2>1. ASSUME NEW w \in Worker, WorkerSteps(w) PROVE PosterTyped'
      BY <2>1 DEF WorkerSteps, WorkerAppends, WorkerEnds, WorkerKicks, WorkerWrites,
                  WorkerSpawns, WorkerCallEnds
    <2>2. ASSUME NEW f \in Fiber, FiberLeaves(f) \/ FiberPosts(f) PROVE PosterTyped'
      BY <2>2 DEF FiberLeaves, FiberPosts
    <2>3. CASE FiberKicks \/ FiberWrites \/ Signal
      BY <2>3 DEF FiberKicks, FiberWrites, Signal
    <2> QED BY <2>1, <2>2, <2>3 DEF Others, WorkerChecks, WorkerHandles, FileBecomesReady
  <1> QED BY <1>1, OthersLeaveMain DEF MainInv, MainTyped, MainWhere

\* Where the main thread is, throughout.
LEMMA MainInit == Init => MainInv
  <1> SUFFICES ASSUME Init PROVE MainInv
    OBVIOUS
  <1> USE DEF Init, MainInv, MainTyped, PosterTyped, MainWhere, MainPc, ScriptSide, ShutSide, Batching
  <1>1. <<>> \in Seq(Fiber)
    OBVIOUS
  <1>2. MainTyped /\ MainWhere
    BY <1>1
  <1>3. PosterTyped
    BY <1>1
  <1> QED BY <1>2, <1>3

\* Every step keeps it there.
LEMMA MainStep == MainInv /\ [Next]_vars => MainInv'
  <1> SUFFICES ASSUME MainInv, [Next]_vars PROVE MainInv'
    OBVIOUS
  <1>1. CASE UNCHANGED vars
    BY <1>1 DEF vars, MainInv, MainTyped, PosterTyped, MainWhere
  <1>2. CASE Loop
    BY <1>2, MainBefore, MainAfter DEF Loop
  <1> QED BY <1>1, <1>2, MainScript, MainShutdown, MainOthers DEF Next, Others

-----------------------------------------------------------------------------
(* Batches *)

\* The script's steps.
LEMMA BatchScript ==
    ASSUME MainInv, BatchInv, Script
    PROVE  BatchInv'
  <1> USE DEF MainInv, MainTyped, MainWhere, ScriptSide, ShutSide, Batching, BatchInv
  <1>1. ASSUME NEW w \in Worker, SetOnMessage(w) \/ ClearOnMessage(w) PROVE BatchInv'
    <2>1. rw' = rw /\ m.pc = "js" /\ Bumps("port")
      BY <1>1 DEF SetOnMessage, ClearOnMessage
    <2>2. /\ m'.pc = "js" /\ m'.back = m.back /\ m'.todo = m.todo /\ m'.port = m.port
          /\ m.back # "top" => m'.gen = m.gen \cup {"port"}
      BY <2>1 DEF Bumps
    <2> QED BY <2>1, <2>2
  <1>2. ASSUME NEW d \in File, Watch(d) \/ free_rw_handler(d) PROVE BatchInv'
    BY <1>2 DEF Watch, free_rw_handler, Bumps
  <1>3. ASSUME UNCHANGED <<m, handler, rw>> PROVE BatchInv'
    BY <1>3
  <1>4. CASE PostAppends \/ ScriptReturns \/ \E w \in Worker, n \in Sizes : PostChecks(w, n)
    <2>1. UNCHANGED <<handler, rw>>
      BY <1>4 DEF PostAppends, ScriptReturns, PostChecks
    <2>2. /\ m'.back = m.back /\ m'.gen = m.gen /\ m'.todo = m.todo /\ m'.port = m.port
          /\ m'.pc \in {"js", "send", m.back}
      BY <1>4 DEF PostAppends, ScriptReturns, PostChecks
    <2> QED BY <2>1, <2>2
  <1>5. CASE ScriptFails
    BY <1>5, LeavesFacts DEF ScriptFails
  <1> QED BY <1>1, <1>2, <1>3, <1>4, <1>5
          DEF Script, NewWorker, Uses, Drives, SetTimer

\* The loop's steps.
LEMMA BatchLoop ==
    ASSUME MainInv, BatchInv, Loop
    PROVE  BatchInv'
  <1> USE DEF MainInv, MainTyped, MainWhere, ScriptSide, ShutSide, Batching, BatchInv
  <1>1. CASE \/ SignalTurn \/ PostsTurn \/ Drains \/ Takes \/ BackOnJs \/ StartWaiting
             \/ StartsNone \/ PostsDone \/ TimerTurn \/ GoesOn \/ PollSet \/ WakesForPosts
             \/ WakesForNothing
    <2>1. m.back = "top" /\ m'.back = "top" /\ m'.pc \notin {"files", "msgs"}
      <3>1. CASE SignalTurn \/ PostsTurn \/ Drains \/ Takes \/ WakesForPosts
        BY <3>1 DEF SignalTurn, PostsTurn, Drains, Takes, WakesForPosts, Unflagged
      <3>2. CASE BackOnJs \/ StartWaiting \/ StartsNone \/ PostsDone
        BY <3>2 DEF BackOnJs, StartWaiting, StartsNone, PostsDone
      <3>3. CASE TimerTurn \/ GoesOn \/ PollSet \/ WakesForNothing
        BY <3>3 DEF TimerTurn, GoesOn, PollSet, WakesForNothing
      <3> QED BY <1>1, <3>1, <3>2, <3>3
    <2> QED BY <2>1
  <1>2. CASE LoopEnds
    BY <1>2, LeavesFacts DEF LoopEnds
  <1>3. CASE WakesForFiles
    BY <1>3 DEF WakesForFiles, FileReady
  <1>4. ASSUME NEW w \in Worker, WakesForPort(w) PROVE BatchInv'
    BY <1>4 DEF WakesForPort, PortReady
  <1>5. ASSUME NEW w \in Worker, Message(w) PROVE BatchInv'
    BY <1>5 DEF Message
  <1>6. ASSUME NEW d \in File, FileFires(d) PROVE BatchInv'
    BY <1>6 DEF FileFires
  <1>7. ASSUME NEW d \in File, FileDropped(d) PROVE BatchInv'
    BY <1>7 DEF FileDropped
  <1>8. CASE BatchDone
    BY <1>8 DEF BatchDone
  <1> QED BY <1>1, <1>2, <1>3, <1>4, <1>5, <1>6, <1>7, <1>8 DEF Loop

\* A callback that drops a watched file or a port ends the batch that was
\* collected before it: the loop never serves what is not registered any more.
THEOREM BatchesAreCurrent == Spec => []BatchIsCurrent
  <1>1. Init => BatchInv
    BY DEF Init, BatchInv
  <1>2. MainInv /\ BatchInv /\ [Next]_vars => BatchInv'
    <2> SUFFICES ASSUME MainInv, BatchInv, [Next]_vars PROVE BatchInv'
      OBVIOUS
    <2>1. CASE UNCHANGED vars \/ Others
      <3>1. UNCHANGED <<m, handler, rw>>
        BY <2>1, OthersLeaveMain DEF vars
      <3> QED BY <3>1 DEF BatchInv
    <2>2. CASE Shutdown
      <3>1. /\ UNCHANGED <<handler, rw>> /\ m.back = "top" /\ m'.back = "top"
            /\ m'.pc \notin {"files", "msgs"}
        BY <2>2 DEF Shutdown, ShutWaiting, ShutPosts, ShutWakes, ShutTimesOut, Freed, ShutAwaits,
                    Unflagged, MainInv, MainTyped, MainWhere, ScriptSide, ShutSide
      <3> QED BY <3>1 DEF BatchInv
    <2> QED BY <2>1, <2>2, BatchScript, BatchLoop DEF Next, Others
  <1>3. MainInv /\ BatchInv => BatchIsCurrent
    BY DEF BatchInv, BatchIsCurrent, FilesOver, MessagesOver
  <1> QED BY <1>1, <1>2, <1>3, MainInit, MainStep, PTL DEF Spec

-----------------------------------------------------------------------------
(* What dyn_fiber_drive does to the fibers *)

\* The line and the holds are right but for f, which is on the loop's thread.
InHand(b, f) ==
    /\ FiberTyped(b) /\ HoldsExact(b) /\ f \notin Offloaded(b)
    /\ Once(b.waitq)
    /\ \A i \in DOMAIN b.waitq : b.st[b.waitq[i]] = "waiting" /\ b.waitq[i] # f
    /\ \A g \in Fiber \ {f} : b.st[g] = "waiting" => \E i \in DOMAIN b.waitq : b.waitq[i] = g

\* The calls that are away are finitely many, and are counted one by one.
LEMMA AwayCount ==
    ASSUME NEW S \in SUBSET Fiber
    PROVE  /\ IsFiniteSet(S) /\ Cardinality(S) \in Nat /\ (Cardinality(S) = 0 <=> S = {})
           /\ \A f \in Fiber \ S : Cardinality(S \cup {f}) = Cardinality(S) + 1
           /\ \A f \in S : Cardinality(S \ {f}) = Cardinality(S) - 1
  <1>1. IsFiniteSet(S)
    BY LoopAssumption, FS_Subset DEF LoopAssumption
  <1>2. Cardinality(S) \in Nat /\ (Cardinality(S) = 0 <=> S = {})
    BY <1>1, FS_CardinalityType, FS_EmptySet
  <1>3. \A f \in Fiber \ S : Cardinality(S \cup {f}) = Cardinality(S) + 1
    BY <1>1, FS_AddElement
  <1>4. \A f \in S : Cardinality(S \ {f}) = Cardinality(S) - 1
    BY <1>1, FS_RemoveElement
  <1> QED BY <1>1, <1>2, <1>3, <1>4

\* A fiber that changes its state changes no other.
LEMMA NowFacts ==
    ASSUME NEW b, FiberTyped(b), NEW f \in Fiber, NEW s \in FiberState
    PROVE  /\ FiberTyped(Now(b, f, s)) /\ Now(b, f, s).st[f] = s
           /\ \A g \in Fiber \ {f} : Now(b, f, s).st[g] = b.st[g]
           /\ Now(b, f, s).waitq = b.waitq /\ Now(b, f, s).holds = b.holds
  BY DEF FiberTyped, Now

\* The end of a call, or its wait for a promise.
LEMMA InlineKeeps ==
    ASSUME NEW b, NEW f \in Fiber, InHand(b, f), NEW c \in Inline(b, f)
    PROVE  /\ FibersOk(c) /\ c.waitq = b.waitq /\ Offloaded(c) = Offloaded(b)
           /\ \A g \in Fiber \ {f} : c.st[g] = b.st[g]
           /\ c.st[f] \in {"done", "await"}
  <1>1. PICK s \in {"done", "await"} : c = Now(b, f, s)
    BY DEF Inline
  <1>2. /\ FiberTyped(c) /\ c.st[f] = s /\ \A g \in Fiber \ {f} : c.st[g] = b.st[g]
        /\ c.waitq = b.waitq /\ c.holds = b.holds
    <2>1. s \in FiberState
      BY DEF FiberState
    <2>2. FiberTyped(b)
      BY DEF InHand
    <2> QED BY <1>1, <2>1, <2>2, NowFacts
  <1>3. Offloaded(c) = Offloaded(b)
    BY <1>2 DEF Offloaded, InState, InHand
  <1>4. LineExact(c)
    <2>1. \A i \in DOMAIN b.waitq : b.waitq[i] \in Fiber \ {f} /\ b.st[b.waitq[i]] = "waiting"
      BY DEF InHand, FiberTyped
    <2> QED BY <1>2, <2>1 DEF LineExact, InHand
  <1> QED BY <1>2, <1>3, <1>4 DEF FibersOk, HoldsExact, InHand

\* The call gets a thread.
LEMMA SpawnedKeeps ==
    ASSUME NEW b, NEW f \in Fiber, InHand(b, f)
    PROVE  LET c == Spawned(b, f) IN
           /\ FibersOk(c) /\ c.waitq = b.waitq /\ Offloaded(c) = Offloaded(b) \cup {f}
           /\ \A g \in Fiber \ {f} : c.st[g] = b.st[g]
           /\ c.st[f] = "thread"
  <1> DEFINE a == Now(b, f, "thread")
             c == Spawned(b, f)
  <1>1. /\ FiberTyped(a) /\ a.st[f] = "thread" /\ \A g \in Fiber \ {f} : a.st[g] = b.st[g]
        /\ a.waitq = b.waitq /\ a.holds = b.holds
    BY NowFacts DEF InHand, FiberState
  <1>2. c = [a EXCEPT !.holds = @ + 1]
    BY DEF Spawned
  <1> HIDE DEF a, c
  <1>3. /\ FiberTyped(c) /\ c.st = a.st /\ c.waitq = a.waitq /\ c.holds = a.holds + 1
    BY <1>1, <1>2 DEF FiberTyped
  <1>4. Offloaded(c) = Offloaded(b) \cup {f}
    BY <1>1, <1>3 DEF Offloaded, InState
  <1>5. HoldsExact(c)
    <2>1. Offloaded(b) \in SUBSET Fiber /\ f \in Fiber \ Offloaded(b)
      BY DEF Offloaded, InState, InHand
    <2> QED BY <1>1, <1>3, <1>4, <2>1, AwayCount DEF HoldsExact, InHand
  <1>6. LineExact(c)
    BY <1>1, <1>3 DEF LineExact, InHand, FiberTyped
  <1> QED BY <1>1, <1>3, <1>4, <1>5, <1>6 DEF FibersOk, c

\* dyn_fiber_drive: the call ends, waits, gets a thread, or joins the line.
LEMMA DriveKeeps ==
    ASSUME NEW b, NEW f \in Fiber, InHand(b, f), NEW shut \in BOOLEAN,
           NEW c \in dyn_fiber_drive(b, f, shut)
    PROVE  /\ FibersOk(c) /\ Offloaded(b) \subseteq Offloaded(c)
           /\ \A g \in Fiber \ {f} : c.st[g] = b.st[g]
           /\ c.st[f] \notin {"leaving", "posted"}
           /\ c.waitq # b.waitq => Offloaded(c) # {}
           /\ shut => c.st[f] \in {"done", "await"} /\ c.waitq = b.waitq
  <1>1. CASE c \in Inline(b, f)
    BY <1>1, InlineKeeps
  <1>2. CASE c \notin Inline(b, f)
    <2> DEFINE a == [b EXCEPT !.trips = @ + 1]
    <2>1. ~shut /\ c \in WantThread(b, f)
      BY <1>2 DEF dyn_fiber_drive
    <2>2. /\ FiberTyped(a) /\ a.st = b.st /\ a.waitq = b.waitq /\ a.holds = b.holds
      BY DEF FiberTyped, InHand
    <2>3. \/ c = Spawned(a, f)
          \/ Crowded(b) /\ c = [Now(a, f, "waiting") EXCEPT !.waitq = Append(@, f)]
      BY <2>1 DEF WantThread
    <2> HIDE DEF a
    <2>4. Offloaded(a) = Offloaded(b)
      BY <2>2 DEF Offloaded, InState
    <2>5. InHand(a, f)
      BY <2>2, <2>4 DEF InHand, HoldsExact
    <2>6. CASE c = Spawned(a, f)
      BY <2>1, <2>2, <2>4, <2>5, <2>6, SpawnedKeeps
    <2>7. CASE Crowded(b) /\ c = [Now(a, f, "waiting") EXCEPT !.waitq = Append(@, f)]
      <3> DEFINE d == Now(a, f, "waiting")
      <3>1. /\ FiberTyped(d) /\ d.st[f] = "waiting" /\ \A g \in Fiber \ {f} : d.st[g] = a.st[g]
            /\ d.waitq = a.waitq /\ d.holds = a.holds
        <4>1. "waiting" \in FiberState
          BY DEF FiberState
        <4> QED BY <2>2, <4>1, NowFacts
      <3> HIDE DEF d
      <3>2. /\ FiberTyped(c) /\ c.st = d.st /\ c.holds = d.holds /\ c.waitq = Append(a.waitq, f)
        <4>1. Append(a.waitq, f) \in Seq(Fiber)
          BY <2>2 DEF FiberTyped
        <4>2. c = [d EXCEPT !.waitq = Append(@, f)]
          BY <2>7 DEF d
        <4> QED BY <3>1, <4>1, <4>2 DEF FiberTyped
      <3>3. Offloaded(c) = Offloaded(a)
        BY <2>5, <3>1, <3>2 DEF Offloaded, InState, InHand
      <3>4. LineExact(c)
        <4>1. a.waitq \in Seq(Fiber) /\ Len(a.waitq) \in Nat
          BY <2>2 DEF FiberTyped
        <4>2. /\ DOMAIN c.waitq = 1..(Len(a.waitq) + 1) /\ c.waitq[Len(a.waitq) + 1] = f
              /\ DOMAIN a.waitq = 1..Len(a.waitq)
              /\ \A i \in DOMAIN a.waitq : i \in DOMAIN c.waitq /\ c.waitq[i] = a.waitq[i]
          BY <3>2, <4>1
        <4>3. \A i \in DOMAIN c.waitq : i = Len(a.waitq) + 1 \/ i \in DOMAIN a.waitq
          BY <4>1, <4>2
        <4>4. Once(c.waitq)
          BY <2>5, <4>2, <4>3 DEF Once, InHand
        <4>5. \A i \in DOMAIN c.waitq : c.st[c.waitq[i]] = "waiting"
          <5>1. \A i \in DOMAIN a.waitq : a.waitq[i] \in Fiber \ {f} /\ a.st[a.waitq[i]] = "waiting"
            BY <2>5, <4>1 DEF InHand
          <5> QED BY <3>1, <3>2, <4>2, <4>3, <5>1
        <4>6. ASSUME NEW g \in Fiber, c.st[g] = "waiting"
              PROVE  \E i \in DOMAIN c.waitq : c.waitq[i] = g
          <5>1. CASE g = f
            <6>1. Len(a.waitq) + 1 \in DOMAIN c.waitq
              BY <4>1, <4>2
            <6> QED BY <4>2, <5>1, <6>1
          <5>2. CASE g # f
            BY <2>5, <3>1, <3>2, <4>2, <4>6, <5>2 DEF InHand
          <5> QED BY <5>1, <5>2
        <4> QED BY <4>4, <4>5, <4>6 DEF LineExact
      <3>5. Offloaded(c) # {}
        BY <2>4, <2>7, <3>3 DEF Crowded
      <3> QED BY <2>1, <2>2, <2>4, <2>5, <3>1, <3>2, <3>3, <3>4, <3>5 DEF FibersOk, HoldsExact, InHand
    <2> QED BY <2>3, <2>6, <2>7
  <1> QED BY <1>1, <1>2

\* While the loop runs.
LEMMA DriveOpen ==
    ASSUME NEW b, NEW f \in Fiber, InHand(b, f), NEW c \in dyn_fiber_drive(b, f, FALSE)
    PROVE  /\ FibersOk(c) /\ Offloaded(b) \subseteq Offloaded(c)
           /\ \A g \in Fiber \ {f} : c.st[g] = b.st[g]
           /\ c.waitq # b.waitq => Offloaded(c) # {}
  <1>1. PICK shut \in BOOLEAN : shut = FALSE
    OBVIOUS
  <1>2. c \in dyn_fiber_drive(b, f, shut)
    BY <1>1
  <1> QED BY <1>2, DriveKeeps

-----------------------------------------------------------------------------
(* The steps of the loop and of the fibers' threads *)

\* A step that leaves the fibers and the posted nodes where they are.
LEMMA FiberFrame ==
    ASSUME FiberInv, fb' = fb, poster'.list = poster.list, m'.batch = m.batch,
           m'.shut /\ m'.ok => m.shut /\ m.ok, m.shut => m'.shut,
           m.pc = "start" => m'.pc = "start"
    PROVE  FiberInv' /\ Strands
  BY DEF FiberInv, FibersOk, FiberTyped, LineExact, HoldsExact, PostsExact, Once,
         EndOwesNoCall, Offloaded, InState, Strands, Stranded

\* dyn_fiber_start and dyn_fiber_on_settled.
LEMMA DrivesKeeps ==
    ASSUME MainInv, FiberInv, NEW f \in Fiber, Drives(f)
    PROVE  FiberInv' /\ Strands
  <1>1. fb.st[f] \in {"idle", "await"} /\ fb' \in dyn_fiber_drive(fb, f, FALSE) /\ m' = m /\ ~m.shut
    BY DEF Drives, MainInv, MainWhere, ShutSide
  <1>2. InHand(fb, f)
    <2>1. f \notin Offloaded(fb)
      BY <1>1 DEF Offloaded, InState
    <2> QED BY <1>1, <2>1 DEF FiberInv, FibersOk, LineExact, InHand
  <1>3. /\ FibersOk(fb') /\ Offloaded(fb) \subseteq Offloaded(fb')
        /\ \A g \in Fiber \ {f} : fb'.st[g] = fb.st[g]
        /\ fb'.waitq # fb.waitq => Offloaded(fb') # {}
    BY <1>1, <1>2, DriveOpen
  <1>4. poster'.list = poster.list
    BY DEF Drives, Ensured, MainInv, PosterTyped
  <1>5. PostsExact'
    <2>1. /\ \A i \in DOMAIN poster.list : poster.list[i] \in Fiber \ {f}
          /\ \A i \in DOMAIN m.batch : m.batch[i] \in Fiber \ {f}
      BY <1>1 DEF MainInv, MainTyped, PosterTyped, FiberInv, PostsExact
    <2> QED BY <1>1, <1>3, <1>4, <2>1 DEF FiberInv, PostsExact
  <1>6. Strands
    BY <1>1, <1>3 DEF Strands, Stranded, Drives
  <1> QED BY <1>1, <1>3, <1>5, <1>6 DEF FiberInv, EndOwesNoCall

\* js_loop_run_posts takes the list.
LEMMA TakesKeeps ==
    ASSUME MainInv, FiberInv, Takes
    PROVE  FiberInv' /\ Strands
  <1>1. /\ fb' = fb /\ poster'.list = <<>> /\ m'.batch = poster.list /\ m'.shut = m.shut /\ m'.ok = m.ok
        /\ m.pc # "start"
    BY DEF Takes, MainInv, MainTyped, PosterTyped
  <1>2. PostsExact'
    BY <1>1 DEF FiberInv, PostsExact, Once
  <1> QED BY <1>1, <1>2 DEF FiberInv, FibersOk, FiberTyped, LineExact, HoldsExact,
                            EndOwesNoCall, Offloaded, InState, Strands, Stranded

\* dyn_fiber_back_on_js: the call is back and goes on.
LEMMA BackKeeps ==
    ASSUME MainInv, FiberInv, BackOnJs
    PROVE  FiberInv' /\ Strands
  <1> DEFINE f == Head(m.batch)
             b == Released(fb, f)
  <1>1. /\ m.batch # <<>> /\ fb' \in dyn_fiber_drive(b, f, m.shut) /\ poster' = poster
        /\ m'.batch = Tail(m.batch) /\ m'.pc = "start" /\ m'.shut = m.shut /\ m'.ok = m.ok
    BY DEF BackOnJs, MainInv, MainTyped
  <1>2. /\ m.batch \in Seq(Fiber) /\ m.shut \in BOOLEAN
        /\ poster.list \in Seq(Fiber)
    BY DEF MainInv, MainTyped, PosterTyped
  <1>3. /\ f \in Fiber /\ 1 \in DOMAIN m.batch /\ f = m.batch[1] /\ Tail(m.batch) \in Seq(Fiber)
        /\ \A i \in DOMAIN Tail(m.batch) : i + 1 \in DOMAIN m.batch /\ Tail(m.batch)[i] = m.batch[i + 1]
                                            /\ i \in Nat \ {0}
    BY <1>1, <1>2
  <1>4. fb.st[f] = "posted"
    BY <1>3 DEF FiberInv, PostsExact
  <1> HIDE DEF f
  <1>5. /\ FiberTyped(b) /\ b.waitq = fb.waitq /\ b.st[f] = "js"
        /\ \A g \in Fiber \ {f} : b.st[g] = fb.st[g]
        /\ b.holds = IF fb.holds > 0 THEN fb.holds - 1 ELSE 0
    <2> DEFINE a == Now(fb, f, "js")
    <2>1. /\ FiberTyped(a) /\ a.st[f] = "js" /\ \A g \in Fiber \ {f} : a.st[g] = fb.st[g]
          /\ a.waitq = fb.waitq /\ a.holds = fb.holds
      <3>1. "js" \in FiberState /\ FiberTyped(fb)
        BY DEF FiberState, FiberInv, FibersOk
      <3> QED BY <1>3, <3>1, NowFacts
    <2>2. b = [a EXCEPT !.holds = IF @ > 0 THEN @ - 1 ELSE 0]
      BY DEF Released
    <2> HIDE DEF a, b
    <2> QED BY <2>1, <2>2 DEF FiberTyped
  <1> HIDE DEF b
  <1>6. Offloaded(b) = Offloaded(fb) \ {f} /\ f \in Offloaded(fb)
    BY <1>3, <1>4, <1>5 DEF Offloaded, InState
  <1>7. HoldsExact(b)
    <2>1. Offloaded(fb) \in SUBSET Fiber
      BY DEF Offloaded, InState
    <2>2. Cardinality(Offloaded(fb)) \in Nat \ {0} /\ Cardinality(Offloaded(b)) = Cardinality(Offloaded(fb)) - 1
      BY <1>6, <2>1, AwayCount
    <2> QED BY <1>5, <2>2 DEF HoldsExact, FiberInv, FibersOk
  <1>8. InHand(b, f)
    <2>1. \A i \in DOMAIN fb.waitq : fb.waitq[i] \in Fiber \ {f} /\ fb.st[fb.waitq[i]] = "waiting"
      BY <1>4 DEF FiberInv, FibersOk, LineExact, FiberTyped
    <2> QED BY <1>5, <1>6, <1>7, <2>1 DEF InHand, FiberInv, FibersOk, LineExact
  <1>9. /\ FibersOk(fb')
        /\ \A g \in Fiber \ {f} : fb'.st[g] = b.st[g]
        /\ fb'.st[f] \notin {"leaving", "posted"}
    BY <1>1, <1>2, <1>3, <1>8, DriveKeeps
  <1>10. PostsExact'
    <2>1. /\ \A i \in DOMAIN poster.list : poster.list[i] \in Fiber \ {f}
          /\ \A i \in DOMAIN Tail(m.batch) : Tail(m.batch)[i] \in Fiber \ {f}
      BY <1>2, <1>3 DEF FiberInv, PostsExact, Once
    <2>2. Once(Tail(m.batch))
      BY <1>3 DEF FiberInv, PostsExact, Once
    <2> QED BY <1>1, <1>3, <1>5, <1>9, <2>1, <2>2 DEF FiberInv, PostsExact
  <1>11. ~(m.shut /\ m.ok)
    BY <1>6 DEF FiberInv, EndOwesNoCall
  <1> QED BY <1>1, <1>9, <1>10, <1>11 DEF FiberInv, EndOwesNoCall, Strands, Stranded

\* dyn_fiber_start_waiting: the first of the line gets its thread.
LEMMA StartWaitingKeeps ==
    ASSUME MainInv, FiberInv, StartWaiting
    PROVE  FiberInv' /\ Strands
  <1> DEFINE f == Head(fb.waitq)
             b == [fb EXCEPT !.waitq = Tail(@)]
  <1>1. /\ fb.waitq # <<>> /\ fb' \in StartsFirst(fb, m.shut) /\ m.pc = "start"
        /\ m' = m /\ poster' = poster /\ m.shut \in BOOLEAN
    BY DEF StartWaiting, MayStart, MainInv, MainTyped
  <1>2. fb.waitq \in Seq(Fiber) /\ FiberTyped(fb)
    BY DEF FiberInv, FibersOk, FiberTyped
  <1>3. /\ f \in Fiber /\ 1 \in DOMAIN fb.waitq /\ f = fb.waitq[1] /\ Tail(fb.waitq) \in Seq(Fiber)
        /\ \A i \in DOMAIN Tail(fb.waitq) : i + 1 \in DOMAIN fb.waitq /\ Tail(fb.waitq)[i] = fb.waitq[i + 1]
                                             /\ i \in Nat \ {0}
        /\ \A i \in DOMAIN fb.waitq : i = 1 \/ (i - 1 \in DOMAIN Tail(fb.waitq) /\ Tail(fb.waitq)[i - 1] = fb.waitq[i])
    BY <1>1, <1>2
  <1>4. fb.st[f] = "waiting"
    BY <1>3 DEF FiberInv, FibersOk, LineExact
  <1>5. fb' \in IF m.shut THEN Inline(b, f) ELSE {Spawned(b, f)} \cup dyn_fiber_drive(b, f, FALSE)
    BY <1>1 DEF StartsFirst
  <1> HIDE DEF f
  <1>6. FiberTyped(b) /\ b.st = fb.st /\ b.holds = fb.holds /\ b.waitq = Tail(fb.waitq)
    BY <1>2, <1>3 DEF FiberTyped
  <1> HIDE DEF b
  <1>7. Offloaded(b) = Offloaded(fb) /\ f \notin Offloaded(fb)
    BY <1>4, <1>6 DEF Offloaded, InState
  <1>8. InHand(b, f)
    <2>1. HoldsExact(b)
      BY <1>6, <1>7 DEF HoldsExact, FiberInv, FibersOk
    <2>2. Once(b.waitq)
      BY <1>3, <1>6 DEF FiberInv, FibersOk, LineExact, Once
    <2>3. \A i \in DOMAIN b.waitq : b.st[b.waitq[i]] = "waiting" /\ b.waitq[i] # f
      BY <1>3, <1>6 DEF FiberInv, FibersOk, LineExact, Once
    <2>4. ASSUME NEW g \in Fiber \ {f}, b.st[g] = "waiting"
          PROVE  \E i \in DOMAIN b.waitq : b.waitq[i] = g
      <3>1. PICK k \in DOMAIN fb.waitq : fb.waitq[k] = g
        BY <1>6, <2>4 DEF FiberInv, FibersOk, LineExact
      <3>2. k # 1
        BY <1>3, <3>1
      <3> QED BY <1>3, <1>6, <3>1, <3>2
    <2> QED BY <1>6, <1>7, <2>1, <2>2, <2>3, <2>4 DEF InHand
  <1>9. /\ FibersOk(fb') /\ \A g \in Fiber \ {f} : fb'.st[g] = b.st[g]
        /\ m.shut => Offloaded(fb') = Offloaded(fb)
    <2>0. f \in Fiber
      BY <1>3
    <2>1. CASE fb' \in Inline(b, f)
      BY <1>7, <1>8, <2>0, <2>1, InlineKeeps
    <2>2. CASE ~m.shut /\ fb' = Spawned(b, f)
      BY <1>8, <2>0, <2>2, SpawnedKeeps
    <2>3. CASE ~m.shut /\ fb' \in dyn_fiber_drive(b, f, FALSE)
      BY <1>8, <2>0, <2>3, DriveOpen
    <2> QED BY <1>5, <2>1, <2>2, <2>3
  <1>10. PostsExact'
    <2>1. /\ \A i \in DOMAIN poster.list : poster.list[i] \in Fiber \ {f}
          /\ \A i \in DOMAIN m.batch : m.batch[i] \in Fiber \ {f}
      BY <1>4 DEF MainInv, MainTyped, PosterTyped, FiberInv, PostsExact
    <2> QED BY <1>1, <1>6, <1>9, <2>1 DEF FiberInv, PostsExact
  <1> QED BY <1>1, <1>9, <1>10 DEF FiberInv, EndOwesNoCall, Strands, Stranded

\* It stops when no thread is free: then a call of this thread is away, or
\* Workers have them all.
LEMMA StartsNoneKeeps ==
    ASSUME MainInv, FiberInv, LentInv, StartsNone
    PROVE  FiberInv' /\ Strands
  <1>1. /\ fb' = fb /\ poster' = poster /\ m'.batch = m.batch /\ m'.shut = m.shut /\ m'.ok = m.ok /\ ~MayStart
        /\ m.pc = "start"
    BY DEF StartsNone, MainInv, MainTyped
  <1>2. ASSUME Stranded' PROVE Cardinality(lent) >= MaxThreads
    <2>1. fb.waitq # <<>> /\ ~m.shut /\ Offloaded(fb) = {}
      BY <1>1, <1>2 DEF Stranded
    <2>2. InState(fb, {"thread"}) = {}
      BY <2>1 DEF Offloaded, InState
    <2>3. Cardinality(InState(fb, {"thread"})) = 0 /\ Cardinality(lent) \in Nat
      BY <2>2, FS_EmptySet, FS_CardinalityType DEF LentInv
    <2>4. MaxThreads \in Nat
      BY LoopAssumption DEF LoopAssumption
    <2> QED BY <1>1, <2>1, <2>3, <2>4 DEF MayStart, Threads
  <1>3. FibersOk(fb') /\ PostsExact' /\ EndOwesNoCall'
    BY <1>1 DEF FiberInv, PostsExact, EndOwesNoCall
  <1> QED BY <1>1, <1>2, <1>3 DEF FiberInv, Strands

\* A loop that ends by itself holds nobody, and a node on its list would be
\* somebody away.
LEMMA LoopEndsKeeps ==
    ASSUME MainInv, FiberInv, LoopEnds
    PROVE  FiberInv' /\ Strands
  <1>1. /\ fb' = fb /\ poster' = poster /\ m'.batch = m.batch /\ m'.shut
        /\ ~m.shut /\ m.pc = "check" /\ fb.holds = 0
    <2>1. fb' = fb /\ poster' = poster /\ m.pc = "check" /\ fb.holds = 0
      BY DEF LoopEnds, Over, Unowed
    <2>2. m'.batch = m.batch /\ m'.shut
      BY LeavesFacts DEF LoopEnds, MainInv
    <2>3. ~m.shut
      BY <2>1 DEF MainInv, MainWhere, ShutSide
    <2> QED BY <2>1, <2>2, <2>3
  <1>2. Offloaded(fb) = {}
    <2>1. Offloaded(fb) \in SUBSET Fiber
      BY DEF Offloaded, InState
    <2> QED BY <1>1, <2>1, AwayCount DEF FiberInv, FibersOk, HoldsExact
  <1>3. poster.list = <<>>
    <2>1. poster.list \in Seq(Fiber)
      BY DEF MainInv, PosterTyped
    <2>2. ASSUME NEW i \in DOMAIN poster.list PROVE FALSE
      <3>1. poster.list[i] \in Fiber /\ fb.st[poster.list[i]] = "posted"
        BY <2>1 DEF FiberInv, PostsExact
      <3> QED BY <1>2, <3>1 DEF Offloaded, InState
    <2>3. \A q \in Seq(Fiber) : q # <<>> => 1 \in DOMAIN q
      OBVIOUS
    <2> QED BY <2>1, <2>2, <2>3
  <1>4. FibersOk(fb') /\ PostsExact'
    BY <1>1 DEF FiberInv, PostsExact
  <1> QED BY <1>1, <1>2, <1>3, <1>4 DEF FiberInv, EndOwesNoCall, Strands, Stranded

\* A fiber that awaits is ended with the runtime.
LEMMA ShutAwaitsKeeps ==
    ASSUME MainInv, FiberInv, NEW f \in Fiber, ShutAwaits(f)
    PROVE  FiberInv' /\ Strands
  <1>1. fb' = Now(fb, f, "done") /\ fb.st[f] = "await" /\ m' = m /\ poster' = poster
    BY DEF ShutAwaits
  <1>2. InHand(fb, f)
    <2>1. f \notin Offloaded(fb)
      BY <1>1 DEF Offloaded, InState
    <2> QED BY <1>1, <2>1 DEF FiberInv, FibersOk, LineExact, InHand
  <1>3. /\ FibersOk(fb') /\ fb'.waitq = fb.waitq /\ Offloaded(fb') = Offloaded(fb)
        /\ \A g \in Fiber \ {f} : fb'.st[g] = fb.st[g]
        /\ fb'.st[f] \in {"done", "await"}
    <2>1. fb' \in Inline(fb, f)
      BY <1>1 DEF Inline
    <2> QED BY <1>2, <2>1, InlineKeeps
  <1>4. PostsExact'
    <2>1. /\ \A i \in DOMAIN poster.list : poster.list[i] \in Fiber \ {f}
          /\ \A i \in DOMAIN m.batch : m.batch[i] \in Fiber \ {f}
      BY <1>1 DEF MainInv, MainTyped, PosterTyped, FiberInv, PostsExact
    <2> QED BY <1>1, <1>3, <2>1 DEF FiberInv, PostsExact
  <1> QED BY <1>1, <1>3, <1>4 DEF FiberInv, EndOwesNoCall, Strands, Stranded

\* A thread's own steps: it stays away, and posts its node once.
LEMMA ThreadKeeps ==
    ASSUME MainInv, FiberInv, NEW f \in Fiber, FiberLeaves(f) \/ FiberPosts(f)
    PROVE  FiberInv' /\ Strands
  <1>1. PICK s \in {"leaving", "posted"} : fb' = Now(fb, f, s)
    BY DEF FiberLeaves, FiberPosts
  <1>2. m' = m /\ fb.st[f] \in {"thread", "leaving"}
    BY DEF FiberLeaves, FiberPosts
  <1>3. /\ FiberTyped(fb') /\ fb'.st[f] = s /\ \A g \in Fiber \ {f} : fb'.st[g] = fb.st[g]
        /\ fb'.waitq = fb.waitq /\ fb'.holds = fb.holds
    <2>1. s \in FiberState /\ FiberTyped(fb)
      BY DEF FiberState, FiberInv, FibersOk
    <2> QED BY <1>1, <2>1, NowFacts
  <1>4. Offloaded(fb') = Offloaded(fb)
    BY <1>2, <1>3 DEF Offloaded, InState
  <1>5. LineExact(fb')
    <2>1. \A i \in DOMAIN fb.waitq : fb.waitq[i] \in Fiber \ {f} /\ fb.st[fb.waitq[i]] = "waiting"
      BY <1>2 DEF FiberInv, FibersOk, LineExact, FiberTyped
    <2> QED BY <1>3, <2>1 DEF LineExact, FiberInv, FibersOk
  <1>6. /\ poster.list \in Seq(Fiber) /\ m.batch \in Seq(Fiber)
        /\ \A i \in DOMAIN poster.list : poster.list[i] \in Fiber \ {f} /\ fb'.st[poster.list[i]] = "posted"
        /\ \A i \in DOMAIN m.batch : m.batch[i] \in Fiber \ {f} /\ fb'.st[m.batch[i]] = "posted"
    BY <1>2, <1>3 DEF MainInv, MainTyped, PosterTyped, FiberInv, PostsExact
  <1>7. PostsExact'
    <2>1. CASE FiberLeaves(f)
      BY <1>2, <1>6, <2>1 DEF FiberLeaves, FiberInv, PostsExact
    <2>2. CASE FiberPosts(f)
      <3>1. poster'.list = Append(poster.list, f) /\ s = "posted"
        BY <1>1, <1>3, <2>2 DEF FiberPosts, MainInv, PosterTyped, FiberInv, FibersOk, FiberTyped, Now
      <3> DEFINE n == Len(poster.list) + 1
      <3>2. /\ n \in DOMAIN poster'.list /\ poster'.list[n] = f
            /\ \A i \in DOMAIN poster'.list : i = n \/ (i \in DOMAIN poster.list /\ poster'.list[i] = poster.list[i])
        BY <1>6, <3>1
      <3> HIDE DEF n
      <3>3. Once(poster'.list)
        BY <1>6, <3>2 DEF Once, FiberInv, PostsExact
      <3> QED BY <1>2, <1>3, <1>6, <3>1, <3>2, <3>3 DEF FiberInv, PostsExact
    <2> QED BY <2>1, <2>2
  <1>8. ~(m.shut /\ m.ok)
    BY <1>2 DEF FiberInv, EndOwesNoCall, Offloaded, InState
  <1> QED BY <1>2, <1>3, <1>4, <1>5, <1>7, <1>8 DEF FiberInv, FibersOk, HoldsExact,
                                                 EndOwesNoCall, Strands, Stranded

\* The other steps leave the fibers alone.
LEMMA FiberScript ==
    ASSUME MainInv, FiberInv, Script
    PROVE  FiberInv' /\ Strands
  <1>1. ASSUME NEW f \in Fiber, Drives(f) PROVE FiberInv' /\ Strands
    BY <1>1, DrivesKeeps
  <1>2. CASE ScriptFails
    <2>1. fb' = fb /\ poster' = poster /\ m'.batch = m.batch /\ ~m'.ok /\ m'.shut /\ m.pc # "start"
      BY <1>2, LeavesFacts DEF ScriptFails, MainInv
    <2> QED BY <2>1, FiberFrame
  <1>3. ASSUME fb' = fb, m.pc \in {"js", "send"}, m'.batch = m.batch, m'.shut = m.shut, m'.ok = m.ok,
               poster' = poster \/ poster' = Ensured
        PROVE  FiberInv' /\ Strands
    <2>1. poster'.list = poster.list
      BY <1>3 DEF Ensured, MainInv, PosterTyped
    <2> QED BY <1>3, <2>1, FiberFrame
  <1> USE DEF MainInv, MainTyped
  <1>4. ASSUME NEW w \in Worker, \E listens \in BOOLEAN : NewWorker(w, listens) PROVE FiberInv' /\ Strands
    BY <1>3, <1>4 DEF NewWorker
  <1>5. ASSUME NEW w \in Worker, SetOnMessage(w) \/ ClearOnMessage(w) PROVE FiberInv' /\ Strands
    BY <1>3, <1>5 DEF SetOnMessage, ClearOnMessage, Bumps
  <1>6. CASE PostAppends \/ \E w \in Worker, n \in Sizes : PostChecks(w, n)
    BY <1>3, <1>6 DEF PostAppends, PostChecks
  <1>7. ASSUME NEW d \in File, Watch(d) \/ free_rw_handler(d) \/ \E now \in {"quiet", "bad"} : Uses(d, now)
        PROVE  FiberInv' /\ Strands
    BY <1>3, <1>7 DEF Watch, free_rw_handler, Bumps, Uses
  <1>8. CASE SetTimer \/ ScriptReturns
    BY <1>3, <1>8 DEF SetTimer, ScriptReturns
  <1> QED BY <1>1, <1>2, <1>4, <1>5, <1>6, <1>7, <1>8 DEF Script

\* The loop's steps.
LEMMA FiberLoop ==
    ASSUME MainInv, FiberInv, LentInv, Loop
    PROVE  FiberInv' /\ Strands
  <1>1. ASSUME fb' = fb, m.pc # "start", m'.batch = m.batch, m'.shut = m.shut, m'.ok = m.ok,
               poster'.list = poster.list
        PROVE  FiberInv' /\ Strands
    BY <1>1, FiberFrame
  <1> USE DEF MainInv, MainTyped, PosterTyped
  <1>2. CASE SignalTurn \/ PostsTurn \/ Drains \/ WakesForPosts
    BY <1>1, <1>2 DEF SignalTurn, PostsTurn, Drains, WakesForPosts, Unflagged
  <1>3. CASE PostsDone \/ TimerTurn \/ GoesOn \/ PollSet
    BY <1>1, <1>3 DEF PostsDone, TimerTurn, GoesOn, PollSet
  <1>4. CASE WakesForFiles \/ WakesForNothing \/ BatchDone
    BY <1>1, <1>4 DEF WakesForFiles, WakesForNothing, BatchDone
  <1>5. ASSUME NEW w \in Worker, WakesForPort(w) \/ Message(w) PROVE FiberInv' /\ Strands
    BY <1>1, <1>5 DEF WakesForPort, Message
  <1>6. ASSUME NEW d \in File, FileFires(d) \/ FileDropped(d) PROVE FiberInv' /\ Strands
    BY <1>1, <1>6 DEF FileFires, FileDropped
  <1> QED BY <1>2, <1>3, <1>4, <1>5, <1>6, TakesKeeps, BackKeeps, StartWaitingKeeps, StartsNoneKeeps,
             LoopEndsKeeps DEF Loop

\* The steps of the shutdown and of the other threads.
LEMMA FiberRest ==
    ASSUME MainInv, FiberInv, Shutdown \/ Others \/ UNCHANGED vars
    PROVE  FiberInv' /\ Strands
  <1>1. ASSUME fb' = fb, m.pc = "start" => m'.pc = "start", m'.batch = m.batch, m'.shut = m.shut,
               m'.ok = m.ok, poster'.list = poster.list
        PROVE  FiberInv' /\ Strands
    BY <1>1, FiberFrame
  <1>2. CASE UNCHANGED vars
    BY <1>1, <1>2 DEF vars
  <1>3. CASE Shutdown
    <2> USE DEF MainInv, MainTyped, PosterTyped
    <2>1. CASE ShutWaiting \/ ShutTimesOut \/ Freed
      BY <1>1, <2>1 DEF ShutWaiting, ShutTimesOut, Freed
    <2>2. CASE ShutPosts \/ ShutWakes
      BY <1>1, <2>2 DEF ShutPosts, ShutWakes, Unflagged
    <2> QED BY <1>3, <2>1, <2>2, ShutAwaitsKeeps DEF Shutdown
  <1>4. CASE Others
    <2>1. m' = m
      BY <1>4, OthersLeaveMain
    <2>2. (\E f \in Fiber : FiberLeaves(f) \/ FiberPosts(f)) \/ (fb' = fb /\ poster'.list = poster.list)
      BY <1>4 DEF Others, WorkerChecks, WorkerHandles, WorkerSteps, WorkerAppends, WorkerEnds,
         WorkerKicks, WorkerWrites, WorkerSpawns, WorkerCallEnds, FiberKicks, FiberWrites, Signal, FileBecomesReady,
         MainInv, PosterTyped
    <2> QED BY <1>1, <2>1, <2>2, ThreadKeeps
  <1> QED BY <1>2, <1>3, <1>4

\* No call is away at the start.
LEMMA FiberInit == Init => FiberInv
  <1> SUFFICES ASSUME Init PROVE FiberInv
    OBVIOUS
  <1>1. /\ fb = [st |-> [f \in Fiber |-> "idle"], trips |-> 0, waitq |-> <<>>, holds |-> 0]
        /\ poster.list = <<>> /\ m.batch = <<>> /\ ~m.shut
    BY DEF Init
  <1>2. FiberTyped(fb)
    BY <1>1 DEF FiberTyped, FiberState
  <1>3. Offloaded(fb) = {}
    BY <1>1 DEF Offloaded, InState
  <1>4. HoldsExact(fb)
    BY <1>1, <1>3, FS_EmptySet DEF HoldsExact
  <1>5. LineExact(fb) /\ PostsExact
    BY <1>1 DEF LineExact, PostsExact, Once
  <1> QED BY <1>1, <1>2, <1>4, <1>5 DEF FiberInv, FibersOk, EndOwesNoCall

\* Only a Worker's call takes a thread of the Workers' or gives it back.
LEMMA LentStep == LentInv /\ [Next]_vars => LentInv'
  <1> SUFFICES ASSUME LentInv, [Next]_vars PROVE LentInv'
    OBVIOUS
  <1>1. ASSUME NEW w \in Worker, NEW c \in WorkerCall, WorkerSpawns(w, c) \/ WorkerCallEnds(w, c)
        PROVE  LentInv'
    <2>1. IsFiniteSet(lent \cup {<<w, c>>}) /\ IsFiniteSet(lent \ {<<w, c>>})
      BY FS_AddElement, FS_RemoveElement DEF LentInv
    <2>2. lent' = lent \cup {<<w, c>>} \/ lent' = lent \ {<<w, c>>}
      BY <1>1 DEF WorkerSpawns, WorkerCallEnds
    <2> QED BY <2>1, <2>2 DEF LentInv
  <1>2. ASSUME lent' = lent PROVE LentInv'
    BY <1>2 DEF LentInv
  <1>3. CASE Script
    BY <1>2, <1>3 DEF Script, NewWorker, SetOnMessage, ClearOnMessage, PostChecks, PostAppends, Watch,
       free_rw_handler, Uses, Drives, SetTimer, ScriptReturns, ScriptFails
  <1>4. CASE Loop
    BY <1>2, <1>4 DEF Loop, SignalTurn, PostsTurn, Unflagged, Drains, Takes, BackOnJs, StartWaiting,
       StartsNone, PostsDone, LoopEnds, TimerTurn, GoesOn, PollSet, WakesForPosts, WakesForFiles,
       WakesForNothing, WakesForPort, Message, FileFires, FileDropped, BatchDone
  <1>5. CASE Shutdown
    BY <1>2, <1>5 DEF Shutdown, ShutWaiting, ShutPosts, Unflagged, ShutWakes, ShutTimesOut, ShutAwaits, Freed
  <1>6. CASE Others
    BY <1>1, <1>2, <1>6 DEF Others, WorkerChecks, WorkerHandles, WorkerSteps, WorkerAppends, WorkerEnds,
       WorkerKicks, WorkerWrites, FiberLeaves, FiberPosts, FiberKicks, FiberWrites, Signal, FileBecomesReady
  <1> QED BY <1>2, <1>3, <1>4, <1>5, <1>6 DEF Next, Others, vars

\* Every step keeps the fibers right, and strands a waiting call in one way only.
LEMMA FiberStep == MainInv /\ FiberInv /\ LentInv /\ [Next]_vars => FiberInv' /\ Strands
  BY FiberScript, FiberLoop, FiberRest DEF Next, Others

\* The Workers have no threads at the start.
LEMMA LentInit == Init => LentInv
  BY FS_EmptySet DEF Init, LentInv

\* A call that waits for a thread has one in front of it whose return starts it,
\* for any number of calls and threads, although dyn_fiber_start_waiting is
\* called from nowhere but the return of a call: the last one in front of it goes
\* without starting it only when calls of Workers have all the threads.
THEOREM WaitersAreStarted == Spec => StrandedByWorkersOnly
  <1>1. MainInv /\ FiberInv /\ LentInv /\ [Next]_vars => [Strands]_vars
    BY FiberStep
  <1>2. Spec => [][Strands]_vars
    BY <1>1, MainInit, MainStep, FiberInit, FiberStep, LentInit, LentStep, PTL DEF Spec
  <1> QED BY <1>2 DEF StrandedByWorkersOnly, Strands

-----------------------------------------------------------------------------
(* queued_bytes *)

\* Induction over the naturals, for a set.
LEMMA SetInduction ==
    ASSUME NEW A \in SUBSET Nat, 0 \in A, \A n \in A : n + 1 \in A
    PROVE  A = Nat
  <1> DEFINE T == Nat \ A
             R == OpToRel(<, Nat)
  <1>1. \A x, y \in Nat : <<x, y>> \in R <=> x < y
    BY DEF OpToRel
  <1>2. IsWellFoundedOn(R, Nat)
    BY NatLessThanWellFounded
  <1> HIDE DEF R
  <1>3. SUFFICES ASSUME T # {} PROVE FALSE
    OBVIOUS
  <1>4. PICK x \in T : \A y \in T : ~(<<y, x>> \in R)
    <2>1. T \subseteq Nat
      OBVIOUS
    <2> HIDE DEF T
    <2> QED BY <1>2, <1>3, <2>1, WFMin
  <1>5. x \in Nat \ {0} /\ x - 1 \in Nat /\ x - 1 < x
    OBVIOUS
  <1>6. x - 1 \in A
    BY <1>1, <1>4, <1>5
  <1> QED BY <1>5, <1>6

\* f is the function of partial sums that Total unfolds.
IsSums(f, q) == f = [i \in 0..Len(q) |-> IF i = 0 THEN 0 ELSE f[i - 1] + q[i]]

\* The partial sums of a sequence of numbers exist,
LEMMA SumsExist ==
    ASSUME NEW q \in Seq(Nat)
    PROVE  \E f \in [0..Len(q) -> Nat] : IsSums(f, q)
  <1> DEFINE Upto(f, k) == \A i \in 0..k : f[i] = IF i = 0 THEN 0 ELSE f[i - 1] + q[i]
             Has(k) == \E f \in [0..k -> Nat] : Upto(f, k)
             A == {k \in Nat : k <= Len(q) => Has(k)}
  <1>0. Len(q) \in Nat /\ \A i \in 1..Len(q) : q[i] \in Nat
    OBVIOUS
  <1>1. Has(0)
    <2> DEFINE z == [i \in 0..0 |-> 0]
    <2>1. z \in [0..0 -> Nat]
      OBVIOUS
    <2>2. \A i \in 0..0 : i = 0 /\ z[i] = 0
      OBVIOUS
    <2> HIDE DEF z
    <2>3. \A i \in 0..0 : z[i] = IF i = 0 THEN 0 ELSE z[i - 1] + q[i]
      BY <2>2
    <2> QED BY <2>1, <2>3
  <1>2. ASSUME NEW k \in Nat, k + 1 <= Len(q), Has(k) PROVE Has(k + 1)
    <2>1. PICK f \in [0..k -> Nat] : Upto(f, k)
      BY <1>2
    <2> DEFINE g == [i \in 0..(k + 1) |-> IF i = k + 1 THEN f[k] + q[k + 1] ELSE f[i]]
    <2>2. q[k + 1] \in Nat /\ f[k] \in Nat
      BY <1>0, <1>2
    <2>3. g \in [0..(k + 1) -> Nat]
      BY <2>2
    <2>4. ASSUME NEW i \in 0..(k + 1) PROVE g[i] = IF i = 0 THEN 0 ELSE g[i - 1] + q[i]
      <3>1. CASE i = k + 1
        BY <1>2, <3>1
      <3>2. CASE i # k + 1
        <4>1. i \in 0..k /\ g[i] = f[i] /\ (i # 0 => i - 1 \in 0..(k + 1) /\ i - 1 # k + 1 /\ g[i - 1] = f[i - 1])
          BY <1>2, <3>2
        <4> QED BY <2>1, <4>1
      <3> QED BY <3>1, <3>2
    <2> HIDE DEF g
    <2> QED BY <2>3, <2>4
  <1> HIDE DEF Has
  <1>3. A = Nat
    <2>1. A \in SUBSET Nat /\ 0 \in A
      BY <1>1
    <2>2. \A k \in A : k + 1 \in A
      BY <1>0, <1>2
    <2> HIDE DEF A
    <2> QED BY <2>1, <2>2, SetInduction
  <1>4. Has(Len(q))
    BY <1>0, <1>3
  <1>5. PICK f \in [0..Len(q) -> Nat] : Upto(f, Len(q))
    BY <1>4 DEF Has
  <1>6. IsSums(f, q)
    BY <1>5 DEF IsSums
  <1> QED BY <1>6

\* and there is one such function,
LEMMA SumsUnique ==
    ASSUME NEW q \in Seq(Nat), NEW f, NEW g, IsSums(f, q), IsSums(g, q)
    PROVE  f = g
  <1> DEFINE A == {k \in Nat : k <= Len(q) => f[k] = g[k]}
  <1>0. Len(q) \in Nat /\ DOMAIN f = 0..Len(q) /\ DOMAIN g = 0..Len(q)
    BY DEF IsSums
  <1>1. \A i \in 0..Len(q) : /\ f[i] = IF i = 0 THEN 0 ELSE f[i - 1] + q[i]
                            /\ g[i] = IF i = 0 THEN 0 ELSE g[i - 1] + q[i]
    BY DEF IsSums
  <1>2. 0 \in A
    BY <1>0, <1>1
  <1>3. ASSUME NEW k \in A PROVE k + 1 \in A
    <2> SUFFICES ASSUME k + 1 <= Len(q) PROVE f[k + 1] = g[k + 1]
      OBVIOUS
    <2>1. k + 1 \in 0..Len(q) /\ k + 1 # 0 /\ (k + 1) - 1 = k /\ f[k] = g[k]
      BY <1>0, <1>3
    <2> QED BY <1>1, <2>1
  <1> HIDE DEF A
  <1>4. A = Nat
    <2>1. A \in SUBSET Nat
      BY DEF A
    <2> QED BY <1>2, <1>3, <2>1, SetInduction
  <1>5. \A k \in 0..Len(q) : f[k] = g[k]
    BY <1>0, <1>4 DEF A
  <1> QED BY <1>0, <1>5 DEF IsSums

\* whose last value Total is.
LEMMA TotalIs ==
    ASSUME NEW q \in Seq(Nat), NEW f, IsSums(f, q)
    PROVE  Total(q) = f[Len(q)]
  <1> DEFINE h == CHOOSE g : g = [i \in 0..Len(q) |-> IF i = 0 THEN 0 ELSE g[i - 1] + q[i]]
  <1>1. IsSums(h, q)
    BY DEF IsSums
  <1>2. Total(q) = h[Len(q)]
    BY DEF Total
  <1> HIDE DEF h
  <1>3. h = f
    BY <1>1, SumsUnique
  <1> QED BY <1>2, <1>3

\* What a message adds to queued_bytes and takes away again.
LEMMA TotalFacts ==
    ASSUME NEW q \in Seq(Nat)
    PROVE  /\ Total(q) \in Nat /\ Total(<<>>) = 0
           /\ \A n \in Nat : Total(Append(q, n)) = Total(q) + n
           /\ q # <<>> => Total(Tail(q)) = Total(q) - Head(q)
  <1>1. PICK f \in [0..Len(q) -> Nat] : IsSums(f, q)
    BY SumsExist
  <1>2. Total(q) = f[Len(q)] /\ Len(q) \in Nat
    BY <1>1, TotalIs
  <1>3. Total(<<>>) = 0
    <2>1. <<>> \in Seq(Nat) /\ Len(<<>>) = 0
      OBVIOUS
    <2>2. IsSums([i \in 0..0 |-> 0], <<>>)
      BY <2>1 DEF IsSums
    <2>3. Total(<<>>) = [i \in 0..0 |-> 0][Len(<<>>)]
      BY <2>1, <2>2, TotalIs
    <2> QED BY <2>1, <2>3
  <1>4. ASSUME NEW n \in Nat PROVE Total(Append(q, n)) = Total(q) + n
    <2> DEFINE p == Append(q, n)
               g == [i \in 0..Len(p) |-> IF i = Len(p) THEN f[Len(q)] + n ELSE f[i]]
    <2>1. p \in Seq(Nat) /\ Len(p) = Len(q) + 1 /\ p[Len(p)] = n /\ \A i \in 1..Len(q) : p[i] = q[i]
      BY <1>2
    <2> HIDE DEF p
    <2>2. ASSUME NEW i \in 0..Len(p) PROVE g[i] = IF i = 0 THEN 0 ELSE g[i - 1] + p[i]
      <3>1. CASE i = Len(p)
        BY <1>2, <2>1, <3>1
      <3>2. CASE i # Len(p)
        <4>1. /\ i \in 0..Len(q) /\ g[i] = f[i]
              /\ i # 0 => i \in 1..Len(q) /\ i - 1 \in 0..Len(p) /\ i - 1 # Len(p) /\ g[i - 1] = f[i - 1]
          BY <1>2, <2>1, <3>2
        <4>2. f[i] = IF i = 0 THEN 0 ELSE f[i - 1] + q[i]
          BY <1>1, <4>1 DEF IsSums
        <4> QED BY <2>1, <4>1, <4>2
      <3> QED BY <3>1, <3>2
    <2>3. DOMAIN g = 0..Len(p) /\ g = [i \in DOMAIN g |-> g[i]]
      OBVIOUS
    <2>4. g[Len(p)] = f[Len(q)] + n
      BY <1>2, <2>1
    <2> HIDE DEF g
    <2>5. IsSums(g, p)
      BY <2>2, <2>3 DEF IsSums
    <2> QED BY <1>2, <2>1, <2>4, <2>5, TotalIs DEF p
  <1>5. ASSUME q # <<>> PROVE Total(Tail(q)) = Total(q) - Head(q)
    <2> DEFINE p == Tail(q)
               g == [i \in 0..Len(p) |-> f[i + 1] - Head(q)]
    <2>1. /\ p \in Seq(Nat) /\ Len(p) = Len(q) - 1 /\ Len(q) \in Nat \ {0} /\ Head(q) = q[1]
          /\ Head(q) \in Nat /\ \A i \in 1..Len(p) : p[i] = q[i + 1] /\ q[i + 1] \in Nat
      BY <1>5
    <2> HIDE DEF p
    <2>2. \A i \in 0..Len(q) : f[i] \in Nat /\ f[i] = IF i = 0 THEN 0 ELSE f[i - 1] + q[i]
      BY <1>1 DEF IsSums
    <2>3. ASSUME NEW i \in 0..Len(p) PROVE g[i] = IF i = 0 THEN 0 ELSE g[i - 1] + p[i]
      <3>1. /\ i + 1 \in 0..Len(q) /\ i + 1 # 0 /\ (i + 1) - 1 = i /\ i \in 0..Len(q)
            /\ g[i] = f[i + 1] - Head(q)
        BY <2>1
      <3>2. f[i + 1] = f[i] + q[i + 1] /\ f[i] \in Nat /\ f[0] = 0
        <4>1. f[i + 1] = IF i + 1 = 0 THEN 0 ELSE f[(i + 1) - 1] + q[i + 1]
          BY <2>2, <3>1
        <4>2. 0 \in 0..Len(q)
          BY <2>1
        <4>3. f[0] = 0 /\ f[i] \in Nat
          BY <2>2, <3>1, <4>2
        <4> QED BY <3>1, <4>1, <4>3
      <3>3. CASE i = 0
        BY <2>1, <3>1, <3>2, <3>3
      <3>4. CASE i # 0
        <4>1. i \in 1..Len(p) /\ g[i - 1] = f[i] - Head(q)
          BY <2>1, <3>4
        <4> QED BY <2>1, <3>1, <3>2, <3>4, <4>1
      <3> QED BY <3>3, <3>4
    <2>4. DOMAIN g = 0..Len(p) /\ g = [i \in DOMAIN g |-> g[i]]
      OBVIOUS
    <2>5. g[Len(p)] = f[Len(q)] - Head(q)
      BY <2>1
    <2> HIDE DEF g
    <2>6. IsSums(g, p)
      BY <2>3, <2>4 DEF IsSums
    <2> QED BY <1>2, <2>1, <2>5, <2>6, TotalIs DEF p
  <1> QED BY <1>2, <1>3, <1>4, <1>5

-----------------------------------------------------------------------------
(* The pipes *)

\* The lengths of messages are numbers.
LEMMA LengthsAreNumbers ==
    ASSUME NEW q \in Seq(Sizes)
    PROVE  q \in Seq(Nat)
  <1>1. Len(q) \in Nat /\ q \in [1..Len(q) -> Sizes]
    OBVIOUS
  <1>2. q \in [1..Len(q) -> Nat]
    BY <1>1, LoopAssumption
  <1> QED BY <1>1, <1>2

\* A message that fits is appended: js_worker_postMessage.
LEMMA PutOk ==
    ASSUME NEW p, PipeOk(p), NEW n \in Sizes, ~Full(p, n)
    PROVE  PipeOk(Put(p, n))
  <1> DEFINE r == Put(p, n)
  <1>1. n \in Nat /\ QueueMax \in Nat /\ p.q \in Seq(Sizes) /\ p.bytes \in Nat
    BY LoopAssumption DEF PipeOk, Pipe
  <1>2. p.q \in Seq(Nat)
    BY <1>1, LengthsAreNumbers
  <1>3. r.q = Append(p.q, n) /\ r.bytes = p.bytes + n /\ r.waker = (p.waker \/ p.q = <<>>)
    BY DEF Put
  <1>4. r.bytes = Total(r.q)
    BY <1>1, <1>2, <1>3, TotalFacts DEF PipeOk
  <1>5. r.bytes <= QueueMax
    BY <1>1, <1>3 DEF Full
  <1>6. r.q \in Seq(Sizes) /\ r.q # <<>>
    BY <1>1, <1>3
  <1>7. r.waker = TRUE
    BY <1>3 DEF PipeOk
  <1>8. r \in Pipe
    <2>1. r = [q |-> r.q, bytes |-> r.bytes, waker |-> r.waker]
      BY DEF Put
    <2> HIDE DEF r
    <2>2. r.bytes \in Nat
      BY <1>1, <1>3
    <2>3. [q |-> r.q, bytes |-> r.bytes, waker |-> TRUE] \in Pipe
      BY <1>6, <2>2 DEF Pipe
    <2> QED BY <1>7, <2>1, <2>3
  <1> HIDE DEF r
  <1>9. PipeOk(r)
    BY <1>4, <1>5, <1>6, <1>7, <1>8 DEF PipeOk
  <1> QED BY <1>9 DEF r

\* A message is taken: handle_posted_message.  The difference is never clipped.
LEMMA GetOk ==
    ASSUME NEW p, PipeOk(p), p.q # <<>>
    PROVE  PipeOk(Get(p)) /\ Get(p).bytes <= p.bytes
  <1> DEFINE r == Get(p)
  <1>1. QueueMax \in Nat /\ p.q \in Seq(Sizes) /\ p.bytes \in Nat /\ p.waker = TRUE
    BY LoopAssumption DEF PipeOk, Pipe
  <1>2. p.q \in Seq(Nat) /\ Head(p.q) \in Sizes /\ Tail(p.q) \in Seq(Sizes)
    BY <1>1, LengthsAreNumbers
  <1>3. Head(p.q) \in Nat /\ Tail(p.q) \in Seq(Nat)
    BY <1>2, LengthsAreNumbers, LoopAssumption
  <1>4. Total(Tail(p.q)) = p.bytes - Head(p.q)
    BY <1>2, TotalFacts DEF PipeOk
  <1>5. Total(Tail(p.q)) \in Nat
    BY <1>3, TotalFacts
  <1>6. /\ r.q = Tail(p.q) /\ r.waker = (p.waker /\ Tail(p.q) # <<>>)
        /\ r.bytes = IF p.bytes > Head(p.q) THEN p.bytes - Head(p.q) ELSE 0
        /\ r = [q |-> r.q, bytes |-> r.bytes, waker |-> r.waker]
    BY DEF Get
  <1> HIDE DEF r
  <1>7. r.bytes = Total(r.q) /\ r.bytes \in Nat /\ r.bytes <= p.bytes
    <2>1. \A b, h \in Nat : b - h \in Nat =>
             /\ (IF b > h THEN b - h ELSE 0) = b - h
             /\ b - h <= b
      OBVIOUS
    <2>2. r.bytes = p.bytes - Head(p.q) /\ p.bytes - Head(p.q) <= p.bytes
      BY <1>1, <1>3, <1>4, <1>5, <1>6, <2>1
    <2> QED BY <1>4, <1>5, <1>6, <2>2
  <1>8. r.waker \in BOOLEAN /\ (r.waker <=> r.q # <<>>)
    BY <1>1, <1>6
  <1>9. r \in Pipe
    BY <1>2, <1>6, <1>7, <1>8 DEF Pipe
  <1>10. PipeOk(r)
    BY <1>1, <1>7, <1>8, <1>9 DEF PipeOk
  <1> QED BY <1>7, <1>10 DEF r

\* A pipe from which a message is taken has room for what it had room for.
LEMMA GetLeavesRoom ==
    ASSUME NEW p, PipeOk(p), p.q # <<>>, NEW n \in Sizes, ~Full(p, n)
    PROVE  ~Full(Get(p), n)
  <1>1. n \in Nat /\ QueueMax \in Nat /\ p.bytes \in Nat
    BY LoopAssumption DEF PipeOk, Pipe
  <1>2. Get(p).bytes \in Nat /\ Get(p).bytes <= p.bytes
    BY GetOk DEF PipeOk, Pipe
  <1> QED BY <1>1, <1>2 DEF Full

\* A step that leaves the pipes and the Workers where they are.
LEMMA PipeFrame ==
    ASSUME PipeInv, up' = up, down' = down, wk' = wk,
           m'.pc = "send" => m.pc = "send" /\ m'.send = m.send,
           m'.shut /\ m'.ok => m.shut /\ m.ok /\ handler' = handler
    PROVE  PipeInv'
  BY DEF PipeInv, EndOwesNoMessage, Live

\* The script's steps.
LEMMA PipeScript ==
    ASSUME MainInv, PipeInv, Script
    PROVE  PipeInv'
  <1>0. m.pc = "js" \/ m.pc = "send" => ~m.shut
    BY DEF MainInv, MainWhere, ShutSide
  <1> USE DEF MainInv, MainTyped
  <1>1. ASSUME NEW w \in Worker, NEW listens \in BOOLEAN, NewWorker(w, listens) PROVE PipeInv'
    <2>1. /\ m' = m /\ up' = up /\ down' = down /\ ~m.shut
          /\ wk' = [wk EXCEPT ![w] = [pc |-> "run", handler |-> listens, send |-> 0]]
      BY <1>0, <1>1 DEF NewWorker
    <2>2. /\ wk' \in [Worker -> [pc : {"none", "run", "send", "kick", "write", "gone"},
                                 handler : BOOLEAN, send : Sizes \cup {0}]]
          /\ \A v \in Worker : wk'[v].pc = "send" => wk'[v] = wk[v]
      BY <2>1 DEF PipeInv
    <2> QED BY <2>1, <2>2 DEF PipeInv, EndOwesNoMessage
  <1>2. ASSUME NEW w \in Worker, SetOnMessage(w) \/ ClearOnMessage(w) PROVE PipeInv'
    <2>1. /\ m.pc = "js" /\ m'.pc = "js" /\ m'.shut = m.shut
          /\ up' = up /\ down' = down /\ wk' = wk
      BY <1>2 DEF SetOnMessage, ClearOnMessage, Bumps
    <2> QED BY <1>0, <2>1, PipeFrame
  <1>3. ASSUME NEW w \in Worker, NEW n \in Sizes, PostChecks(w, n) PROVE PipeInv'
    <2>1. /\ m'.pc = "send" /\ m'.send = <<w, n>> /\ m'.shut = m.shut /\ ~m.shut
          /\ up' = up /\ down' = down /\ wk' = wk /\ ~Full(down[w], n)
      BY <1>0, <1>3 DEF PostChecks
    <2> QED BY <2>1 DEF PipeInv, EndOwesNoMessage
  <1>4. CASE PostAppends
    <2>1. PICK w \in Worker, n \in Sizes : m.send = <<w, n>>
      BY <1>4 DEF PostAppends, MainWhere
    <2>2. /\ m'.pc = "js" /\ m'.shut = m.shut /\ ~m.shut /\ up' = up /\ wk' = wk
          /\ down' = [down EXCEPT ![w] = Put(@, n)] /\ ~Full(down[w], n)
      BY <1>0, <1>4, <2>1 DEF PostAppends, PipeInv
    <2>3. PipeOk(Put(down[w], n))
      BY <2>2, PutOk DEF PipeInv
    <2> QED BY <2>2, <2>3 DEF PipeInv, EndOwesNoMessage
  <1>5. ASSUME NEW d \in File, Watch(d) \/ free_rw_handler(d) \/ \E now \in {"quiet", "bad"} : Uses(d, now)
        PROVE  PipeInv'
    <2>1. /\ m.pc = "js" /\ m'.pc = "js" /\ m'.shut = m.shut
          /\ up' = up /\ down' = down /\ wk' = wk
      BY <1>5 DEF Watch, free_rw_handler, Uses, Bumps
    <2> QED BY <1>0, <2>1, PipeFrame
  <1>6. CASE SetTimer \/ \E f \in Fiber : Drives(f)
    <2>1. m.pc = "js" /\ m' = m /\ up' = up /\ down' = down /\ wk' = wk
      BY <1>6 DEF SetTimer, Drives
    <2> QED BY <1>0, <2>1, PipeFrame
  <1>7. CASE ScriptReturns
    <2>1. /\ m.pc = "js" /\ m'.pc # "send" /\ m'.shut = m.shut
          /\ up' = up /\ down' = down /\ wk' = wk
      BY <1>7 DEF ScriptReturns, Batching
    <2> QED BY <1>0, <2>1, PipeFrame
  <1>8. CASE ScriptFails
    <2>1. m'.pc = "shut" /\ ~m'.ok /\ up' = up /\ down' = down /\ wk' = wk
      BY <1>8, LeavesFacts DEF ScriptFails
    <2> QED BY <2>1, PipeFrame
  <1> QED BY <1>1, <1>2, <1>3, <1>4, <1>5, <1>6, <1>7, <1>8 DEF Script

\* The loop ends when no port has a message or a Worker that could send one.
LEMMA PipeEnds ==
    ASSUME MainInv, PipeInv, LoopEnds
    PROVE  PipeInv'
  <1>1. /\ up' = up /\ down' = down /\ wk' = wk /\ handler' = handler
        /\ handler = {} \/ (Live = {} /\ Pending = {})
    BY DEF LoopEnds, Over
  <1>2. m'.pc = "shut"
    BY LeavesFacts DEF LoopEnds, MainInv
  <1>3. \A w \in handler : up[w].q = <<>> /\ w \notin Live
    BY <1>1 DEF Pending
  <1> QED BY <1>1, <1>2, <1>3 DEF PipeInv, EndOwesNoMessage, Live

\* A message is served.
LEMMA PipeMessage ==
    ASSUME MainInv, PipeInv, NEW w \in Worker, Message(w)
    PROVE  PipeInv'
  <1>1. /\ m.pc = "msgs" /\ m'.pc = "js" /\ m'.shut = m.shut /\ down' = down /\ wk' = wk
        /\ up' = [up EXCEPT ![w] = Get(@)] /\ up[w].q # <<>>
    BY DEF Message, MessagesOver, MainInv, MainTyped
  <1>2. ~m.shut
    BY <1>1 DEF MainInv, MainWhere, ShutSide
  <1>3. PipeOk(Get(up[w])) /\ \A n \in Sizes : ~Full(up[w], n) => ~Full(Get(up[w]), n)
    BY <1>1, GetOk, GetLeavesRoom DEF PipeInv
  <1> QED BY <1>1, <1>2, <1>3 DEF PipeInv, EndOwesNoMessage

\* The loop's steps.
LEMMA PipeLoop ==
    ASSUME MainInv, PipeInv, Loop
    PROVE  PipeInv'
  <1>0. m.pc \in {"top", "check", "set", "poll", "files", "msgs"} => ~m.shut
    BY DEF MainInv, MainWhere, ShutSide
  <1>1. ASSUME up' = up, down' = down, wk' = wk, m'.pc # "send", m'.shut = m.shut, m'.ok = m.ok,
               m.pc \in {"top", "check", "set", "poll", "files", "msgs"} \/ handler' = handler
        PROVE  PipeInv'
    BY <1>0, <1>1, PipeFrame
  <1> USE DEF MainInv, MainTyped
  <1>2. CASE PostsTurn \/ WakesForPosts
    <2>1. /\ UNCHANGED <<up, down, wk, handler>> /\ m'.shut = m.shut /\ m'.ok = m.ok
          /\ m'.pc = IF poster.pending \/ m.pc = "poll" THEN "drain" ELSE IF m.shut THEN "wait" ELSE "check"
      BY <1>2 DEF PostsTurn, WakesForPosts, Unflagged
    <2>2. m'.pc # "send"
      BY <2>1
    <2> QED BY <1>1, <2>1, <2>2
  <1>3. CASE SignalTurn \/ Drains \/ TimerTurn \/ GoesOn \/ PollSet
    BY <1>1, <1>3 DEF SignalTurn, Drains, TimerTurn, GoesOn, PollSet
  <1>4. CASE WakesForFiles \/ WakesForNothing \/ BatchDone
    BY <1>1, <1>4 DEF WakesForFiles, WakesForNothing, BatchDone
  <1>5. ASSUME NEW w \in Worker, WakesForPort(w) PROVE PipeInv'
    BY <1>1, <1>5 DEF WakesForPort
  <1>6. ASSUME NEW d \in File, FileFires(d) \/ FileDropped(d) PROVE PipeInv'
    BY <1>1, <1>6 DEF FileFires, FileDropped
  <1>7. CASE Takes \/ BackOnJs \/ StartWaiting \/ StartsNone
    BY <1>1, <1>7 DEF Takes, BackOnJs, StartWaiting, StartsNone
  <1>8. CASE PostsDone
    <2>1. /\ UNCHANGED <<up, down, wk, handler>> /\ m'.shut = m.shut /\ m'.ok = m.ok
          /\ m'.pc = CASE m.shut -> IF m.quiet THEN "wait" ELSE "shut"
                       [] OTHER -> IF m.quiet THEN "check" ELSE "js"
      BY <1>8 DEF PostsDone
    <2>2. m'.pc # "send"
      BY <2>1
    <2> QED BY <1>1, <2>1, <2>2
  <1> QED BY <1>2, <1>3, <1>4, <1>5, <1>6, <1>7, <1>8, PipeEnds, PipeMessage DEF Loop

\* The shutdown moves nothing in the pipes.
LEMMA PipeShutdown ==
    ASSUME MainInv, PipeInv, Shutdown
    PROVE  PipeInv'
  <1> USE DEF MainInv, MainTyped
  <1>1. /\ up' = up /\ down' = down /\ wk' = wk /\ handler' = handler
        /\ m'.pc # "send" /\ m'.shut = m.shut /\ m'.ok = m.ok
    <2>1. CASE ShutWaiting \/ ShutTimesOut \/ Freed
      BY <2>1 DEF ShutWaiting, ShutTimesOut, Freed
    <2>2. CASE ShutPosts \/ ShutWakes
      BY <2>2 DEF ShutPosts, ShutWakes, Unflagged
    <2>3. ASSUME NEW f \in Fiber, ShutAwaits(f)
          PROVE  m' = m /\ m.pc = "shut" /\ up' = up /\ down' = down /\ wk' = wk /\ handler' = handler
      BY <2>3 DEF ShutAwaits
    <2> QED BY <2>1, <2>2, <2>3 DEF Shutdown
  <1> QED BY <1>1, PipeFrame

\* A Worker's steps: its own pipe upwards, and what it takes from the other.
LEMMA PipeWorker ==
    ASSUME MainInv, PipeInv, NEW w \in Worker,
           \/ \E n \in Sizes : WorkerChecks(w, n)
           \/ \E listens \in BOOLEAN : WorkerHandles(w, listens)
           \/ WorkerSteps(w)
    PROVE  PipeInv'
  <1> DEFINE WkT == [pc : {"none", "run", "send", "kick", "write", "gone"},
                     handler : BOOLEAN, send : Sizes \cup {0}]
  <1>0. m' = m /\ handler' = handler
    BY DEF WorkerChecks, WorkerHandles, WorkerSteps, WorkerAppends, WorkerEnds, WorkerKicks, WorkerWrites,
           WorkerSpawns, WorkerCallEnds
  <1>1. ASSUME NEW n \in Sizes, WorkerChecks(w, n) PROVE PipeInv'
    <2>1. /\ up' = up /\ down' = down /\ wk' = [wk EXCEPT ![w].pc = "send", ![w].send = n]
          /\ wk[w].pc = "run" /\ ~Full(up[w], n)
      BY <1>1 DEF WorkerChecks
    <2>2. /\ wk' \in [Worker -> WkT] /\ wk'[w].send = n /\ w \in Live
          /\ \A v \in Worker : v # w => wk'[v] = wk[v]
      BY <2>1 DEF PipeInv, Live
    <2>3. Live' = Live
      BY <2>1, <2>2 DEF PipeInv, Live
    <2> QED BY <1>0, <2>1, <2>2, <2>3 DEF PipeInv, EndOwesNoMessage
  <1>2. CASE WorkerAppends(w)
    <2>1. /\ up' = [up EXCEPT ![w] = Put(@, wk[w].send)] /\ down' = down
          /\ wk' = [wk EXCEPT ![w].pc = "run", ![w].send = 0] /\ wk[w].pc = "send"
      BY <1>2 DEF WorkerAppends
    <2>2. /\ wk' \in [Worker -> WkT] /\ wk'[w].pc = "run" /\ w \in Live
          /\ \A v \in Worker : v # w => wk'[v] = wk[v]
      BY <2>1 DEF PipeInv, Live
    <2>3. Live' = Live
      BY <2>1, <2>2 DEF PipeInv, Live
    <2>4. PipeOk(Put(up[w], wk[w].send))
      BY <2>1, PutOk DEF PipeInv
    <2> QED BY <1>0, <2>1, <2>2, <2>3, <2>4 DEF PipeInv, EndOwesNoMessage
  <1>3. ASSUME NEW listens \in BOOLEAN, WorkerHandles(w, listens) PROVE PipeInv'
    <2>1. /\ up' = up /\ down' = [down EXCEPT ![w] = Get(@)] /\ down[w].q # <<>>
          /\ wk' = [wk EXCEPT ![w].handler = listens]
      BY <1>3 DEF WorkerHandles
    <2>2. /\ wk' \in [Worker -> WkT]
          /\ \A v \in Worker : wk'[v].pc = wk[v].pc /\ wk'[v].send = wk[v].send
      BY <2>1 DEF PipeInv
    <2>3. Live' = Live
      BY <2>2 DEF Live
    <2>4. PipeOk(Get(down[w])) /\ \A n \in Sizes : ~Full(down[w], n) => ~Full(Get(down[w]), n)
      BY <2>1, GetOk, GetLeavesRoom DEF PipeInv
    <2>5. m.pc = "send" => ~Full(down'[m.send[1]], m.send[2])
      BY <2>1, <2>4 DEF PipeInv, MainInv, MainWhere
    <2> QED BY <1>0, <2>1, <2>2, <2>3, <2>4, <2>5 DEF PipeInv, EndOwesNoMessage
  <1>4. CASE (\E ok \in BOOLEAN : WorkerEnds(w, ok)) \/ WorkerKicks(w) \/ WorkerWrites(w)
    <2>1. PICK s \in {"kick", "write", "gone"} : wk' = [wk EXCEPT ![w].pc = s]
      BY <1>4 DEF WorkerEnds, WorkerKicks, WorkerWrites
    <2>2. up' = up /\ down' = down
      BY <1>4 DEF WorkerEnds, WorkerKicks, WorkerWrites
    <2>3. /\ wk' \in [Worker -> WkT] /\ wk'[w].pc = s
          /\ \A v \in Worker : v # w => wk'[v] = wk[v]
      BY <2>1 DEF PipeInv
    <2>4. Live' \subseteq Live
      BY <2>3 DEF Live
    <2> QED BY <1>0, <2>2, <2>3, <2>4 DEF PipeInv, EndOwesNoMessage
  <1>5. ASSUME NEW c \in WorkerCall, WorkerSpawns(w, c) \/ WorkerCallEnds(w, c) PROVE PipeInv'
    <2>1. UNCHANGED <<m, handler, up, down, wk>>
      BY <1>5 DEF WorkerSpawns, WorkerCallEnds
    <2> QED BY <2>1, PipeFrame
  <1> QED BY <1>1, <1>2, <1>3, <1>4, <1>5 DEF WorkerSteps

\* The steps of the other threads.
LEMMA PipeOthers ==
    ASSUME MainInv, PipeInv, Others
    PROVE  PipeInv'
  <1>1. ASSUME NEW w \in Worker,
               \/ \E n \in Sizes : WorkerChecks(w, n)
               \/ \E listens \in BOOLEAN : WorkerHandles(w, listens)
               \/ WorkerSteps(w)
        PROVE  PipeInv'
    BY <1>1, PipeWorker
  <1>2. CASE \/ \E f \in Fiber : FiberLeaves(f) \/ FiberPosts(f)
             \/ FiberKicks \/ FiberWrites \/ Signal
             \/ \E d \in File : FileBecomesReady(d)
    <2>1. UNCHANGED <<m, handler, up, down, wk>>
      BY <1>2 DEF FiberLeaves, FiberPosts, FiberKicks, FiberWrites, Signal, FileBecomesReady
    <2> QED BY <2>1, PipeFrame
  <1> QED BY <1>1, <1>2 DEF Others

\* The pipes are empty at the start.
LEMMA PipeInit == Init => PipeInv
  <1> SUFFICES ASSUME Init PROVE PipeInv
    OBVIOUS
  <1>1. /\ up = [w \in Worker |-> EmptyPipe] /\ down = [w \in Worker |-> EmptyPipe]
        /\ wk = [w \in Worker |-> [pc |-> "none", handler |-> FALSE, send |-> 0]]
        /\ m.pc = "js" /\ ~m.shut
    BY DEF Init
  <1>2. PipeOk(EmptyPipe)
    <2>1. <<>> \in Seq(Nat) /\ <<>> \in Seq(Sizes) /\ QueueMax \in Nat
      BY LoopAssumption
    <2>2. Total(<<>>) = 0
      BY <2>1, TotalFacts
    <2> QED BY <2>1, <2>2 DEF PipeOk, Pipe, EmptyPipe
  <1> QED BY <1>1, <1>2 DEF PipeInv, EndOwesNoMessage

\* Every step keeps the pipes right.
LEMMA PipeStep == MainInv /\ PipeInv /\ [Next]_vars => PipeInv'
  <1>1. MainInv /\ PipeInv /\ UNCHANGED vars => PipeInv'
    <2> SUFFICES ASSUME PipeInv, UNCHANGED vars PROVE PipeInv'
      OBVIOUS
    <2> QED BY PipeFrame DEF vars
  <1> QED BY <1>1, PipeScript, PipeLoop, PipeShutdown, PipeOthers DEF Next, Others

\* A pipe's waker is up exactly while a message waits, queued_bytes is what
\* its messages hold and never exceeds the limit, for any number of Workers
\* and messages of any lengths: although js_worker_postMessage lets go of the
\* mutex between its check and its append, what was checked still fits.
THEOREM PipesAreSound == Spec => []PipesSound
  <1>1. PipeInv => PipesSound
    BY DEF PipeInv, PipesSound, PipeOk
  <1> QED BY <1>1, MainInit, MainStep, PipeInit, PipeStep, PTL DEF Spec

\* When js_std_loop ends by itself no call is on a thread or on its way back,
\* and no port has a message or a Worker that could still send one, for any
\* number of calls and Workers and whatever threads the Workers have.
THEOREM EndsOweNothing == Spec => []EndOwesNothing
  <1>1. FiberInv /\ PipeInv => EndOwesNothing
    BY DEF FiberInv, PipeInv, EndOwesNoCall, EndOwesNoMessage, EndOwesNothing, Offloaded
  <1> QED BY <1>1, MainInit, MainStep, FiberInit, FiberStep, LentInit, LentStep, PipeInit, PipeStep, PTL DEF Spec
=============================================================================
