------------------------------- MODULE JsLoop -------------------------------
(***************************************************************************)
(* The event loop of the main runtime, dyna-libc.c: js_std_loop and        *)
(* js_os_poll, the poster through which other threads reach the loop, the  *)
(* message pipes between the main thread and its Workers, the signal flag, *)
(* one-shot timers, and the fibers of dyna-fiber.inc.c, which leave the    *)
(* loop's thread for a thread of their own and are posted back.            *)
(*                                                                         *)
(* One action is a step of one thread between two accesses to what another *)
(* thread reads: the flag and the pipe of the poster, its list, a message  *)
(* queue, the count of live Workers.  JavaScript runs where m.pc is "js":  *)
(* in the script and in every callback, any number of operations before it *)
(* returns.  A message is its length, a watched file a reader.  Of the     *)
(* fibers of a Worker only their threads are modelled: the limit on them   *)
(* is one for the process.  The shared reactor (module NetReactor) is left *)
(* out; allocation succeeds.                                               *)
(***************************************************************************)
EXTENDS Integers, Sequences, FiniteSets

CONSTANTS
    Worker,      \* Workers the script may create
    Fiber,       \* calls that may run as a fiber
    WorkerCall,  \* bound: calls of one Worker that are on threads at one time
    File,        \* descriptors the script may watch
    Sizes,       \* lengths of a message
    QueueMax,    \* JS_WORKER_QUEUE_MAX_BYTES
    Batch,       \* JS_LOOP_BATCH
    MaxThreads,  \* DYN_FIBER_MAX_THREADS
    MaxTimers,   \* bound: timers set at one time
    Scripts,     \* bound: the sets of facilities and descriptors that a script uses together
    MaxSignals,  \* bound: signals that arrive
    MaxTrips,    \* bound: how often calls ask for a thread
    MaxKicks     \* bound: fiber threads that have posted and not yet woken the loop

ASSUME LoopAssumption ==
    /\ IsFiniteSet(Fiber) /\ Sizes \subseteq Nat \ {0} /\ QueueMax \in Nat
    /\ Batch \in Nat \ {0} /\ MaxThreads \in Nat \ {0}
    /\ MaxTimers \in Nat /\ MaxSignals \in Nat /\ MaxTrips \in Nat /\ MaxKicks \in Nat
    /\ Scripts \subseteq SUBSET ({"worker", "port", "post", "fiber", "timer", "signal"} \cup File)

VARIABLES
    m,        \* the main thread: where it is and the locals it carries
    poster,   \* the poster of the main thread: its state, flag, pipe and list
    kicks,    \* fiber threads between the append and the end of their kick
    up,       \* pipes from the Workers to the main thread
    down,     \* pipes from the main thread to the Workers
    handler,  \* Workers whose onmessage is set: the main thread's ports
    rw,       \* watched descriptors, os_rw_handlers
    fds,      \* what poll() would say of each descriptor
    wk,       \* Worker threads
    fb,       \* fibers: their states, the waiting list, and post_holds
    timers,   \* n_timers
    sig,      \* a signal handler is set, and its signal is pending
    lent      \* calls of the Workers that are on threads

vars == <<m, poster, kicks, up, down, handler, rw, fds, wk, fb, timers, sig, lent>>

-----------------------------------------------------------------------------
(* Message pipes: js_worker_postMessage and handle_posted_message *)

EmptyPipe == [q |-> <<>>, bytes |-> 0, waker |-> FALSE]
Pipe == [q : Seq(Sizes), bytes : Nat, waker : BOOLEAN]

Full(p, n) == n > QueueMax \/ p.bytes > QueueMax - n

\* Mutant: the waker is not signalled.
PutSilently(p, n) == [p EXCEPT !.q = Append(@, n), !.bytes = @ + n]

\* The waker is signalled for the first message only.
Put(p, n) == [q |-> Append(p.q, n), bytes |-> p.bytes + n,
              waker |-> p.waker \/ p.q = <<>>]

\* Mutant: the waker is cleared with every message.
GetClears(p) == [q |-> Tail(p.q), bytes |-> p.bytes - Head(p.q), waker |-> FALSE]

\* The waker is cleared with the last message.
Get(p) == [q |-> Tail(p.q),
           bytes |-> IF p.bytes > Head(p.q) THEN p.bytes - Head(p.q) ELSE 0,
           waker |-> p.waker /\ Tail(p.q) # <<>>]

-----------------------------------------------------------------------------
(* Fibers: what dyn_fiber_drive leaves behind *)

FiberState == {"idle", "js", "thread", "leaving", "posted", "waiting", "await", "done"}

InState(b, S) == {f \in Fiber : b.st[f] \in S}

\* dyn_fiber_threads_live counts the threads of every runtime of the process,
\* dyn_fiber_thread_offloaded the calls of this one.
Threads(b) == Cardinality(InState(b, {"thread"})) + Cardinality(lent)
Offloaded(b) == InState(b, {"thread", "leaving", "posted"})

Now(b, f, s) == [b EXCEPT !.st[f] = s]

\* dyn_fiber_spawn holds the loop for the thread it creates.
Spawned(b, f) == [Now(b, f, "thread") EXCEPT !.holds = @ + 1]

Crowded(b) == Threads(b) >= MaxThreads /\ Offloaded(b) # {}

\* A thread that cannot be created makes the call go on inline, to one of the
\* other ends; a runtime that shuts down creates none.
Inline(b, f) == {Now(b, f, "done"), Now(b, f, "await")}

WantThread(b, f) ==
    LET c == [b EXCEPT !.trips = @ + 1]
    IN IF b.trips = MaxTrips THEN {}
       ELSE IF Crowded(b) THEN {[Now(c, f, "waiting") EXCEPT !.waitq = Append(@, f)]}
       ELSE {Spawned(c, f)}

dyn_fiber_drive(b, f, shut) ==
    Inline(b, f) \cup (IF shut THEN {} ELSE WantThread(b, f))

\* dyn_fiber_start_waiting gives the first of them its thread.
StartsFirst(b, shut) ==
    LET f == Head(b.waitq)
        c == [b EXCEPT !.waitq = Tail(@)]
    IN IF shut THEN Inline(c, f) ELSE {Spawned(c, f)} \cup dyn_fiber_drive(c, f, FALSE)

-----------------------------------------------------------------------------
\* js_live_worker_threads.
Live == {w \in Worker : wk[w].pc \in {"run", "send"}}

\* js_ports_have_pending.
Pending == {w \in handler : up[w].q # <<>>}

Ensured == [poster EXCEPT !.state = "open"]

Init ==
    /\ \E uses \in Scripts :
       /\ m = [pc |-> "js", back |-> "top", batch |-> <<>>, quiet |-> FALSE,
               polled |-> FALSE, timed |-> FALSE, port |-> {}, todo |-> {}, left |-> 0, gen |-> {},
               send |-> <<>>, shut |-> FALSE, ok |-> TRUE, uses |-> uses]
       /\ sig = [set |-> "signal" \in uses, pending |-> FALSE, sent |-> 0]
    /\ poster = [state |-> IF sig.set THEN "open" ELSE "none", pending |-> FALSE,
                 byte |-> FALSE, list |-> <<>>]
    /\ kicks = [appended |-> 0, writing |-> 0]
    /\ up = [w \in Worker |-> EmptyPipe] /\ down = [w \in Worker |-> EmptyPipe]
    /\ handler = {} /\ rw = {}
    /\ fds = [d \in File |-> "quiet"]
    /\ wk = [w \in Worker |-> [pc |-> "none", handler |-> FALSE, send |-> 0]]
    /\ fb = [st |-> [f \in Fiber |-> "idle"], trips |-> 0, waitq |-> <<>>, holds |-> 0]
    /\ timers = 0
    /\ lent = {}

-----------------------------------------------------------------------------
(* What JavaScript on the main thread may do *)

\* js_worker_ctor: the thread is counted before it runs.
NewWorker(w, listens) ==
    /\ m.pc = "js" /\ "worker" \in m.uses /\ (listens => "post" \in m.uses)
    /\ wk[w].pc = "none"
    /\ wk' = [wk EXCEPT ![w] = [pc |-> "run", handler |-> listens, send |-> 0]]
    /\ poster' = Ensured
    /\ UNCHANGED <<m, kicks, up, down, handler, rw, fds, fb, timers, sig, lent>>

\* port_gen and rw_gen, as far as the batch that is being served looks at them.
Bumps(gen) == m' = [m EXCEPT !.gen = IF m.back = "top" THEN {} ELSE @ \cup {gen}]

\* js_worker_set_onmessage, with a function and with null.
SetOnMessage(w) ==
    /\ m.pc = "js" /\ "port" \in m.uses /\ wk[w].pc # "none"
    /\ handler' = handler \cup {w}
    /\ Bumps("port")
    /\ UNCHANGED <<poster, kicks, up, down, rw, fds, wk, fb, timers, sig, lent>>

ClearOnMessage(w) ==
    /\ m.pc = "js" /\ w \in handler
    /\ handler' = handler \ {w}
    /\ Bumps("port")
    /\ UNCHANGED <<poster, kicks, up, down, rw, fds, wk, fb, timers, sig, lent>>

\* js_worker_postMessage looks at the queue, lets go of its mutex to build the
\* message, and appends it under the mutex.
PostChecks(w, n) ==
    /\ m.pc = "js" /\ "post" \in m.uses /\ wk[w].pc # "none" /\ ~Full(down[w], n)
    /\ m' = [m EXCEPT !.pc = "send", !.send = <<w, n>>]
    /\ UNCHANGED <<poster, kicks, up, down, handler, rw, fds, wk, fb, timers, sig, lent>>

PostAppends ==
    /\ m.pc = "send"
    /\ down' = [down EXCEPT ![m.send[1]] = Put(@, m.send[2])]
    /\ m' = [m EXCEPT !.pc = "js", !.send = <<>>]
    /\ UNCHANGED <<poster, kicks, up, handler, rw, fds, wk, fb, timers, sig, lent>>

\* js_os_setReadHandler with a function, and with null or js_os_clear_handler.
Watch(d) ==
    /\ m.pc = "js" /\ d \in m.uses
    /\ rw' = rw \cup {d}
    /\ Bumps("rw")
    /\ UNCHANGED <<poster, kicks, up, down, handler, fds, wk, fb, timers, sig, lent>>

free_rw_handler(d) ==
    /\ m.pc = "js" /\ d \in rw
    /\ rw' = rw \ {d}
    /\ Bumps("rw")
    /\ UNCHANGED <<poster, kicks, up, down, handler, fds, wk, fb, timers, sig, lent>>

\* The script reads what the descriptor has, or closes it behind the loop's back.
Uses(d, now) ==
    /\ m.pc = "js" /\ fds[d] = "ready" /\ now \in {"quiet", "bad"}
    /\ fds' = [fds EXCEPT ![d] = now]
    /\ UNCHANGED <<m, poster, kicks, up, down, handler, rw, wk, fb, timers, sig, lent>>

\* dyn_fiber_start, and dyn_fiber_on_settled for a fiber that awaits.
Drives(f) ==
    /\ m.pc = "js" /\ "fiber" \in m.uses /\ fb.st[f] \in {"idle", "await"}
    /\ fb' \in dyn_fiber_drive(fb, f, FALSE)
    /\ poster' = IF f \in Offloaded(fb') THEN Ensured ELSE poster
    /\ UNCHANGED <<m, kicks, up, down, handler, rw, fds, wk, timers, sig, lent>>

SetTimer ==
    /\ m.pc = "js" /\ "timer" \in m.uses /\ timers < MaxTimers
    /\ timers' = timers + 1
    /\ UNCHANGED <<m, poster, kicks, up, down, handler, rw, fds, wk, fb, sig, lent>>

\* The callback returns, to the loop or to the rest of a batch of messages.
ScriptReturns ==
    /\ m.pc = "js"
    /\ m' = [m EXCEPT !.pc = m.back]
    /\ UNCHANGED <<poster, kicks, up, down, handler, rw, fds, wk, fb, timers, sig, lent>>

Leaves(ok) == [m EXCEPT !.pc = "shut", !.back = "top", !.port = {}, !.todo = {},
                        !.left = 0, !.gen = {}, !.quiet = FALSE, !.shut = TRUE, !.ok = ok]

\* A job fails or the deadline passes: js_std_loop ends with an error.
ScriptFails ==
    /\ m.pc = "js"
    /\ m' = Leaves(FALSE)
    /\ UNCHANGED <<poster, kicks, up, down, handler, rw, fds, wk, fb, timers, sig, lent>>

Script ==
    \/ \E w \in Worker :
          \/ \E listens \in BOOLEAN : NewWorker(w, listens)
          \/ SetOnMessage(w) \/ ClearOnMessage(w)
          \/ \E n \in Sizes : PostChecks(w, n)
    \/ PostAppends
    \/ \E d \in File : Watch(d) \/ free_rw_handler(d) \/ \E now \in {"quiet", "bad"} : Uses(d, now)
    \/ \E f \in Fiber : Drives(f)
    \/ SetTimer
    \/ ScriptReturns \/ ScriptFails

-----------------------------------------------------------------------------
(* js_os_poll: what comes before the wait *)

\* A pending signal is served first, and nothing else in that turn.
SignalTurn ==
    /\ m.pc = "top" /\ sig.pending
    /\ sig' = [sig EXCEPT !.pending = FALSE]
    /\ m' = [m EXCEPT !.pc = "js"]
    /\ UNCHANGED <<poster, kicks, up, down, handler, rw, fds, wk, fb, timers, lent>>

\* js_loop_run_posts: the flag, the pipe, the list, then the nodes.  Called
\* before the wait it gives up when the flag was clear.
Unflagged(readable) ==
    /\ poster' = [poster EXCEPT !.pending = FALSE]
    /\ m' = [m EXCEPT !.pc = IF poster.pending \/ readable THEN "drain"
                             ELSE IF m.shut THEN "wait" ELSE "check",
                      !.quiet = ~readable, !.polled = FALSE, !.timed = FALSE]
    /\ UNCHANGED <<kicks, up, down, handler, rw, fds, wk, fb, timers, sig, lent>>

PostsTurn == m.pc = "top" /\ ~sig.pending /\ Unflagged(FALSE)

Drains ==
    /\ m.pc = "drain"
    /\ poster' = [poster EXCEPT !.byte = FALSE]
    /\ m' = [m EXCEPT !.pc = "take"]
    /\ UNCHANGED <<kicks, up, down, handler, rw, fds, wk, fb, timers, sig, lent>>

\* Mutant: one node is taken at a time.
TakesHead ==
    /\ m.pc = "take"
    /\ poster' = [poster EXCEPT !.list = IF @ = <<>> THEN @ ELSE Tail(@)]
    /\ m' = [m EXCEPT !.pc = "run", !.batch = IF poster.list = <<>> THEN <<>>
                                               ELSE <<Head(poster.list)>>,
                      !.quiet = @ /\ poster.list = <<>>]
    /\ UNCHANGED <<kicks, up, down, handler, rw, fds, wk, fb, timers, sig, lent>>

Takes ==
    /\ m.pc = "take"
    /\ poster' = [poster EXCEPT !.list = <<>>]
    /\ m' = [m EXCEPT !.pc = "run", !.batch = poster.list,
                      !.quiet = @ /\ poster.list = <<>>]
    /\ UNCHANGED <<kicks, up, down, handler, rw, fds, wk, fb, timers, sig, lent>>

Released(b, f) == [Now(b, f, "js") EXCEPT !.holds = IF @ > 0 THEN @ - 1 ELSE 0]

\* dyn_fiber_back_on_js
BackOnJs ==
    /\ m.pc = "run" /\ m.batch # <<>>
    /\ fb' \in dyn_fiber_drive(Released(fb, Head(m.batch)), Head(m.batch), m.shut)
    /\ m' = [m EXCEPT !.pc = "start", !.batch = Tail(@)]
    /\ UNCHANGED <<poster, kicks, up, down, handler, rw, fds, wk, timers, sig, lent>>

\* Mutant: the last thread is never used.
MayStartEarly == fb.waitq # <<>> /\ (m.shut \/ Threads(fb) + 1 < MaxThreads)

MayStart == fb.waitq # <<>> /\ (m.shut \/ Threads(fb) < MaxThreads)

StartWaiting ==
    /\ m.pc = "start" /\ MayStart
    /\ fb' \in StartsFirst(fb, m.shut)
    /\ UNCHANGED <<m, poster, kicks, up, down, handler, rw, fds, wk, timers, sig, lent>>

StartsNone ==
    /\ m.pc = "start" /\ ~MayStart
    /\ m' = [m EXCEPT !.pc = "run"]
    /\ UNCHANGED <<poster, kicks, up, down, handler, rw, fds, wk, fb, timers, sig, lent>>

\* Nothing ran before the wait: the loop goes on to its checks.  Otherwise
\* js_std_loop runs the jobs the nodes made, which is script again.
PostsDone ==
    /\ m.pc = "run" /\ m.batch = <<>>
    /\ m' = [m EXCEPT !.pc = CASE m.shut -> IF m.quiet THEN "wait" ELSE "shut"
                             [] OTHER -> IF m.quiet THEN "check" ELSE "js",
                      !.quiet = FALSE]
    /\ UNCHANGED <<poster, kicks, up, down, handler, rw, fds, wk, fb, timers, sig, lent>>

\* Mutant: the holds are not looked at.
UnownedByTimers == timers = 0 /\ rw = {}

Unowed == timers = 0 /\ fb.holds = 0 /\ rw = {}

\* The loop ends when nothing holds it, and, ports or not, when no Worker is
\* left and no port has a message.
Over == Unowed /\ (handler = {} \/ (Live = {} /\ Pending = {}))

LoopEnds ==
    /\ m.pc = "check" /\ Over
    /\ m' = Leaves(TRUE)
    /\ UNCHANGED <<poster, kicks, up, down, handler, rw, fds, wk, fb, timers, sig, lent>>

\* Without a Worker left the loop drops its references to the Worker objects;
\* one that nothing else refers to takes its port with it.
DropsRefs ==
    handler' \in IF Live = {} /\ Pending = {} THEN SUBSET handler ELSE {handler}

\* A due timer is served before the wait.  When the slice for timers is spent
\* (JS_TIMER_IO_SLICE_MS) the loop looks at its descriptors first.
TimerTurn ==
    /\ m.pc = "check" /\ ~Over /\ timers > 0
    /\ DropsRefs
    /\ timers' = timers - 1
    /\ m' = [m EXCEPT !.pc = "js", !.quiet = FALSE]
    /\ UNCHANGED <<poster, kicks, up, down, rw, fds, wk, fb, sig, lent>>

GoesOn ==
    /\ m.pc = "check" /\ ~Over
    /\ DropsRefs
    /\ m' = [m EXCEPT !.pc = "set", !.quiet = FALSE]
    /\ UNCHANGED <<poster, kicks, up, down, rw, fds, wk, fb, timers, sig, lent>>

\* The poll set: every port, and the poster if something may be posted to it.
\* The live Workers are counted again here.  Without the poster in the set a
\* live Worker or a signal handler bounds the wait.
PollSet ==
    LET workers == Live # {}
        polled == poster.state = "open" /\ (fb.holds > 0 \/ workers \/ sig.set)
    IN /\ m.pc = "set"
       /\ m' = [m EXCEPT !.pc = "poll", !.polled = polled,
                         !.timed = timers > 0 \/ (~polled /\ (workers \/ sig.set))]
       /\ UNCHANGED <<poster, kicks, up, down, handler, rw, fds, wk, fb, timers, sig, lent>>

-----------------------------------------------------------------------------
(* js_os_poll: what comes after the wait *)

PosterReady == m.polled /\ poster.byte
FileReady == {d \in rw : fds[d] # "quiet"}
PortReady == {w \in handler : up[w].waker}

WakesForPosts == m.pc = "poll" /\ PosterReady /\ Unflagged(TRUE)

\* Ready descriptors keep the ports waiting.
WakesForFiles ==
    /\ m.pc = "poll" /\ ~PosterReady /\ FileReady # {}
    /\ m' = [m EXCEPT !.pc = "files", !.todo = FileReady, !.left = Batch,
                      !.polled = FALSE, !.timed = FALSE]
    /\ UNCHANGED <<poster, kicks, up, down, handler, rw, fds, wk, fb, timers, sig, lent>>

\* The first port in the list that is ready: any of them.
WakesForPort(w) ==
    /\ m.pc = "poll" /\ ~PosterReady /\ FileReady = {} /\ w \in PortReady
    /\ m' = [m EXCEPT !.pc = "msgs", !.port = {w}, !.left = Batch,
                      !.polled = FALSE, !.timed = FALSE]
    /\ UNCHANGED <<poster, kicks, up, down, handler, rw, fds, wk, fb, timers, sig, lent>>

\* The wait times out, or a signal interrupts it.
WakesForNothing ==
    /\ m.pc = "poll" /\ m.timed /\ ~PosterReady /\ FileReady = {} /\ PortReady = {}
    /\ m' = [m EXCEPT !.pc = "js", !.polled = FALSE, !.timed = FALSE]
    /\ UNCHANGED <<poster, kicks, up, down, handler, rw, fds, wk, fb, timers, sig, lent>>

\* Mutant: a handler that a callback drops does not end the batch.
FilesOverAll == m.todo = {} \/ m.left = 0

\* js_rw_fire, for each descriptor of the wait that was ready.
FilesOver == m.todo = {} \/ m.left = 0 \/ "rw" \in m.gen

FileFires(d) ==
    /\ m.pc = "files" /\ ~FilesOver /\ d \in m.todo /\ fds[d] # "bad"
    /\ m' = [m EXCEPT !.pc = "js", !.back = "files", !.todo = @ \ {d}, !.left = @ - 1]
    /\ UNCHANGED <<poster, kicks, up, down, handler, rw, fds, wk, fb, timers, sig, lent>>

\* A descriptor that is none loses its handler.
FileDropped(d) ==
    /\ m.pc = "files" /\ ~FilesOver /\ d \in m.todo /\ fds[d] = "bad"
    /\ rw' = rw \ {d}
    /\ m' = [m EXCEPT !.todo = @ \ {d}]
    /\ UNCHANGED <<poster, kicks, up, down, handler, fds, wk, fb, timers, sig, lent>>

\* handle_posted_message, up to Batch times, each with its callback.
MessagesOver == m.left = 0 \/ m.gen # {} \/ \E w \in m.port : up[w].q = <<>>

Message(w) ==
    /\ m.pc = "msgs" /\ ~MessagesOver /\ w \in m.port
    /\ up' = [up EXCEPT ![w] = Get(@)]
    /\ m' = [m EXCEPT !.pc = "js", !.back = "msgs", !.left = @ - 1]
    /\ UNCHANGED <<poster, kicks, down, handler, rw, fds, wk, fb, timers, sig, lent>>

BatchDone ==
    /\ \/ m.pc = "files" /\ FilesOver
       \/ m.pc = "msgs" /\ MessagesOver
    /\ m' = [m EXCEPT !.pc = "js", !.back = "top", !.port = {}, !.todo = {}, !.left = 0,
                      !.gen = {}]
    /\ UNCHANGED <<poster, kicks, up, down, handler, rw, fds, wk, fb, timers, sig, lent>>

Loop ==
    \/ SignalTurn \/ PostsTurn \/ Drains \/ Takes \/ BackOnJs \/ StartWaiting \/ StartsNone
    \/ PostsDone \/ LoopEnds \/ TimerTurn \/ GoesOn \/ PollSet
    \/ WakesForPosts \/ WakesForFiles \/ WakesForNothing
    \/ \E w \in Worker : WakesForPort(w) \/ Message(w)
    \/ \E d \in File : FileFires(d) \/ FileDropped(d)
    \/ BatchDone

-----------------------------------------------------------------------------
(* js_std_free_handlers: dyn_fiber_shutdown, then the poster is freed *)

ShutWaiting ==
    /\ m.pc = "shut" /\ fb.waitq # <<>>
    /\ m' = [m EXCEPT !.pc = "start"]
    /\ UNCHANGED <<poster, kicks, up, down, handler, rw, fds, wk, fb, timers, sig, lent>>

\* js_std_loop_wait_posts, while a fiber is on a thread of its own.
ShutPosts ==
    /\ m.pc = "shut" /\ fb.waitq = <<>> /\ Offloaded(fb) # {}
    /\ Unflagged(FALSE)

ShutWakes == m.pc = "wait" /\ poster.byte /\ Unflagged(TRUE)

ShutTimesOut ==
    /\ m.pc = "wait" /\ ~poster.byte
    /\ m' = [m EXCEPT !.pc = "shut", !.quiet = FALSE]
    /\ UNCHANGED <<poster, kicks, up, down, handler, rw, fds, wk, fb, timers, sig, lent>>

\* A fiber that awaits is told that the runtime shuts down, and ends.
ShutAwaits(f) ==
    /\ m.pc = "shut" /\ fb.waitq = <<>> /\ Offloaded(fb) = {} /\ fb.st[f] = "await"
    /\ fb' = Now(fb, f, "done")
    /\ UNCHANGED <<m, poster, kicks, up, down, handler, rw, fds, wk, timers, sig, lent>>

\* js_loop_poster_free, under the mutex that a Worker's wake-up holds.
Freed ==
    /\ m.pc = "shut" /\ fb.waitq = <<>> /\ Offloaded(fb) = {}
    /\ InState(fb, {"await"}) = {}
    /\ \A w \in Worker : wk[w].pc # "write"
    /\ poster' = [poster EXCEPT !.state = IF @ = "open" THEN "freed" ELSE @]
    /\ m' = [m EXCEPT !.pc = "freed"]
    /\ UNCHANGED <<kicks, up, down, handler, rw, fds, wk, fb, timers, sig, lent>>

Shutdown ==
    \/ ShutWaiting \/ ShutPosts \/ ShutWakes \/ ShutTimesOut \/ Freed
    \/ \E f \in Fiber : ShutAwaits(f)

-----------------------------------------------------------------------------
(* Worker threads: worker_func around a loop of their own *)

WorkerChecks(w, n) ==
    /\ wk[w].pc = "run" /\ "port" \in m.uses /\ ~Full(up[w], n)
    /\ wk' = [wk EXCEPT ![w].pc = "send", ![w].send = n]
    /\ UNCHANGED <<m, poster, kicks, up, down, handler, rw, fds, fb, timers, sig, lent>>

WorkerAppends(w) ==
    /\ wk[w].pc = "send"
    /\ up' = [up EXCEPT ![w] = Put(@, wk[w].send)]
    /\ wk' = [wk EXCEPT ![w].pc = "run", ![w].send = 0]
    /\ UNCHANGED <<m, poster, kicks, down, handler, rw, fds, fb, timers, sig, lent>>

\* The Worker's loop serves its port; the callback may give the port up.
WorkerHandles(w, listens) ==
    /\ wk[w].pc = "run" /\ wk[w].handler /\ down[w].waker /\ down[w].q # <<>>
    /\ down' = [down EXCEPT ![w] = Get(@)]
    /\ wk' = [wk EXCEPT ![w].handler = listens]
    /\ UNCHANGED <<m, poster, kicks, up, handler, rw, fds, fb, timers, sig, lent>>

\* A fiber of the Worker takes a thread, and the thread ends.  A Worker that
\* has no call away takes one whatever the limit, and looking at the count and
\* adding to it are two steps: the limit is no guard here.
WorkerSpawns(w, c) ==
    /\ wk[w].pc = "run" /\ "fiber" \in m.uses
    /\ lent' = lent \cup {<<w, c>>}
    /\ UNCHANGED <<m, poster, kicks, up, down, handler, rw, fds, wk, fb, timers, sig>>

WorkerCallEnds(w, c) ==
    /\ <<w, c>> \in lent
    /\ lent' = lent \ {<<w, c>>}
    /\ UNCHANGED <<m, poster, kicks, up, down, handler, rw, fds, wk, fb, timers, sig>>

\* A loop that no port and no call holds ends, and at any time one that fails:
\* js_live_worker_threads goes down, and then js_main_loop_wake, the kick inside
\* under js_main_poster_mu.
WorkerEnds(w, ok) ==
    /\ wk[w].pc = "run"
    /\ ok => ~wk[w].handler /\ \A x \in lent : x[1] # w
    /\ wk' = [wk EXCEPT ![w].pc = "kick"]
    /\ UNCHANGED <<m, poster, kicks, up, down, handler, rw, fds, fb, timers, sig, lent>>

WorkerKicks(w) ==
    /\ wk[w].pc = "kick"
    /\ wk' = [wk EXCEPT ![w].pc = IF poster.state = "open" /\ ~poster.pending
                                  THEN "write" ELSE "gone"]
    /\ poster' = [poster EXCEPT !.pending = @ \/ poster.state = "open"]
    /\ UNCHANGED <<m, kicks, up, down, handler, rw, fds, fb, timers, sig, lent>>

WorkerWrites(w) ==
    /\ wk[w].pc = "write"
    /\ wk' = [wk EXCEPT ![w].pc = "gone"]
    /\ poster' = [poster EXCEPT !.byte = TRUE]
    /\ UNCHANGED <<m, kicks, up, down, handler, rw, fds, fb, timers, sig, lent>>

WorkerSteps(w) ==
    \/ WorkerAppends(w) \/ WorkerKicks(w) \/ WorkerWrites(w)
    \/ \E ok \in BOOLEAN : WorkerEnds(w, ok)
    \/ \E c \in WorkerCall : WorkerSpawns(w, c) \/ WorkerCallEnds(w, c)

-----------------------------------------------------------------------------
(* Fiber threads: dyn_fiber_thread *)

\* The call wants to be back on the loop's thread.
FiberLeaves(f) ==
    /\ fb.st[f] = "thread"
    /\ fb' = Now(fb, f, "leaving")
    /\ UNCHANGED <<m, poster, kicks, up, down, handler, rw, fds, wk, timers, sig, lent>>

\* Mutant: the loop is not woken.
FiberPostsSilently(f) ==
    /\ fb.st[f] = "leaving"
    /\ fb' = Now(fb, f, "posted")
    /\ poster' = [poster EXCEPT !.list = Append(@, f)]
    /\ UNCHANGED <<m, kicks, up, down, handler, rw, fds, wk, timers, sig, lent>>

\* js_std_loop_post appends the node under the poster's mutex and kicks.
FiberPosts(f) ==
    /\ fb.st[f] = "leaving" /\ kicks.appended + kicks.writing < MaxKicks
    /\ fb' = Now(fb, f, "posted")
    /\ poster' = [poster EXCEPT !.list = Append(@, f)]
    /\ kicks' = [kicks EXCEPT !.appended = @ + 1]
    /\ UNCHANGED <<m, up, down, handler, rw, fds, wk, timers, sig, lent>>

\* js_loop_poster_kick writes only if it has set the flag.
FiberKicks ==
    /\ kicks.appended > 0 /\ poster.state = "open"
    /\ kicks' = [appended |-> kicks.appended - 1,
                 writing |-> IF poster.pending THEN kicks.writing ELSE kicks.writing + 1]
    /\ poster' = [poster EXCEPT !.pending = TRUE]
    /\ UNCHANGED <<m, up, down, handler, rw, fds, wk, fb, timers, sig, lent>>

FiberWrites ==
    /\ kicks.writing > 0 /\ poster.state = "open"
    /\ kicks' = [kicks EXCEPT !.writing = @ - 1]
    /\ poster' = [poster EXCEPT !.byte = TRUE]
    /\ UNCHANGED <<m, up, down, handler, rw, fds, wk, fb, timers, sig, lent>>

-----------------------------------------------------------------------------
(* Signals and the clock: external *)

FileBecomesReady(d) ==
    /\ d \in m.uses /\ fds[d] = "quiet"
    /\ fds' = [fds EXCEPT ![d] = "ready"]
    /\ UNCHANGED <<m, poster, kicks, up, down, handler, rw, wk, fb, timers, sig, lent>>

\* os_signal_handler sets the bit and writes to the poster's pipe itself.
Signal ==
    /\ sig.set /\ sig.sent < MaxSignals /\ poster.state = "open"
    /\ sig' = [sig EXCEPT !.pending = TRUE, !.sent = @ + 1]
    /\ poster' = [poster EXCEPT !.byte = TRUE]
    /\ UNCHANGED <<m, kicks, up, down, handler, rw, fds, wk, fb, timers, lent>>

-----------------------------------------------------------------------------
Next ==
    \/ Script \/ Loop \/ Shutdown
    \/ \E w \in Worker :
          \/ \E n \in Sizes : WorkerChecks(w, n)
          \/ \E listens \in BOOLEAN : WorkerHandles(w, listens)
          \/ WorkerSteps(w)
    \/ \E f \in Fiber : FiberLeaves(f) \/ FiberPosts(f)
    \/ FiberKicks \/ FiberWrites
    \/ Signal
    \/ \E d \in File : FileBecomesReady(d)

\* The main thread runs and its script returns; a thread that has something
\* to hand over goes on; calls return.  With a descriptor or a port to look at
\* the timers do not keep the loop from its wait for ever (JS_TIMER_IO_SLICE_MS).
Fairness ==
    /\ WF_vars(Loop \/ Shutdown) /\ SF_vars(ScriptReturns) /\ WF_vars(PostAppends)
    /\ \A w \in Worker : WF_vars(WorkerAppends(w) \/ WorkerKicks(w) \/ WorkerWrites(w))
    /\ \A w \in Worker, c \in WorkerCall : WF_vars(WorkerCallEnds(w, c))
    /\ \A f \in Fiber : WF_vars(FiberLeaves(f)) /\ SF_vars(FiberPosts(f))
    /\ SF_vars(GoesOn /\ (rw # {} \/ handler # {}))
    /\ WF_vars(FiberKicks) /\ WF_vars(FiberWrites)

Spec == Init /\ [][Next]_vars
FairSpec == Spec /\ Fairness

-----------------------------------------------------------------------------
(* Properties *)

\* Every variable has the shape of what it stands for.
TypeOK ==
    /\ up \in [Worker -> Pipe] /\ down \in [Worker -> Pipe]
    /\ handler \in SUBSET Worker
    /\ fb.st \in [Fiber -> FiberState] /\ fb.waitq \in Seq(Fiber) /\ fb.holds \in Nat
    /\ poster.list \in Seq(Fiber) /\ m.batch \in Seq(Fiber)
    /\ timers \in 0..MaxTimers /\ lent \subseteq Worker \X WorkerCall

Total(q) == LET f[i \in 0..Len(q)] == IF i = 0 THEN 0 ELSE f[i - 1] + q[i] IN f[Len(q)]

\* A pipe's waker is up exactly while a message waits: a lost one would leave
\* messages lying, and js_waker_clear would block for ever in read(), with the
\* queue's mutex held, if there were none to clear.  queued_bytes is what the
\* messages hold, and never more than the limit, although the limit is checked
\* in one critical section and the message appended in another.
PipesSound ==
    \A p \in {up[w] : w \in Worker} \cup {down[w] : w \in Worker} :
        /\ p.waker <=> p.q # <<>>
        /\ p.bytes = Total(p.q)
        /\ p.bytes <= QueueMax

\* When js_std_loop ends by itself no call of the script is on a thread or on
\* its way back, and no port has a message or a Worker that could still send
\* one.  A port by itself does not hold the loop, whatever dynajs.d.ts:6380 says
\* of one that is live, nor does a call that waits for a thread: dyn_fiber_shutdown
\* runs that one, and no job that it makes runs after it.
EndOwesNothing ==
    m.shut /\ m.ok =>
        /\ InState(fb, {"thread", "leaving", "posted"}) = {}
        /\ poster.list = <<>>
        /\ \A w \in handler : up[w].q = <<>> /\ w \notin Live

\* A call waits for a thread, and none is away whose return would start it
\* (dyn_fiber_start_waiting is called nowhere else).
Stranded == fb.waitq # <<>> /\ ~m.shut /\ m.pc # "start" /\ Offloaded(fb) = {}

\* A call that waits has a returning call in front of it that starts it.  It
\* loses the last one only in one way: when that one came back the calls of
\* Workers had all the threads there are, for dyn_fiber_threads_live is one
\* count for the process, and a Worker's call does not start a waiter of the
\* main thread when it ends.
StrandedByWorkersOnly ==
    [][~Stranded /\ Stranded' => m.pc = "start" /\ Cardinality(lent) >= MaxThreads]_vars

\* In a batch, what is served next is still registered: a callback that drops
\* a handler or a port ends the batch (rw_gen, port_gen).
BatchIsCurrent ==
    /\ m.pc = "files" /\ ~FilesOver => m.todo \subseteq rw
    /\ m.pc = "msgs" /\ ~MessagesOver => m.port \subseteq handler

\* The flag of the poster is set, its pipe is empty and nobody is about to
\* write: a post that comes now does not wake the loop.
Deaf == /\ poster.pending /\ ~poster.byte /\ kicks.writing = 0
        /\ \A w \in Worker : wk[w].pc # "write"

\* A message to a port with a handler is served, unless the port is given up
\* or the loop ends, or the loop never gets to its ports: it goes back to the
\* script after a turn with posts or ready descriptors, so that descriptors that
\* are ready whenever it looks keep every message waiting.
MessagesServed ==
    \A w \in Worker :
        \/ (w \in handler /\ up[w].q # <<>>)
               ~> (w \notin handler \/ m.shut \/ (m.pc = "js" /\ m.port = {w}))
        \/ []<>(m.pc \in {"files", "drain"})

\* A call comes back from its thread, and one that waits for a thread starts
\* unless it is stranded, or the loop sleeps on a pipe that nobody writes to.
FibersReturn ==
    \A f \in Fiber :
        /\ (fb.st[f] = "thread")
               ~> (fb.st[f] \notin {"thread", "leaving", "posted"} \/ (m.pc = "poll" /\ Deaf))
        /\ (fb.st[f] = "waiting")
               ~> (fb.st[f] # "waiting" \/ Stranded \/ (m.pc = "poll" /\ Deaf))

\* A runtime that shuts down gets done with it: every call that is on a thread
\* is waited for and the poster is freed.
ShutdownEnds == m.shut ~> m.pc = "freed"

\* The loop never sleeps, without a timeout, on what is already there: a post,
\* a signal, or the end of its last Worker.
SleepIsWoken ==
    m.pc = "poll" /\ ~m.timed /\ (sig.pending \/ poster.list # <<>> \/ Over)
        => PosterReady \/ FileReady # {} \/ PortReady # {}
           \/ (kicks.appended + kicks.writing > 0 /\ ~Deaf)
           \/ \E w \in Worker : wk[w].pc \in {"kick", "write"}
=============================================================================
