---------------------------- MODULE TimerService ----------------------------
(***************************************************************************)
(* What core/dyn-timer.c promises its callers: a timer fires once, not     *)
(* before its deadline, in order of deadline and then of creation, unless  *)
(* its own handle cancelled it first.  A handle is good for ever: once its *)
(* timer is gone, cancelling with it does nothing.                         *)
(***************************************************************************)
EXTENDS Integers

VARIABLES
    armed,      \* the timers waiting: records with a deadline and a number
    fired,      \* the numbers of the timers that have fired
    cancelled,  \* the numbers of the timers that were cancelled
    clock       \* the monotonic clock, in milliseconds

vars == <<armed, fired, cancelled, clock>>

Numbers == {t.seq : t \in armed}
Before(t, u) == t.deadline < u.deadline \/ (t.deadline = u.deadline /\ t.seq < u.seq)

Init == armed = {} /\ fired = {} /\ cancelled = {} /\ clock \in Nat

Add(t) ==
    /\ t.deadline >= clock
    /\ t.seq \notin Numbers \cup fired \cup cancelled
    /\ armed' = armed \cup {t}
    /\ UNCHANGED <<fired, cancelled, clock>>

Cancel(t) ==
    /\ t \in armed
    /\ armed' = armed \ {t}
    /\ cancelled' = cancelled \cup {t.seq}
    /\ UNCHANGED <<fired, clock>>

Fire(t) ==
    /\ t \in armed
    /\ t.deadline <= clock
    /\ \A u \in armed \ {t} : Before(t, u)
    /\ armed' = armed \ {t}
    /\ fired' = fired \cup {t.seq}
    /\ UNCHANGED <<cancelled, clock>>

Tick == clock' > clock /\ UNCHANGED <<armed, fired, cancelled>>

Next ==
    \/ \E t \in armed' : Add(t)
    \/ \E t \in armed : Cancel(t) \/ Fire(t)
    \/ Tick

Spec == Init /\ [][Next]_vars
=============================================================================
