----------------------------- MODULE JobService -----------------------------
(***************************************************************************)
(* What the worker pool promises its callers, without threads, rings or    *)
(* wake-ups: a job accepted on an open channel runs exactly once and is    *)
(* then reported exactly once, one report at a time per channel; closing a *)
(* channel waits for its queued and running jobs, and after it no job of   *)
(* the channel runs and none is reported.                                  *)
(***************************************************************************)
CONSTANTS Chan, JobId, NULL

VARIABLES
    status,   \* per job: "idle", "queued", "running", "finished", "reporting"
    owner,    \* per job that is not idle: the channel it was submitted on
    door      \* per channel: "absent", "open", "closing"

svars == <<status, owner, door>>

Init ==
    /\ status = [j \in JobId |-> "idle"]
    /\ owner = [j \in JobId |-> NULL]
    /\ door = [c \in Chan |-> "absent"]

Of(c, st) == {j \in JobId : owner[j] = c /\ status[j] = st}

\* The jobs in S go to st, and idle jobs belong to no channel.
Move(S, st) ==
    /\ status' = [j \in JobId |-> IF j \in S THEN st ELSE status[j]]
    /\ owner' = [j \in JobId |-> IF j \in S /\ st = "idle" THEN NULL ELSE owner[j]]

Open(c) ==
    /\ door[c] = "absent"
    /\ door' = [door EXCEPT ![c] = "open"]
    /\ UNCHANGED <<status, owner>>

Submit(j, c) ==
    /\ door[c] = "open"
    /\ status[j] = "idle"
    /\ status' = [status EXCEPT ![j] = "queued"]
    /\ owner' = [owner EXCEPT ![j] = c]
    /\ UNCHANGED door

Start(j) ==
    /\ status[j] = "queued"
    /\ Move({j}, "running")
    /\ UNCHANGED door

\* A job of a channel that is closing is not reported.
Complete(j) ==
    /\ status[j] = "running"
    /\ Move({j}, IF door[owner[j]] = "closing" THEN "idle" ELSE "finished")
    /\ UNCHANGED door

\* The report before it, if any, is over when a report begins.
Report(j) ==
    /\ status[j] = "finished"
    /\ door[owner[j]] = "open"
    /\ LET before == Of(owner[j], "reporting") IN
       /\ status' = [i \in JobId |-> IF i = j THEN "reporting"
                                     ELSE IF i \in before THEN "idle" ELSE status[i]]
       /\ owner' = [i \in JobId |-> IF i \in before THEN NULL ELSE owner[i]]
    /\ UNCHANGED door

Reported(j) ==
    /\ status[j] = "reporting"
    /\ Move({j}, "idle")
    /\ UNCHANGED door

Closing(c) ==
    /\ door[c] = "open"
    /\ Of(c, "reporting") = {}
    /\ door' = [door EXCEPT ![c] = "closing"]
    /\ UNCHANGED <<status, owner>>

\* What finished and was not reported is dropped.
Closed(C) ==
    /\ \A c \in C : Of(c, "queued") \cup Of(c, "running") \cup Of(c, "reporting") = {}
    /\ door' = [c \in Chan |-> IF c \in C THEN "absent" ELSE door[c]]
    /\ Move(UNION {Of(c, "finished") : c \in C}, "idle")

Next ==
    \/ \E c \in Chan : Open(c) \/ Closing(c) \/ Closed({c})
    \/ \E j \in JobId, c \in Chan : Submit(j, c)
    \/ \E j \in JobId : Start(j) \/ Complete(j) \/ Report(j) \/ Reported(j)
    \/ Closed(Chan)

Spec == Init /\ [][Next]_svars
=============================================================================
