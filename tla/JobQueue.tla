----------------------------- MODULE JobQueue ------------------------------
(***************************************************************************)
(* What the table transcode_jobs promises the rest of the program: jobs    *)
(* are handed out oldest first, each to one worker at a time, and only to  *)
(* be claimed again after a restart.  While Postgres is up (Reliable) a    *)
(* job that is running has a worker that will settle it; a statement that  *)
(* fails leaves it running until the next restart that requeues.           *)
(* VideoPipeline implements it.                                            *)
(***************************************************************************)
EXTENDS Integers

CONSTANTS
    Jobs, Holders, Nobody,
    Reliable    \* whether the statements that settle and requeue always succeed

VARIABLES
    state,      \* none, pending, running, done or failed
    stamp,      \* when the job was enqueued
    now,
    holder      \* the job each worker is on

vars == <<state, stamp, now, holder>>

Init ==
    /\ state = [j \in Jobs |-> "none"]
    /\ stamp = [j \in Jobs |-> 0]
    /\ now = 1
    /\ holder = [h \in Holders |-> Nobody]

Enqueue(j) ==
    /\ state[j] = "none"
    /\ stamp[j] = 0
    /\ state' = [state EXCEPT ![j] = "pending"]
    /\ stamp' = [stamp EXCEPT ![j] = now]
    /\ now' = now + 1
    /\ UNCHANGED holder

Take(h, j) ==
    /\ holder[h] = Nobody
    /\ \A g \in Holders : holder[g] # j
    /\ state[j] = "pending"
    /\ \A i \in Jobs : state[i] = "pending" => stamp[j] <= stamp[i]
    /\ state' = [state EXCEPT ![j] = "running"]
    /\ holder' = [holder EXCEPT ![h] = j]
    /\ UNCHANGED <<stamp, now>>

\* The worker gives its job back with its outcome, unless it was removed.
Settle(h, outcome) ==
    /\ holder[h] # Nobody
    /\ state' = IF state[holder[h]] = "none" THEN state
                ELSE [state EXCEPT ![holder[h]] = outcome]
    /\ holder' = [holder EXCEPT ![h] = Nobody]
    /\ UNCHANGED <<stamp, now>>

\* The statement that settles the job failed, which is not looked at.
Abandon(h) ==
    /\ ~Reliable
    /\ holder[h] # Nobody
    /\ holder' = [holder EXCEPT ![h] = Nobody]
    /\ UNCHANGED <<state, stamp, now>>

Remove(j) ==
    /\ state' = [state EXCEPT ![j] = "none"]
    /\ UNCHANGED <<stamp, now, holder>>

\* The requeue may fail too, which is only logged.
Reboot ==
    /\ \/ state' = [j \in Jobs |->
                        IF state[j] = "running" THEN "pending" ELSE state[j]]
       \/ ~Reliable /\ UNCHANGED state
    /\ holder' = [h \in Holders |-> Nobody]
    /\ UNCHANGED <<stamp, now>>

Next ==
    \/ \E j \in Jobs : Enqueue(j) \/ Remove(j)
    \/ \E h \in Holders : \E j \in Jobs : Take(h, j)
    \/ \E h \in Holders : \E outcome \in {"done", "failed"} : Settle(h, outcome)
    \/ \E h \in Holders : Abandon(h)
    \/ Reboot

Spec == Init /\ [][Next]_vars

\* A job that runs is some worker's, who will settle it: none is stranded in a
\* table that no restart has yet looked at.
RunningIsHeld ==
    Reliable =>
        \A j \in Jobs : state[j] = "running" => \E h \in Holders : holder[h] = j

=============================================================================
