------------------------------ MODULE Scheduler ------------------------------
(***************************************************************************)
(* What the timers of Client and Server promise, whatever the tables are   *)
(* they keep: a job is called only while it is scheduled, once if it was   *)
(* scheduled once, never again when it is gone, and one job at a time.     *)
(* A scheduled job may be withdrawn at any moment.                         *)
(*                                                                         *)
(* ClientTimers and ServerCallbacks implement this specification.          *)
(***************************************************************************)
CONSTANTS
    Jobs,      \* whatever can be called
    NoJob      \* nothing is being called

VARIABLES
    phase,     \* what each job waits for
    current    \* the job being called

vars == <<phase, current>>

Scheduled == {"once", "repeat"}
Phases == Scheduled \cup {"idle", "gone"}

Init ==
    /\ phase = [j \in Jobs |-> "idle"]
    /\ current = NoJob

(* The phases of a job that nobody schedules and nobody calls.             *)
Lapsing(p) ==
    {p, "gone"} \cup (IF p \in Scheduled THEN {"idle"} ELSE {})

OthersLapse(J) == \A j \in Jobs \ J : phase'[j] \in Lapsing(phase[j])

(* A job is scheduled; others may lapse on the way.                        *)
Schedule(j) ==
    /\ phase[j] = "idle"
    /\ phase' \in [Jobs -> Phases]
    /\ phase'[j] \in Scheduled
    /\ OthersLapse({j})
    /\ UNCHANGED current

Call(j) ==
    /\ current = NoJob
    /\ phase[j] \in Scheduled
    /\ current' = j
    /\ phase' = [phase EXCEPT ![j] = IF @ = "once" THEN "idle" ELSE @]

(* Jobs are withdrawn or retired, possibly as the current one returns.     *)
Lapse ==
    /\ phase' \in [Jobs -> Phases]
    /\ OthersLapse({})
    /\ current' \in {current, NoJob}

Next ==
    \/ \E j \in Jobs : Schedule(j)
    \/ \E j \in Jobs : Call(j)
    \/ Lapse

Spec == Init /\ [][Next]_vars
=============================================================================
