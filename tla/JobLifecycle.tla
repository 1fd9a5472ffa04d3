----------------------------- MODULE JobLifecycle -----------------------------
(***************************************************************************)
(* What the background job table promises its readers, without workers,    *)
(* leases or messages: a job is queued, handed out at most MaxAttempts     *)
(* times, and once it is over it stays as it ended.                        *)
(***************************************************************************)
EXTENDS Naturals

CONSTANTS Jobs, MaxAttempts

VARIABLES status, attempt

vars == <<status, attempt>>

Active == {"queued", "in_progress"}
Ended  == {"completed", "failed", "incomplete", "cancelled"}

Init ==
    /\ status = [j \in Jobs |-> "none"]
    /\ attempt = [j \in Jobs |-> 0]

Submit(j) ==
    /\ status[j] = "none"
    /\ status' = [status EXCEPT ![j] = "queued"]
    /\ UNCHANGED attempt

HandOut(j) ==
    /\ status[j] \in Active
    /\ attempt[j] < MaxAttempts
    /\ status' = [status EXCEPT ![j] = "in_progress"]
    /\ attempt' = [attempt EXCEPT ![j] = @ + 1]

End(j) ==
    /\ status[j] = "in_progress"
    /\ \E s \in Ended : status' = [status EXCEPT ![j] = s]
    /\ UNCHANGED attempt

Next == \E j \in Jobs : Submit(j) \/ HandOut(j) \/ End(j)

Spec == Init /\ [][Next]_vars
===============================================================================
