------------------------------ MODULE JobMailbox ------------------------------
(***************************************************************************)
(* What the grid promises about one job, whatever handles it: the          *)
(* coordinator of pygrid/testkit.py, whose handlers hold one lock from end *)
(* to end, does exactly these steps, job by job.  JobQueue is the worker's *)
(* coordinator, which has no lock, and is checked against this module.     *)
(***************************************************************************)
EXTENDS Integers

CONSTANTS
    Jobs,         \* job ids
    Blobs,        \* sealed results
    NoBlob,       \* result_b64: null
    MaxAttempts   \* MAX_ATTEMPTS, deliveries before a job is given up

VARIABLES
    status,       \* status[j], "absent" before the job is created
    attempts,     \* attempts[j], how often j was delivered
    lease,        \* lease[j], "live" until lease_until passes
    result        \* result[j], the stored result

vars == <<status, attempts, lease, result>>

Init ==
    /\ status = [j \in Jobs |-> "absent"]
    /\ attempts = [j \in Jobs |-> 0]
    /\ lease = [j \in Jobs |-> "lapsed"]
    /\ result = [j \in Jobs |-> NoBlob]

Accept(j) ==
    /\ status[j] = "absent"
    /\ status' = [status EXCEPT ![j] = "queued"]
    /\ UNCHANGED <<attempts, lease, result>>

Deliver(j) ==
    /\ status[j] \in {"queued", "running"}
    /\ lease[j] = "lapsed"
    /\ attempts[j] < MaxAttempts
    /\ status' = [status EXCEPT ![j] = "running"]
    /\ attempts' = [attempts EXCEPT ![j] = @ + 1]
    /\ lease' = [lease EXCEPT ![j] = "live"]
    /\ UNCHANGED result

Lapse(j) ==
    /\ lease[j] = "live"
    /\ lease' = [lease EXCEPT ![j] = "lapsed"]
    /\ UNCHANGED <<status, attempts, result>>

Finish(j, b) ==
    /\ status[j] = "running"
    /\ status' = [status EXCEPT ![j] = "done"]
    /\ lease' = [lease EXCEPT ![j] = "lapsed"]
    /\ result' = [result EXCEPT ![j] = b]
    /\ UNCHANGED attempts

GiveUp(j) ==
    /\ status[j] = "running"
    /\ lease[j] = "lapsed"
    /\ attempts[j] = MaxAttempts
    /\ status' = [status EXCEPT ![j] = "failed"]
    /\ UNCHANGED <<attempts, lease, result>>

Next ==
    \E j \in Jobs :
        \/ Accept(j)
        \/ Deliver(j)
        \/ Lapse(j)
        \/ \E b \in Blobs : Finish(j, b)
        \/ GiveUp(j)

Spec == Init /\ [][Next]_vars
===============================================================================
