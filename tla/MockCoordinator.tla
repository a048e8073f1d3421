--------------------------- MODULE MockCoordinator ----------------------------
(***************************************************************************)
(* The coordinator of the test kit (pygrid/testkit.py), which stands in    *)
(* for the worker in the tests of client and agent: dictionaries, and one  *)
(* lock that a handler holds from its first look to its last write, so     *)
(* every handler is one action.                                            *)
(*                                                                         *)
(* Abstractions.  The keypairs of a node are the number of their           *)
(* generation.  A blob is what it is sealed to: a job's a generation of    *)
(* its node's keys, a result's the reply key of its submit.  A receipt is  *)
(* the generation that signed it.  A reply that changes nothing has no     *)
(* action.  Watts, neighborhoods and last_seen ride along, so a heartbeat  *)
(* is no step.  The member gate is CardGate and SignedRequest.             *)
(***************************************************************************)
EXTENDS Integers, FiniteSets

CONSTANTS
    Nodes,        \* node ids
    NoNode,       \* to_node of a job not yet created
    Jobs,         \* job ids, in the order of seq
    NoJob,        \* null
    Keys,         \* idempotency keys
    NoKey,        \* a submit without one
    MaxAttempts,  \* MAX_ATTEMPTS
    PullMax,      \* PULL_MAX
    MaxQueued     \* MAX_QUEUED_PER_NODE

ASSUME MockAssumption ==
    /\ Jobs \subseteq Nat \ {0} /\ IsFiniteSet(Jobs) /\ NoJob = 0
    /\ NoNode \notin Nodes /\ NoKey \notin Keys
    /\ {MaxAttempts, PullMax, MaxQueued} \subseteq Nat \ {0}

VARIABLES
    nodes,        \* nodes[n]: the generation of keys registered, 0 for none
    jobs,         \* jobs[j], the record of j
    idempotency,  \* idempotency[<<n, x>>], the job under key x of node n
    jobsDone      \* jobs_done

mock == <<nodes, jobs, idempotency, jobsDone>>

Job == [status : {"absent", "queued", "running", "done", "failed"},
        to : Nodes \cup {NoNode}, sealed : Nat, reply : Nat,
        attempts : 0..MaxAttempts, lease : {"live", "lapsed"}, receipt : Nat]

MockTypeOK ==
    /\ nodes \in [Nodes -> Nat]
    /\ jobs \in [Jobs -> Job]
    /\ idempotency \in [Nodes \X Keys -> Jobs \cup {NoJob}]
    /\ jobsDone \in Nat

Absent == [status |-> "absent", to |-> NoNode, sealed |-> 0, reply |-> 0,
           attempts |-> 0, lease |-> "lapsed", receipt |-> 0]

MockInit ==
    /\ nodes = [n \in Nodes |-> 0]
    /\ jobs = [j \in Jobs |-> Absent]
    /\ idempotency = [nx \in Nodes \X Keys |-> NoJob]
    /\ jobsDone = 0
-------------------------------------------------------------------------------
(* Nodes. *)

Registered(n) == nodes[n] # 0

\* An upsert that verifies nothing: whoever registers last has the id.
Register(n, k) ==
    /\ nodes' = [nodes EXCEPT ![n] = k]
    /\ UNCHANGED <<jobs, idempotency, jobsDone>>
-------------------------------------------------------------------------------
(* Jobs. *)

Unfinished(n) == {j \in Jobs : jobs[j].to = n /\ jobs[j].status \in {"queued", "running"}}

Full(n) == Cardinality(Unfinished(n)) >= MaxQueued

Known(n, x) == x # NoKey /\ idempotency[<<n, x>>] # NoJob

\* A new record takes the next seq.
NextSeq(j) == \A i \in Jobs : i < j <=> jobs[i].status # "absent"

Queued(n, sealed, reply) ==
    [status |-> "queued", to |-> n, sealed |-> sealed, reply |-> reply,
     attempts |-> 0, lease |-> "lapsed", receipt |-> 0]

\* Mutated form: a key means the same job whatever the node.
FiledForAll(n, x, j) ==
    [nx \in Nodes \X Keys |-> IF nx[2] = x THEN j ELSE idempotency[nx]]

\* A key is scoped to the node it came with.
Filed(n, x, j) ==
    IF x = NoKey THEN idempotency ELSE [idempotency EXCEPT ![<<n, x>>] = j]

\* The answer to the submit numbered reply names j.
CreateJob(n, x, sealed, reply, j) ==
    /\ Registered(n)
    /\ IF Known(n, x)
         THEN j = idempotency[<<n, x>>] /\ UNCHANGED <<jobs, idempotency>>
         ELSE /\ ~Full(n)
              /\ NextSeq(j)
              /\ jobs' = [jobs EXCEPT ![j] = Queued(n, sealed, reply)]
              /\ idempotency' = Filed(n, x, j)
    /\ UNCHANGED <<nodes, jobsDone>>

Refused(n, x) == ~Registered(n) \/ (~Known(n, x) /\ Full(n))

\* Mutated form: a running job is handed out again at once.
LapsedAtOnce(j) == jobs[j].status = "running"

Lapsed(j) == jobs[j].status = "running" /\ jobs[j].lease = "lapsed"

Deliverable(n, j) ==
    /\ jobs[j].to = n
    /\ jobs[j].status = "queued" \/ (Lapsed(j) /\ jobs[j].attempts < MaxAttempts)

\* The loop over the records ends at the one that finds the reply full.
Visited(n) ==
    {j \in Jobs : Cardinality({i \in Jobs : i < j /\ Deliverable(n, i)}) < PullMax}

AfterPull(n) ==
    [j \in Jobs |->
        IF jobs[j].to # n \/ j \notin Visited(n) THEN jobs[j]
        ELSE IF Deliverable(n, j)
          THEN [jobs[j] EXCEPT !.status = "running", !.lease = "live", !.attempts = @ + 1]
        ELSE IF Lapsed(j) THEN [jobs[j] EXCEPT !.status = "failed"]
        ELSE jobs[j]]

Pull(n) ==
    /\ Registered(n)
    /\ jobs' = AfterPull(n)
    /\ UNCHANGED <<nodes, idempotency, jobsDone>>

\* Only a running job takes a result, and with it its receipt.
Result(n, j, receipt) ==
    /\ jobs[j].to = n
    /\ IF jobs[j].status = "running"
         THEN /\ jobs' = [jobs EXCEPT ![j] = [@ EXCEPT !.status = "done", !.lease = "lapsed",
                                                       !.receipt = receipt]]
              /\ jobsDone' = jobsDone + 1
         ELSE UNCHANGED <<jobs, jobsDone>>
    /\ UNCHANGED <<nodes, idempotency>>

\* lease_until_ms passes, or the test kit's expire_lease ends it.
ExpireLease(j) ==
    /\ jobs[j].lease = "live"
    /\ jobs' = [jobs EXCEPT ![j].lease = "lapsed"]
    /\ UNCHANGED <<nodes, idempotency, jobsDone>>
===============================================================================
