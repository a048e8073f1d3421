------------------------------ MODULE NodeAgent -------------------------------
(***************************************************************************)
(* One node's agent (pygrid/node.py) and the coordinator it polls: the run *)
(* loop, registration and its loss, a pull of a batch, one job after       *)
(* another, and what happens when the network, the engine or the process   *)
(* fails.  The coordinator's handlers are atomic here; JobQueue is where   *)
(* they are taken apart.                                                   *)
(*                                                                         *)
(* Abstractions.  Seals, receipts and watts do not steer the loop.  A      *)
(* poison job is one whose processing always raises.  A request that times *)
(* out may never arrive, or be served at any later moment.  When a         *)
(* heartbeat is due is left open.  The listing of a pull reaches every     *)
(* entry: its limit is in JobQueue.                                        *)
(***************************************************************************)
EXTENDS Integers, FiniteSets

CONSTANTS
    Jobs,         \* the jobs sent to this node; their order is the queue's
    Poison,       \* those whose processing raises
    MaxAttempts,  \* MAX_ATTEMPTS
    PullMax,      \* PULL_MAX
    MaxFaults     \* bound on faults: lost answers, crashes, engine errors

ASSUME AgentAssumption ==
    /\ Jobs \subseteq Nat /\ IsFiniteSet(Jobs) /\ Poison \subseteq Jobs
    /\ {MaxAttempts, PullMax} \subseteq Nat \ {0}
    /\ MaxFaults \in Nat

VARIABLES
    known,          \* the coordinator holds the node's record
    job,            \* job[j], the coordinator's record of j
    registered,     \* NodeAgent.registered
    pc,             \* what the loop is about to do
    batch,          \* the envelopes pulled and not yet processed
    completed,      \* jobs run_once has counted, over all its runs
    lateRegisters,  \* requests the agent gave up waiting for that the
    latePulls,      \* coordinator may still serve
    lateResults,
    faults

coord == <<known, job>>
agent == <<registered, pc, batch, completed>>
late  == <<lateRegisters, latePulls, lateResults>>
vars  == <<coord, agent, late, faults>>

Job == [status : {"absent", "queued", "running", "done", "failed"},
        attempts : 0..MaxAttempts, lease : {"live", "lapsed"}]

\* "register" goes on to the pull of run_once, "reregister" to the second try
\* of a pull that was answered 404.
Pcs == {"idle", "register", "reregister", "heartbeat", "pull", "repull", "work"}

TypeOK ==
    /\ known \in BOOLEAN
    /\ job \in [Jobs -> Job]
    /\ registered \in BOOLEAN
    /\ pc \in Pcs
    /\ batch \subseteq Jobs
    /\ completed \in Nat
    /\ lateRegisters \in Nat /\ latePulls \in Nat /\ lateResults \subseteq Jobs
    /\ faults \in 0..MaxFaults

Init ==
    /\ known = FALSE
    /\ job = [j \in Jobs |-> [status |-> "absent", attempts |-> 0, lease |-> "lapsed"]]
    /\ registered = FALSE
    /\ pc = "idle"
    /\ batch = {}
    /\ completed = 0
    /\ lateRegisters = 0 /\ latePulls = 0 /\ lateResults = {}
    /\ faults = 0

Fault == faults < MaxFaults /\ faults' = faults + 1

\* run_forever catches the exception and sleeps.
Raises == pc' = "idle" /\ UNCHANGED <<registered, batch, completed>>

\* The process dies and is started again.
Restarts ==
    pc' = "idle" /\ registered' = FALSE /\ batch' = {} /\ UNCHANGED completed
-------------------------------------------------------------------------------
(* The coordinator's handlers. *)

Lapsed(j) == job[j].status = "running" /\ job[j].lease = "lapsed"

\* Mutated form: one delivery too many.
DeliverableOnceMore(j) ==
    job[j].status = "queued" \/ (Lapsed(j) /\ job[j].attempts <= MaxAttempts)

Deliverable(j) ==
    job[j].status = "queued" \/ (Lapsed(j) /\ job[j].attempts < MaxAttempts)

\* Mutated form: there is no last attempt.
ExhaustedNever(j) == FALSE
Exhausted(j) == Lapsed(j) /\ job[j].attempts >= MaxAttempts

\* The walk stops at the entry that finds the reply full.
Visited == {j \in Jobs : Cardinality({i \in Jobs : i < j /\ Deliverable(i)}) < PullMax}
Delivered == {j \in Visited : Deliverable(j)}

Leased(r) == [r EXCEPT !.status = "running", !.lease = "live", !.attempts = @ + 1]
Failed(r) == [r EXCEPT !.status = "failed"]

AfterPull ==
    [j \in Jobs |->
        CASE j \in Delivered -> Leased(job[j])
          [] j \in Visited /\ Exhausted(j) -> Failed(job[j])
          [] OTHER -> job[j]]

\* Mutated form: a result is refused once the lease has lapsed.
AcceptsUnderLease(j) == known /\ job[j].status = "running" /\ job[j].lease = "live"

Accepts(j) == known /\ job[j].status = "running"

Finished(j) ==
    [job EXCEPT ![j] = [@ EXCEPT !.status = "done", !.lease = "lapsed"]]
-------------------------------------------------------------------------------
(* run_once, one request at a time. *)

RunOnce ==
    /\ pc = "idle"
    /\ pc' \in IF registered THEN {"heartbeat", "pull"} ELSE {"register"}
    /\ UNCHANGED <<coord, registered, batch, completed, late, faults>>

Register ==
    /\ pc \in {"register", "reregister"}
    /\ known' = TRUE
    /\ registered' = TRUE
    /\ pc' = IF pc = "register" THEN "pull" ELSE "repull"
    /\ UNCHANGED <<job, batch, completed, late, faults>>

RegisterLost ==
    /\ pc \in {"register", "reregister"}
    /\ Fault
    /\ lateRegisters' = lateRegisters + 1
    /\ Raises \/ Restarts
    /\ UNCHANGED <<coord, latePulls, lateResults>>

Heartbeat ==
    /\ pc = "heartbeat"
    /\ registered' = known
    /\ pc' = IF known THEN "pull" ELSE "register"
    /\ UNCHANGED <<coord, batch, completed, late, faults>>

\* The post is lost, or arrives late and changes nothing told apart here.
HeartbeatLost ==
    /\ pc = "heartbeat"
    /\ Fault
    /\ Raises \/ Restarts
    /\ UNCHANGED <<coord, late>>

Pull ==
    /\ pc \in {"pull", "repull"}
    /\ known
    /\ job' = AfterPull
    /\ batch' = Delivered
    /\ pc' = IF Delivered = {} THEN "idle" ELSE "work"
    /\ UNCHANGED <<known, registered, completed, late, faults>>

\* Mutated form: the 404 is an error like any other.
PullUnknownRaises ==
    /\ pc \in {"pull", "repull"}
    /\ ~known
    /\ Raises
    /\ UNCHANGED <<coord, late, faults>>

\* 404: register and pull again, once; a second 404 raises.
PullUnknown ==
    /\ pc \in {"pull", "repull"}
    /\ ~known
    /\ IF pc = "pull" THEN registered' = FALSE /\ pc' = "reregister"
                      ELSE pc' = "idle" /\ UNCHANGED registered
    /\ UNCHANGED <<coord, batch, completed, late, faults>>

PullLost ==
    /\ pc \in {"pull", "repull"}
    /\ Fault
    /\ latePulls' = latePulls + 1
    /\ Raises \/ Restarts
    /\ UNCHANGED <<coord, lateRegisters, lateResults>>
-------------------------------------------------------------------------------
(* process, for the oldest envelope of the batch. *)

First(j) == pc = "work" /\ j \in batch /\ \A i \in batch : j <= i

Leaves(j) ==
    /\ batch' = batch \ {j}
    /\ pc' = IF batch = {j} THEN "idle" ELSE "work"
    /\ UNCHANGED registered

\* It raises before anything is posted: the job's own fault, or the engine's.
ProcessRaises(j) ==
    /\ First(j)
    /\ IF j \in Poison THEN UNCHANGED faults ELSE Fault
    /\ Leaves(j)
    /\ UNCHANGED <<coord, completed, late>>

\* Mutated form: the answer is not looked at.
PostUnchecked(j) ==
    /\ First(j) /\ j \notin Poison
    /\ job' = IF Accepts(j) THEN Finished(j) ELSE job
    /\ completed' = completed + 1
    /\ Leaves(j)
    /\ UNCHANGED <<known, late, faults>>

\* 200 for a stored result and for a duplicate; 404 and 409 raise.
Post(j) ==
    /\ First(j) /\ j \notin Poison
    /\ job' = IF Accepts(j) THEN Finished(j) ELSE job
    /\ completed' = IF known /\ job'[j].status = "done" THEN completed + 1 ELSE completed
    /\ Leaves(j)
    /\ UNCHANGED <<known, late, faults>>

PostLost(j) ==
    /\ First(j) /\ j \notin Poison
    /\ Fault
    /\ lateResults' = lateResults \cup {j}
    /\ (Leaves(j) /\ UNCHANGED completed) \/ Restarts
    /\ UNCHANGED <<coord, lateRegisters, latePulls>>

\* The process is killed, by a job or by its operator.
Crash ==
    /\ pc = "work"
    /\ Fault
    /\ Restarts
    /\ UNCHANGED <<coord, late>>
-------------------------------------------------------------------------------
(* The rest of the world: clients, time, the store, requests served late. *)

Submit(j) ==
    /\ job[j].status = "absent"
    /\ job' = [job EXCEPT ![j].status = "queued"]
    /\ UNCHANGED <<known, agent, late, faults>>

Lapse(j) ==
    /\ job[j].lease = "live"
    /\ job' = [job EXCEPT ![j].lease = "lapsed"]
    /\ UNCHANGED <<known, agent, late, faults>>

\* The node record expires or the store loses it.
Forget ==
    /\ known
    /\ Fault
    /\ known' = FALSE
    /\ UNCHANGED <<job, agent, late>>

LateRegister ==
    /\ lateRegisters > 0
    /\ lateRegisters' = lateRegisters - 1
    /\ known' = TRUE
    /\ UNCHANGED <<job, agent, latePulls, lateResults, faults>>

LatePull ==
    /\ latePulls > 0
    /\ latePulls' = latePulls - 1
    /\ job' = IF known THEN AfterPull ELSE job
    /\ UNCHANGED <<known, agent, lateRegisters, lateResults, faults>>

LateResult(j) ==
    /\ j \in lateResults
    /\ lateResults' = lateResults \ {j}
    /\ job' = IF Accepts(j) THEN Finished(j) ELSE job
    /\ UNCHANGED <<known, agent, lateRegisters, latePulls, faults>>
-------------------------------------------------------------------------------
AgentStep ==
    \/ RunOnce
    \/ Register \/ RegisterLost
    \/ Heartbeat \/ HeartbeatLost
    \/ Pull \/ PullUnknown \/ PullLost
    \/ \E j \in Jobs : ProcessRaises(j) \/ Post(j) \/ PostLost(j)
    \/ Crash

Next ==
    \/ AgentStep
    \/ \E j \in Jobs : Submit(j) \/ Lapse(j) \/ LateResult(j)
    \/ Forget \/ LateRegister \/ LatePull

Spec == Init /\ [][Next]_vars

\* The process runs its loop and leases run out; that faults end is MaxFaults.
FairSpec == Spec /\ WF_vars(AgentStep) /\ \A j \in Jobs : WF_vars(Lapse(j))
-------------------------------------------------------------------------------
(* What the agent and the coordinator owe a job. *)

\* A delivery of a job that is not poison is wasted only by a fault of its own:
\* neither a poison neighbour in the batch, nor a lease that runs out while the
\* batch is worked off, nor a request served late costs it the job.
GoodJobFailsOnlyByFaults ==
    \A j \in Jobs \ Poison : job[j].status = "failed" => faults >= MaxAttempts

\* What the agent counts as completed is done at the coordinator, counted once.
CompletedIsDone ==
    completed <= Cardinality({j \in Jobs : job[j].status = "done"})

\* Every job that is not poison gets done unless as many faults as it had
\* attempts befall it, also when the coordinator loses the node meanwhile.
GoodJobsGetDone ==
    \A j \in Jobs \ Poison :
        job[j].status = "queued" ~> job[j].status = "done" \/ faults >= MaxAttempts

\* A poison job is given up in the end and stops cycling.
PoisonIsGivenUp ==
    \A j \in Poison : job[j].status = "queued" ~> job[j].status = "failed"

\* Whatever the agent, the network and time do to a batch, each job of it takes
\* only the steps of JobMailbox: a pull served late delivers once more or gives
\* up, a result posted late ends a running job or changes nothing.
Mailbox(j) == INSTANCE JobMailbox WITH
    Jobs     <- {j},
    Blobs    <- {"result"},
    NoBlob   <- "none",
    status   <- [i \in {j} |-> job[i].status],
    attempts <- [i \in {j} |-> job[i].attempts],
    lease    <- [i \in {j} |-> job[i].lease],
    result   <- [i \in {j} |-> IF job[i].status = "done" THEN "result" ELSE "none"]

MailboxSteps ==
    /\ \A j \in Jobs : Mailbox(j)!Init
    /\ [][\A j \in Jobs : Mailbox(j)!Next \/ UNCHANGED job[j]]_vars
===============================================================================
