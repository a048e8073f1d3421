------------------------------- MODULE JobQueue -------------------------------
(***************************************************************************)
(* The worker coordinator's job queue (coordinator/src/logic.js): submit,  *)
(* pull and result over a key-value store that has no compare-and-swap.    *)
(* Every await on the store is a step of its own, so requests interleave   *)
(* between any two store operations of a handler; what a handler computes  *)
(* between two awaits is part of the step of the first.                    *)
(*                                                                         *)
(* Abstractions.  A job record keeps the fields a branch reads.  The clock *)
(* is `lease`, "live" while lease_until > now; time may end it at any point*)
(* (LeaseLapse).  Signatures, cards and the node registry only decide      *)
(* whether a handler runs at all, and record ttls are left out.  A reply   *)
(* that changes nothing (a 404, 403 or 409, a duplicate result) is a       *)
(* stuttering step and has no action.                                      *)
(***************************************************************************)
EXTENDS Integers, FiniteSets

CONSTANTS
    Nodes,        \* registered nodes
    Conns,        \* requests one node may have in flight at once
    Clients,      \* submits that may be in flight at once
    Jobs,         \* job ids; their order is the order of the queue keys
    NoJob,        \* null
    Keys,         \* idempotency keys
    NoKey,        \* a submit without one
    Blobs,        \* sealed results
    NoBlob,       \* result_b64: null
    NoNode,       \* to_node of a job not yet created
    MaxAttempts,  \* MAX_ATTEMPTS
    PullMax,      \* PULL_MAX, envelopes in one pull reply
    PullScan,     \* index entries one pull lists, PULL_MAX * 4 in the code
    QueueCap,     \* MAX_QUEUED_PER_NODE
    MaxAborts     \* bound on handlers cut short, for the checker only

ASSUME JobsAssumption == Jobs \subseteq Nat \ {0} /\ NoJob = 0 /\ IsFiniteSet(Jobs)
ASSUME ClientsAssumption == IsFiniteSet(Clients)
ASSUME NullsAssumption ==
    NoKey \notin Keys /\ NoBlob \notin Blobs /\ NoNode \notin Nodes
ASSUME LimitsAssumption ==
    /\ {MaxAttempts, PullMax, PullScan, QueueCap} \subseteq Nat \ {0}
    /\ MaxAborts \in Nat

VARIABLES
    job,        \* job[j], the record under job:<j>
    index,      \* the jobs that have a queue:<to_node>:<created>:<j> key
    idem,       \* idem[n, x], the job under idem:<n>:<x>
    jobsDone,   \* __stats__:jobs_done
    h,          \* h[n, k], what node n's request k has reached
    c,          \* c[i], what submit i has reached
    acked,      \* the submits answered 200: target, key and job id returned
    aborts      \* handlers cut short so far

vars == <<job, index, idem, jobsDone, h, c, acked, aborts>>

Handlers == Nodes \X Conns

Statuses == {"absent", "queued", "running", "done", "failed"}

Record == [status : Statuses, node : Nodes \cup {NoNode},
           attempts : 0..MaxAttempts, lease : {"live", "lapsed"},
           result : Blobs \cup {NoBlob}]

NoRecord == [status |-> "absent", node |-> NoNode, attempts |-> 0,
             lease |-> "lapsed", result |-> NoBlob]

\* A pull in progress walks "next" -> "job" -> "lease" | "fail" | "drop" for
\* each listed entry; a result goes "put" -> "unindex" -> "count" -> "bump".
PullSteps == {"next", "job", "lease", "fail", "drop"}
ResultSteps == {"put", "unindex", "count", "bump"}

\* at: the job in hand, snap: the record read for it, todo: listed entries not
\* yet visited, sent: envelopes so far, blob: the posted result, cnt: the
\* counter as read.
Handler == [pc : {"idle"} \cup PullSteps \cup ResultSteps,
            at : Jobs \cup {NoJob}, snap : Record, todo : SUBSET Jobs,
            sent : Nat, blob : Blobs \cup {NoBlob}, cnt : Nat]

IdleHandler == [pc |-> "idle", at |-> NoJob, snap |-> NoRecord, todo |-> {},
                sent |-> 0, blob |-> NoBlob, cnt |-> 0]

Submit == [pc : {"idle", "backlog", "record", "index", "idem"},
           node : Nodes \cup {NoNode}, key : Keys \cup {NoKey},
           at : Jobs \cup {NoJob}]

IdleSubmit == [pc |-> "idle", node |-> NoNode, key |-> NoKey, at |-> NoJob]

Ack == [node : Nodes, key : Keys \cup {NoKey}, job : Jobs]

TypeOK ==
    /\ job \in [Jobs -> Record]
    /\ index \subseteq Jobs
    /\ idem \in [Nodes \X Keys -> Jobs \cup {NoJob}]
    /\ jobsDone \in Nat
    /\ h \in [Handlers -> Handler]
    /\ c \in [Clients -> Submit]
    /\ acked \subseteq Ack
    /\ aborts \in 0..MaxAborts

Init ==
    /\ job = [j \in Jobs |-> NoRecord]
    /\ index = {}
    /\ idem = [nk \in Nodes \X Keys |-> NoJob]
    /\ jobsDone = 0
    /\ h = [s \in Handlers |-> IdleHandler]
    /\ c = [i \in Clients |-> IdleSubmit]
    /\ acked = {}
    /\ aborts = 0
-------------------------------------------------------------------------------
(* The store as the handlers list it, and the records they write. *)

Queue(n) == {j \in index : job[j].node = n}

\* list({prefix, limit}): the oldest `limit` keys of a node's queue
Listed(n, limit) ==
    {j \in Queue(n) : Cardinality({i \in Queue(n) : i < j}) < limit}

\* Mutated form: refused only above the cap, which a limited listing never is.
FullAboveCap(n) == Cardinality(Listed(n, QueueCap)) > QueueCap

Full(n) == Cardinality(Listed(n, QueueCap)) >= QueueCap

Queued(n) == [NoRecord EXCEPT !.status = "queued", !.node = n]

\* Mutated form: a lapsed job goes back to queued on its way out.
LeasedThroughQueued(r) ==
    [r EXCEPT !.status = IF r.status = "running" THEN "queued" ELSE "running",
              !.attempts = @ + 1, !.lease = "live"]

Leased(r) == [r EXCEPT !.status = "running", !.attempts = @ + 1, !.lease = "live"]

Failed(r) == [r EXCEPT !.status = "failed"]

Finished(r, b) == [r EXCEPT !.status = "done", !.result = b, !.lease = "lapsed"]

\* How pull treats the record it read: where the walk goes next.
\* Mutated forms: done is not terminal; only running is not; a live lease is not
\* looked at; the last attempt is counted late.
TerminalFailedOnly(r) == r.status = "failed"
TerminalUnlessRunning(r) == r.status # "running"
PassedIgnoringLease(n, r) == r.node # n
ExhaustedLate(r) == r.status = "running" /\ r.attempts > MaxAttempts

Terminal(r) == r.status \in {"done", "failed"}
Passed(n, r) == r.node # n \/ (r.status = "running" /\ r.lease = "live")
Exhausted(r) == r.status = "running" /\ r.attempts >= MaxAttempts

PullBranch(n, r) ==
    CASE Terminal(r) -> "drop"
      [] ~Terminal(r) /\ Passed(n, r) -> "next"
      [] ~Terminal(r) /\ ~Passed(n, r) /\ Exhausted(r) -> "fail"
      [] OTHER -> "lease"
-------------------------------------------------------------------------------
(* POST /v1/jobs: handleSubmit. *)

\* The idempotency lookup; a hit is answered at once.
SubmitLookup(i, n, x) ==
    /\ c[i].pc = "idle"
    /\ IF x # NoKey /\ idem[<<n, x>>] # NoJob
         THEN /\ acked' = acked \cup {[node |-> n, key |-> x, job |-> idem[<<n, x>>]]}
              /\ UNCHANGED c
         ELSE /\ c' = [c EXCEPT ![i] = [IdleSubmit EXCEPT
                                          !.pc = "backlog", !.node = n, !.key = x]]
              /\ UNCHANGED acked
    /\ UNCHANGED <<job, index, idem, jobsDone, h, aborts>>

\* The queue is listed up to the cap; at the cap the answer is 429.
SubmitBacklog(i) ==
    /\ c[i].pc = "backlog"
    /\ c' = [c EXCEPT ![i] = IF Full(c[i].node) THEN IdleSubmit
                                                ELSE [@ EXCEPT !.pc = "record"]]
    /\ UNCHANGED <<job, index, idem, jobsDone, h, acked, aborts>>

\* A fresh id; any unused one, for ids are random and clocks differ per edge.
SubmitRecord(i, j) ==
    /\ c[i].pc = "record"
    /\ job[j].status = "absent"
    /\ job' = [job EXCEPT ![j] = Queued(c[i].node)]
    /\ c' = [c EXCEPT ![i] = [@ EXCEPT !.pc = "index", !.at = j]]
    /\ UNCHANGED <<index, idem, jobsDone, h, acked, aborts>>

Acknowledge(i) ==
    /\ acked' = acked \cup {[node |-> c[i].node, key |-> c[i].key, job |-> c[i].at]}
    /\ c' = [c EXCEPT ![i] = IdleSubmit]

SubmitIndex(i) ==
    /\ c[i].pc = "index"
    /\ index' = index \cup {c[i].at}
    /\ IF c[i].key = NoKey
         THEN Acknowledge(i)
         ELSE /\ c' = [c EXCEPT ![i].pc = "idem"]
              /\ UNCHANGED acked
    /\ UNCHANGED <<job, idem, jobsDone, h, aborts>>

\* Mutated form: the id is returned and the key never written.
SubmitIdemForgotten(i) ==
    /\ c[i].pc = "idem"
    /\ Acknowledge(i)
    /\ UNCHANGED <<job, index, idem, jobsDone, h, aborts>>

SubmitIdem(i) ==
    /\ c[i].pc = "idem"
    /\ idem' = [idem EXCEPT ![<<c[i].node, c[i].key>>] = c[i].at]
    /\ Acknowledge(i)
    /\ UNCHANGED <<job, index, jobsDone, h, aborts>>
-------------------------------------------------------------------------------
(* GET /v1/jobs/pull: handlePull, for the request s = <<n, k>>. *)

PullList(s) ==
    /\ h[s].pc = "idle"
    /\ h' = [h EXCEPT ![s] = [IdleHandler EXCEPT
                                !.pc = "next", !.todo = Listed(s[1], PullScan)]]
    /\ UNCHANGED <<job, index, idem, jobsDone, c, acked, aborts>>

\* The walk moves past the entry of job j.
Past(g, j) == [g EXCEPT !.pc = "next", !.todo = @ \ {j}]

Walking(s) == h[s].pc = "next" /\ h[s].todo # {} /\ h[s].sent < PullMax

\* The reply; what was leased on the way is what the node receives.
PullReply(s) ==
    /\ h[s].pc = "next"
    /\ ~Walking(s)
    /\ h' = [h EXCEPT ![s] = IdleHandler]
    /\ UNCHANGED <<job, index, idem, jobsDone, c, acked, aborts>>

\* The oldest listed entry is read.  One deleted since the listing is passed
\* over: the delete the code then issues finds nothing.
PullEntry(s) ==
    /\ Walking(s)
    /\ \E j \in h[s].todo :
          /\ \A i \in h[s].todo : j <= i
          /\ h' = [h EXCEPT ![s] = IF j \in index
                                     THEN [@ EXCEPT !.pc = "job", !.at = j]
                                     ELSE Past(@, j)]
    /\ UNCHANGED <<job, index, idem, jobsDone, c, acked, aborts>>

\* The record is read, and the branch taken on what was read.
PullJob(s) ==
    /\ h[s].pc = "job"
    /\ LET r == job[h[s].at]
           b == PullBranch(s[1], r)
       IN  h' = [h EXCEPT ![s] = IF b = "next"
                                   THEN Past(@, h[s].at)
                                   ELSE [@ EXCEPT !.pc = b, !.snap = r]]
    /\ UNCHANGED <<job, index, idem, jobsDone, c, acked, aborts>>

\* Mutated form: delivery is a handoff, the entry leaves the index with it.
PullLeaseHandsOff(s) ==
    /\ h[s].pc = "lease"
    /\ job' = [job EXCEPT ![h[s].at] = Leased(h[s].snap)]
    /\ index' = index \ {h[s].at}
    /\ h' = [h EXCEPT ![s] = [Past(@, h[s].at) EXCEPT !.sent = h[s].sent + 1]]
    /\ UNCHANGED <<idem, jobsDone, c, acked, aborts>>

PullLease(s) ==
    /\ h[s].pc = "lease"
    /\ job' = [job EXCEPT ![h[s].at] = Leased(h[s].snap)]
    /\ h' = [h EXCEPT ![s] = [Past(@, h[s].at) EXCEPT !.sent = h[s].sent + 1]]
    /\ UNCHANGED <<index, idem, jobsDone, c, acked, aborts>>

\* Mutated form: the entry goes, the record stays running.
PullFailUnrecorded(s) ==
    /\ h[s].pc = "fail"
    /\ h' = [h EXCEPT ![s].pc = "drop"]
    /\ UNCHANGED <<job, index, idem, jobsDone, c, acked, aborts>>

PullFail(s) ==
    /\ h[s].pc = "fail"
    /\ job' = [job EXCEPT ![h[s].at] = Failed(h[s].snap)]
    /\ h' = [h EXCEPT ![s].pc = "drop"]
    /\ UNCHANGED <<index, idem, jobsDone, c, acked, aborts>>

PullDrop(s) ==
    /\ h[s].pc = "drop"
    /\ index' = index \ {h[s].at}
    /\ h' = [h EXCEPT ![s] = Past(@, h[s].at)]
    /\ UNCHANGED <<job, idem, jobsDone, c, acked, aborts>>
-------------------------------------------------------------------------------
(* POST /v1/jobs/result: handleResult, then bumpJobsDone. *)

\* A node may post for any job; only its own, running, is taken further.
\* Mutated form: a result for a done job is stored again.
AcceptsDone(n, r) == r.node = n /\ r.status \in {"running", "done"}

Accepts(n, r) == r.node = n /\ r.status = "running"

ResultRead(s, j, b) ==
    /\ h[s].pc = "idle"
    /\ Accepts(s[1], job[j])
    /\ h' = [h EXCEPT ![s] = [IdleHandler EXCEPT
                                !.pc = "put", !.at = j, !.snap = job[j], !.blob = b]]
    /\ UNCHANGED <<job, index, idem, jobsDone, c, acked, aborts>>

ResultPut(s) ==
    /\ h[s].pc = "put"
    /\ job' = [job EXCEPT ![h[s].at] = Finished(h[s].snap, h[s].blob)]
    /\ h' = [h EXCEPT ![s].pc = "unindex"]
    /\ UNCHANGED <<index, idem, jobsDone, c, acked, aborts>>

\* Mutated form: the request ends there, and bumpJobsDone is never called.
ResultUnindexUncounted(s) ==
    /\ h[s].pc = "unindex"
    /\ index' = index \ {h[s].at}
    /\ h' = [h EXCEPT ![s] = IdleHandler]
    /\ UNCHANGED <<job, idem, jobsDone, c, acked, aborts>>

ResultUnindex(s) ==
    /\ h[s].pc = "unindex"
    /\ index' = index \ {h[s].at}
    /\ h' = [h EXCEPT ![s].pc = "count"]
    /\ UNCHANGED <<job, idem, jobsDone, c, acked, aborts>>

CountRead(s) ==
    /\ h[s].pc = "count"
    /\ h' = [h EXCEPT ![s] = [@ EXCEPT !.pc = "bump", !.cnt = jobsDone]]
    /\ UNCHANGED <<job, index, idem, jobsDone, c, acked, aborts>>

CountWrite(s) ==
    /\ h[s].pc = "bump"
    /\ jobsDone' = h[s].cnt + 1
    /\ h' = [h EXCEPT ![s] = IdleHandler]
    /\ UNCHANGED <<job, index, idem, c, acked, aborts>>
-------------------------------------------------------------------------------
(* The environment: a request cut short, and time. *)

\* A store operation throws or the isolate is evicted: no further step of the
\* request is taken, no reply is sent, what it wrote stays.
AbortRequest(s) ==
    /\ aborts < MaxAborts
    /\ h[s].pc # "idle"
    /\ h' = [h EXCEPT ![s] = IdleHandler]
    /\ aborts' = aborts + 1
    /\ UNCHANGED <<job, index, idem, jobsDone, c, acked>>

AbortSubmit(i) ==
    /\ aborts < MaxAborts
    /\ c[i].pc # "idle"
    /\ c' = [c EXCEPT ![i] = IdleSubmit]
    /\ aborts' = aborts + 1
    /\ UNCHANGED <<job, index, idem, jobsDone, h, acked>>

\* lease_until passes.
LeaseLapse(j) ==
    /\ job[j].lease = "live"
    /\ job' = [job EXCEPT ![j].lease = "lapsed"]
    /\ UNCHANGED <<index, idem, jobsDone, h, c, acked, aborts>>
-------------------------------------------------------------------------------
SubmitStep(i) ==
    \/ \E n \in Nodes, x \in Keys \cup {NoKey} : SubmitLookup(i, n, x)
    \/ SubmitBacklog(i)
    \/ \E j \in Jobs : SubmitRecord(i, j)
    \/ SubmitIndex(i)
    \/ SubmitIdem(i)

PullStep(s) ==
    \/ PullReply(s)
    \/ PullEntry(s)
    \/ PullJob(s)
    \/ PullLease(s)
    \/ PullFail(s)
    \/ PullDrop(s)

ResultStep(s) ==
    \/ ResultPut(s)
    \/ ResultUnindex(s)
    \/ CountRead(s)
    \/ CountWrite(s)

Next ==
    \/ \E i \in Clients : SubmitStep(i) \/ AbortSubmit(i)
    \/ \E s \in Handlers :
          \/ PullList(s)
          \/ PullStep(s)
          \/ \E j \in Jobs, b \in Blobs : ResultRead(s, j, b)
          \/ ResultStep(s)
          \/ AbortRequest(s)
    \/ \E j \in Jobs : LeaseLapse(j)

Spec == Init /\ [][Next]_vars
-------------------------------------------------------------------------------
(* What the queue must do. *)

Accepted(j) == \E a \in acked : a.job = j
Ended(j) == job[j].status \in {"done", "failed"}

\* However requests interleave: a job whose submit was answered 200 and which
\* was never delivered is still listed, so some pull will reach it.
QueuedStaysIndexed ==
    \A j \in Jobs : Accepted(j) /\ job[j].status = "queued" => j \in index

\* However requests interleave: a delivered job is never again taken for one
\* that was not.
Delivered(r) == r.status \in {"running", "done", "failed"}

NeverRequeued == [][\A j \in Jobs : Delivered(job[j]) => Delivered(job'[j])]_vars

\* done and failed are never left: a pull that read an older record does not
\* turn a finished job back into a running one.
TerminalIsForever ==
    [][\A j \in Jobs : Ended(j) => job'[j].status = job[j].status]_vars

\* However requests interleave, and of however many nodes: once created a job
\* keeps its node, and but for time passing only a request of that node changes
\* its record, so no node can end or take a job of another by guessing its id.
OwnNodeOnly ==
    [][\A j \in Jobs : job[j].status # "absent" /\ job'[j] # job[j] =>
          /\ job'[j].node = job[j].node
          /\ \/ job'[j] = [job[j] EXCEPT !.lease = "lapsed"]
             \/ \E k \in Conns : h'[<<job[j].node, k>>] # h[<<job[j].node, k>>]]_vars

\* A stored result is never replaced by another: a node that posts again after
\* a lost answer changes nothing.
FirstResultWins ==
    [][\A j \in Jobs : job[j].result # NoBlob /\ job'[j].result # NoBlob =>
                            job'[j].result = job[j].result]_vars

\* An accepted job that has not ended is still listed, so a node that died
\* with it can be sent it again and a poison job can be given up.
AcceptedStaysDeliverable ==
    \A j \in Jobs : Accepted(j) /\ ~Ended(j) => j \in index

\* The backlog is checked before the entry is written; the cap is overshot by
\* no more than the submits that can be between the two.
QueueOvershootBounded ==
    \A n \in Nodes :
        Cardinality(Queue(n)) <= QueueCap + Cardinality(Clients) - 1

\* One idempotency key at one node is one job: every answer names the same id,
\* and no answer to another key or for another node names it.
IdempotentAck ==
    \A a, b \in acked :
        a.key # NoKey =>
            (a.job = b.job <=> a.node = b.node /\ a.key = b.key)

\* However submits interleave: an id is told for one key at one node only, so no
\* client is handed the id of another's job, and the id is the only read control.
KeysDoNotShareJobs ==
    \A a, b \in acked : a.job = b.job => a.node = b.node /\ a.key = b.key

\* The public counter may lose increments, and even fall back when a late put
\* lands, but never counts a job that is not done or counts one twice.
JobsDoneIsFloor == jobsDone <= Cardinality({j \in Jobs : job[j].status = "done"})

\* Where requests are served one at a time the counter misses no result but those
\* whose request was cut short after the put, and the one being counted.
CounterMissesOnlyCut ==
    Cardinality({j \in Jobs : job[j].status = "done"})
        <= jobsDone + aborts
              + Cardinality({s \in Handlers : h[s].pc \in {"unindex", "count", "bump"}})

\* Job by job the queue does what a mailbox with one lock does.
Mailbox == INSTANCE JobMailbox WITH
    status   <- [j \in Jobs |-> job[j].status],
    attempts <- [j \in Jobs |-> job[j].attempts],
    lease    <- [j \in Jobs |-> job[j].lease],
    result   <- [j \in Jobs |-> job[j].result]

MailboxSpec == Mailbox!Spec

\* A node keeps pulling, a started request gets on, and leases run out.
Fairness ==
    /\ \A s \in Handlers :
          WF_vars(PullList(s)) /\ WF_vars(PullStep(s)) /\ WF_vars(ResultStep(s))
    /\ \A j \in Jobs : WF_vars(LeaseLapse(j))

FairSpec == Spec /\ Fairness

\* An accepted job ends, done or given up, whatever the node does with it.
EveryAcceptedJobEnds == \A j \in Jobs : Accepted(j) ~> Ended(j)
===============================================================================
