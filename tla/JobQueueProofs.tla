---------------------------- MODULE JobQueueProofs ----------------------------
(***************************************************************************)
(* Theorems about JobQueue for every set of nodes, connections, clients,   *)
(* jobs and limits.                                                        *)
(***************************************************************************)
EXTENDS JobQueue, FiniteSetTheorems, WellFoundedInduction, TLAPS

(***************************************************************************)
(* Type correctness.  TypeOK needs to know what a handler holds at each of *)
(* its steps, and that a record is leased only below the attempt limit.    *)
(***************************************************************************)

\* A record says nothing its status rules out: no target before the job is
\* created, no attempt or lease before it is delivered, a result once it is done.
Consistent(r) ==
    /\ r.status = "absent" => r.node = NoNode
    /\ r.status \in {"absent", "queued"} => r.attempts = 0 /\ r.lease = "lapsed"
    /\ r.status = "done" <=> r.result # NoBlob

HoldsJob == {"job", "lease", "fail", "drop", "put", "unindex", "count", "bump"}

HandlerOK(g) ==
    /\ g.pc \in HoldsJob => g.at \in Jobs
    /\ Consistent(g.snap)
    /\ g.pc \in {"lease", "fail"} => ~Terminal(g.snap)
    /\ g.pc = "lease" => g.snap.attempts < MaxAttempts
    /\ g.pc = "put" => g.blob \in Blobs

SubmitOK(d) ==
    /\ d.pc # "idle" => d.node \in Nodes
    /\ d.pc \in {"index", "idem"} => d.at \in Jobs
    /\ d.pc = "idem" => d.key \in Keys

TypeInv ==
    /\ TypeOK
    /\ \A j \in Jobs : Consistent(job[j])
    /\ \A s \in Handlers : HandlerOK(h[s])
    /\ \A i \in Clients : SubmitOK(c[i])

\* The idle values of a request and of a submit are well typed.
LEMMA IdleTypes ==
    /\ NoRecord \in Record /\ Consistent(NoRecord)
    /\ IdleHandler \in Handler /\ HandlerOK(IdleHandler)
    /\ IdleSubmit \in Submit /\ SubmitOK(IdleSubmit)
BY LimitsAssumption
   DEF NoRecord, Record, Statuses, Consistent, IdleHandler, Handler, IdleSubmit,
       Submit, HandlerOK, HoldsJob, SubmitOK

\* The type invariant holds of the empty store.
LEMMA InitTypeInv == Init => TypeInv
BY IdleTypes, LimitsAssumption DEF Init, TypeInv, TypeOK

\* What the operators on records return.
LEMMA RecordTypes ==
    ASSUME NEW r \in Record, Consistent(r)
    PROVE  /\ \A n \in Nodes : Queued(n) \in Record /\ Consistent(Queued(n))
           /\ ~Terminal(r) /\ r.attempts < MaxAttempts =>
                 Leased(r) \in Record /\ Consistent(Leased(r))
           /\ ~Terminal(r) => Failed(r) \in Record /\ Consistent(Failed(r))
           /\ \A b \in Blobs : Finished(r, b) \in Record /\ Consistent(Finished(r, b))
<1>1. \A n \in Nodes : Queued(n) \in Record /\ Consistent(Queued(n))
  <2>1. NoRecord.attempts = 0 /\ NoRecord.lease = "lapsed" /\ NoRecord.result = NoBlob
    BY DEF NoRecord
  <2> QED
    BY <2>1, IdleTypes DEF Record, Statuses, Consistent, Queued
<1>2. ~Terminal(r) /\ r.attempts < MaxAttempts =>
         Leased(r) \in Record /\ Consistent(Leased(r))
  <2> SUFFICES ASSUME ~Terminal(r), r.attempts < MaxAttempts
               PROVE  Leased(r) \in Record /\ Consistent(Leased(r))
    OBVIOUS
  <2> DEFINE a == r.attempts + 1
  <2>1. a \in 0..MaxAttempts
    BY LimitsAssumption DEF Record
  <2>2. Leased(r) = [r EXCEPT !.status = "running", !.attempts = a, !.lease = "live"]
    BY DEF Leased
  <2> HIDE DEF a
  <2> QED
    BY <2>1, <2>2 DEF Record, Statuses, Consistent, Terminal
<1>3. ~Terminal(r) => Failed(r) \in Record /\ Consistent(Failed(r))
  BY DEF Record, Statuses, Consistent, Failed, Terminal
<1>4. \A b \in Blobs : Finished(r, b) \in Record /\ Consistent(Finished(r, b))
  BY NullsAssumption DEF Record, Statuses, Consistent, Finished
<1> QED
  BY <1>1, <1>2, <1>3, <1>4

\* What a pull does with a record it has read.
LEMMA BranchTypes ==
    ASSUME NEW r \in Record, Consistent(r), NEW n
    PROVE  /\ PullBranch(n, r) \in {"next", "lease", "fail", "drop"}
           /\ PullBranch(n, r) = "lease" => r.attempts < MaxAttempts
           /\ PullBranch(n, r) \in {"lease", "fail"} => ~Terminal(r)
<1>1. PullBranch(n, r) \in {"next", "lease", "fail", "drop"}
  BY DEF PullBranch
<1>2. PullBranch(n, r) = "lease" => r.attempts < MaxAttempts
  BY LimitsAssumption
     DEF Record, Statuses, Consistent, PullBranch, Terminal, Passed, Exhausted
<1>3. PullBranch(n, r) \in {"lease", "fail"} => ~Terminal(r)
  BY DEF PullBranch
<1> QED
  BY <1>1, <1>2, <1>3

\* A step that writes one record, one handler or one submit keeps the rest.
LEMMA OneRecord ==
    ASSUME TypeInv, NEW j \in Jobs, NEW r \in Record, Consistent(r),
           job' = [job EXCEPT ![j] = r]
    PROVE  job' \in [Jobs -> Record] /\ \A i \in Jobs : Consistent(job'[i])
BY DEF TypeInv, TypeOK

\* Replacing one request by a well-typed one keeps them all well typed.
LEMMA OneHandler ==
    ASSUME TypeInv, NEW s \in Handlers, NEW g \in Handler, HandlerOK(g),
           h' = [h EXCEPT ![s] = g]
    PROVE  h' \in [Handlers -> Handler] /\ \A t \in Handlers : HandlerOK(h'[t])
BY DEF TypeInv, TypeOK

\* Replacing one submit by a well-typed one keeps them all well typed.
LEMMA OneSubmit ==
    ASSUME TypeInv, NEW i \in Clients, NEW d \in Submit, SubmitOK(d),
           c' = [c EXCEPT ![i] = d]
    PROVE  c' \in [Clients -> Submit] /\ \A k \in Clients : SubmitOK(c'[k])
BY DEF TypeInv, TypeOK

\* Going past an entry of the listing keeps a request well typed.
LEMMA PastTypes ==
    ASSUME NEW g \in Handler, HandlerOK(g), NEW j
    PROVE  Past(g, j) \in Handler /\ HandlerOK(Past(g, j))
BY DEF Past, Handler, HandlerOK, PullSteps, HoldsJob

\* Every step of every handler keeps the type invariant.
LEMMA StepTypeInv == TypeInv /\ [Next]_vars => TypeInv'
<1> SUFFICES ASSUME TypeInv, [Next]_vars
             PROVE  TypeInv'
  OBVIOUS
<1> USE DEF TypeInv, TypeOK
<1>1. ASSUME NEW i \in Clients, SubmitStep(i) \/ AbortSubmit(i)
      PROVE  TypeInv'
  <2>0. c[i] \in Submit /\ SubmitOK(c[i])
    OBVIOUS
  <2>1. ASSUME NEW n \in Nodes, NEW x \in Keys \cup {NoKey}, SubmitLookup(i, n, x)
        PROVE  TypeInv'
    <3>1. CASE x # NoKey /\ idem[<<n, x>>] # NoJob
      <4>1. [node |-> n, key |-> x, job |-> idem[<<n, x>>]] \in Ack
        BY <3>1 DEF Ack
      <4> QED
        BY <2>1, <3>1, <4>1 DEF SubmitLookup
    <3>2. CASE ~(x # NoKey /\ idem[<<n, x>>] # NoJob)
      <4> DEFINE d == [IdleSubmit EXCEPT !.pc = "backlog", !.node = n, !.key = x]
      <4>1. d \in Submit /\ SubmitOK(d)
        BY IdleTypes DEF Submit, SubmitOK
      <4>2. c' = [c EXCEPT ![i] = d] /\ UNCHANGED <<job, index, idem, jobsDone, h, acked, aborts>>
        BY <2>1, <3>2 DEF SubmitLookup
      <4> QED
        BY <4>1, <4>2, OneSubmit
    <3> QED
      BY <3>1, <3>2
  <2>2. CASE SubmitBacklog(i)
    BY <2>0, <2>2, IdleTypes DEF SubmitBacklog, Submit, SubmitOK
  <2>3. ASSUME NEW j \in Jobs, SubmitRecord(i, j)
        PROVE  TypeInv'
    <3> DEFINE d == [c[i] EXCEPT !.pc = "index", !.at = j]
    <3>1. c[i].node \in Nodes
      BY <2>3 DEF SubmitRecord, SubmitOK
    <3>2. Queued(c[i].node) \in Record /\ Consistent(Queued(c[i].node))
      BY <3>1, IdleTypes, RecordTypes
    <3>3. d \in Submit /\ SubmitOK(d)
      BY <2>0, <3>1 DEF Submit, SubmitOK
    <3>4. c' = [c EXCEPT ![i] = d]
      BY <2>3 DEF SubmitRecord
    <3> QED
      BY <2>3, <3>2, <3>3, <3>4, OneRecord, OneSubmit DEF SubmitRecord
  <2>4. CASE SubmitIndex(i)
    BY <2>0, <2>4, IdleTypes DEF SubmitIndex, Acknowledge, Submit, SubmitOK, Ack
  <2>5. CASE SubmitIdem(i)
    BY <2>0, <2>5, IdleTypes DEF SubmitIdem, Acknowledge, Submit, SubmitOK, Ack
  <2>6. CASE AbortSubmit(i)
    BY <2>6, IdleTypes, LimitsAssumption DEF AbortSubmit
  <2> QED
    BY <1>1, <2>1, <2>2, <2>3, <2>4, <2>5, <2>6 DEF SubmitStep
<1>2. ASSUME NEW s \in Handlers, PullList(s) \/ PullStep(s)
      PROVE  TypeInv'
  <2>0. h[s] \in Handler /\ HandlerOK(h[s])
    OBVIOUS
  <2>1. CASE PullList(s)
    <3> DEFINE g == [IdleHandler EXCEPT !.pc = "next", !.todo = Listed(s[1], PullScan)]
    <3>1. Listed(s[1], PullScan) \in SUBSET Jobs
      BY DEF Listed, Queue
    <3>2. g \in Handler /\ HandlerOK(g)
      BY <3>1, IdleTypes DEF Handler, HandlerOK, PullSteps, HoldsJob
    <3>3. h' = [h EXCEPT ![s] = g]
      BY <2>1 DEF PullList
    <3> HIDE DEF g
    <3> QED
      BY <2>1, <3>2, <3>3, OneHandler DEF PullList
  <2>2. CASE PullReply(s)
    BY <2>2, IdleTypes DEF PullReply
  <2>3. CASE PullEntry(s)
    <3> DEFINE found(j) == [h[s] EXCEPT !.pc = "job", !.at = j]
    <3>1. PICK j \in h[s].todo :
             h' = [h EXCEPT ![s] = IF j \in index THEN found(j) ELSE Past(h[s], j)]
      BY <2>3 DEF PullEntry
    <3>2. j \in Jobs
      BY <2>0 DEF Handler
    <3>3. found(j) \in Handler /\ HandlerOK(found(j))
      BY <2>0, <3>2 DEF Handler, HandlerOK, PullSteps, HoldsJob
    <3> HIDE DEF found
    <3>4. h' \in [Handlers -> Handler] /\ \A t \in Handlers : HandlerOK(h'[t])
      BY <2>0, <3>1, <3>3, PastTypes, OneHandler
    <3> QED
      BY <2>3, <3>4 DEF PullEntry
  <2>4. CASE PullJob(s)
    <3> DEFINE r == job[h[s].at]
               b == PullBranch(s[1], r)
               g == [h[s] EXCEPT !.pc = b, !.snap = r]
    <3>1. h[s].at \in Jobs
      BY <2>4 DEF PullJob, HandlerOK, HoldsJob
    <3>2. r \in Record /\ Consistent(r)
      BY <3>1
    <3>3. h' = [h EXCEPT ![s] = IF b = "next" THEN Past(h[s], h[s].at) ELSE g]
      BY <2>4 DEF PullJob
    <3> HIDE DEF r
    <3>4. /\ b \in {"next", "lease", "fail", "drop"}
          /\ b = "lease" => r.attempts < MaxAttempts
          /\ b \in {"lease", "fail"} => ~Terminal(r)
      <4>1. \A n : /\ PullBranch(n, r) \in {"next", "lease", "fail", "drop"}
                   /\ PullBranch(n, r) = "lease" => r.attempts < MaxAttempts
                   /\ PullBranch(n, r) \in {"lease", "fail"} => ~Terminal(r)
        BY <3>2, BranchTypes
      <4> QED
        BY <4>1
    <3> HIDE DEF b
    <3>5. g \in Handler /\ HandlerOK(g)
      BY <2>0, <3>1, <3>2, <3>4 DEF Handler, HandlerOK, HoldsJob, PullSteps
    <3> HIDE DEF g
    <3>6. h' \in [Handlers -> Handler] /\ \A t \in Handlers : HandlerOK(h'[t])
      BY <2>0, <3>3, <3>5, PastTypes, OneHandler
    <3> QED
      BY <2>4, <3>6 DEF PullJob
  <2>5. CASE PullLease(s)
    <3> DEFINE g == [Past(h[s], h[s].at) EXCEPT !.sent = h[s].sent + 1]
    <3>1. /\ h[s].at \in Jobs
          /\ ~Terminal(h[s].snap) /\ h[s].snap.attempts < MaxAttempts
      BY <2>5 DEF PullLease, HandlerOK, HoldsJob
    <3>2. h[s].snap \in Record /\ Consistent(h[s].snap)
      BY <2>0 DEF Handler, HandlerOK
    <3>3. Leased(h[s].snap) \in Record /\ Consistent(Leased(h[s].snap))
      BY <3>1, <3>2, RecordTypes
    <3>4. g \in Handler /\ HandlerOK(g)
      BY <2>0, PastTypes DEF Handler, HandlerOK
    <3>5. h' = [h EXCEPT ![s] = g]
      BY <2>5 DEF PullLease
    <3> HIDE DEF g
    <3> QED
      BY <2>5, <3>1, <3>3, <3>4, <3>5, OneRecord, OneHandler DEF PullLease
  <2>6. CASE PullFail(s)
    <3> DEFINE g == [h[s] EXCEPT !.pc = "drop"]
    <3>1. h[s].at \in Jobs /\ ~Terminal(h[s].snap)
      BY <2>6 DEF PullFail, HandlerOK, HoldsJob
    <3>2. h[s].snap \in Record /\ Consistent(h[s].snap)
      BY <2>0 DEF Handler, HandlerOK
    <3>3. Failed(h[s].snap) \in Record /\ Consistent(Failed(h[s].snap))
      BY <3>1, <3>2, RecordTypes
    <3>4. g \in Handler /\ HandlerOK(g)
      BY <2>0, <3>1 DEF Handler, HandlerOK, PullSteps, HoldsJob
    <3> HIDE DEF g
    <3> QED
      BY <2>6, <3>1, <3>3, <3>4, OneRecord, OneHandler DEF PullFail, g
  <2>7. CASE PullDrop(s)
    BY <2>0, <2>7, PastTypes, OneHandler DEF PullDrop
  <2> QED
    BY <1>2, <2>1, <2>2, <2>3, <2>4, <2>5, <2>6, <2>7 DEF PullStep
<1>3. ASSUME NEW s \in Handlers, NEW j \in Jobs, NEW b \in Blobs, ResultRead(s, j, b)
      PROVE  TypeInv'
  <2> DEFINE g == [IdleHandler EXCEPT !.pc = "put", !.at = j, !.snap = job[j], !.blob = b]
  <2>1. job[j] \in Record /\ Consistent(job[j])
    OBVIOUS
  <2>2. g \in Handler /\ HandlerOK(g)
    BY <2>1, IdleTypes DEF Handler, HandlerOK, ResultSteps, HoldsJob
  <2>3. h' = [h EXCEPT ![s] = g]
    BY <1>3 DEF ResultRead
  <2> HIDE DEF g
  <2> QED
    BY <1>3, <2>2, <2>3, OneHandler DEF ResultRead
<1>4. ASSUME NEW s \in Handlers, ResultStep(s) \/ AbortRequest(s)
      PROVE  TypeInv'
  <2>0. h[s] \in Handler /\ HandlerOK(h[s])
    OBVIOUS
  <2>1. CASE ResultPut(s)
    <3> DEFINE g == [h[s] EXCEPT !.pc = "unindex"]
    <3>1. h[s].at \in Jobs /\ h[s].blob \in Blobs
      BY <2>1 DEF ResultPut, HandlerOK, HoldsJob
    <3>2. h[s].snap \in Record /\ Consistent(h[s].snap)
      BY <2>0 DEF Handler, HandlerOK
    <3>3. Finished(h[s].snap, h[s].blob) \in Record /\ Consistent(Finished(h[s].snap, h[s].blob))
      BY <3>1, <3>2, RecordTypes
    <3>4. g \in Handler /\ HandlerOK(g)
      BY <2>0, <3>1 DEF Handler, HandlerOK, ResultSteps, HoldsJob
    <3>5. h' = [h EXCEPT ![s] = g]
      BY <2>1 DEF ResultPut
    <3> HIDE DEF g
    <3> QED
      BY <2>1, <3>1, <3>3, <3>4, <3>5, OneRecord, OneHandler DEF ResultPut
  <2>2. CASE ResultUnindex(s)
    BY <2>0, <2>2 DEF ResultUnindex, Handler, HandlerOK, ResultSteps, HoldsJob
  <2>3. CASE CountRead(s)
    BY <2>0, <2>3 DEF CountRead, Handler, HandlerOK, ResultSteps, HoldsJob
  <2>4. CASE CountWrite(s)
    BY <2>0, <2>4, IdleTypes DEF CountWrite, Handler
  <2>5. CASE AbortRequest(s)
    BY <2>5, IdleTypes, LimitsAssumption DEF AbortRequest
  <2> QED
    BY <1>4, <2>1, <2>2, <2>3, <2>4, <2>5 DEF ResultStep
<1>5. ASSUME NEW j \in Jobs, LeaseLapse(j)
      PROVE  TypeInv'
  <2>1. /\ [job[j] EXCEPT !.lease = "lapsed"] \in Record
        /\ Consistent([job[j] EXCEPT !.lease = "lapsed"])
    BY DEF Record, Consistent
  <2> QED
    BY <1>5, <2>1, OneRecord DEF LeaseLapse
<1>6. CASE UNCHANGED vars
  BY <1>6 DEF vars
<1> QED
  BY <1>1, <1>2, <1>3, <1>4, <1>5, <1>6 DEF Next

\* Every reachable state is well typed: in particular no interleaving of pulls
\* delivers a job more than MaxAttempts times over its recorded attempts.
THEOREM TypeCorrect == Spec => []TypeOK
<1>1. Spec => []TypeInv
  BY InitTypeInv, StepTypeInv, PTL DEF Spec
<1>2. TypeInv => TypeOK
  BY DEF TypeInv
<1> QED
  BY <1>1, <1>2, PTL
-------------------------------------------------------------------------------
(***************************************************************************)
(* What holds however requests interleave.  A record that was delivered    *)
(* stays delivered whichever handler writes it next, even from an old      *)
(* snapshot; so an entry is only ever deleted under a delivered job, and   *)
(* an accepted job that was never delivered keeps its entry.               *)
(***************************************************************************)

\* j can still be found by a pull, or has been.
Reachable(j) ==
    \/ Delivered(job[j])
    \/ job[j].status = "queued" /\ j \in index

ReachInv ==
    /\ \A s \in Handlers :
          h[s].pc \in {"drop", "unindex"} => Delivered(job[h[s].at])
    /\ \A i \in Clients :
          /\ c[i].pc = "index" => job[c[i].at].status # "absent"
          /\ c[i].pc = "idem" => Reachable(c[i].at)
    /\ \A nk \in Nodes \X Keys : idem[nk] # NoJob => Reachable(idem[nk])
    /\ \A a \in acked : Reachable(a.job)

\* A step that writes a record writes a delivered one or creates the job.
LEMMA Writes ==
    ASSUME TypeInv, [Next]_vars, NEW j \in Jobs, job'[j].status # job[j].status
    PROVE  \/ Delivered(job'[j])
           \/ job[j].status = "absent" /\ job'[j].status = "queued"
<1> USE DEF TypeInv, TypeOK
<1>1. ASSUME NEW i \in Clients, NEW k \in Jobs, SubmitRecord(i, k)
      PROVE  job[j].status = "absent" /\ job'[j].status = "queued"
  <2>1. Queued(c[i].node).status = "queued"
    BY DEF Queued, NoRecord
  <2> QED
    BY <1>1, <2>1 DEF SubmitRecord
<1>2. ASSUME NEW s \in Handlers, PullLease(s) \/ PullFail(s) \/ ResultPut(s)
      PROVE  Delivered(job'[j])
  <2>1. h[s].snap \in Record
    BY DEF Handler
  <2>2. /\ Delivered(Leased(h[s].snap))
        /\ Delivered(Failed(h[s].snap))
        /\ Delivered(Finished(h[s].snap, h[s].blob))
    BY <2>1 DEF Record, Delivered, Leased, Failed, Finished
  <2> QED
    BY <1>2, <2>2 DEF PullLease, PullFail, ResultPut
<1>3. ASSUME NEW k \in Jobs, LeaseLapse(k)
      PROVE  FALSE
  BY <1>3 DEF LeaseLapse, Record
<1>4. \/ \E i \in Clients, k \in Jobs : SubmitRecord(i, k)
      \/ \E s \in Handlers : PullLease(s) \/ PullFail(s) \/ ResultPut(s)
      \/ \E k \in Jobs : LeaseLapse(k)
  BY DEF Next, vars, SubmitStep, SubmitLookup, SubmitBacklog, SubmitIndex, SubmitIdem,
         AbortSubmit, PullList, PullStep, PullReply, PullEntry, PullJob, PullDrop,
         ResultRead, ResultStep, ResultUnindex, CountRead, CountWrite, AbortRequest
<1> QED
  BY <1>1, <1>2, <1>3, <1>4

\* A job that was delivered once never looks undelivered again.
LEMMA DeliveredStays ==
    ASSUME TypeInv, [Next]_vars, NEW j \in Jobs, Delivered(job[j])
    PROVE  Delivered(job'[j])
BY Writes DEF Delivered

\* Only a handler at "drop" or "unindex" takes an entry away, its own.
LEMMA EntryLost ==
    ASSUME TypeInv, [Next]_vars, NEW j \in index, j \notin index'
    PROVE  \E s \in Handlers : h[s].pc \in {"drop", "unindex"} /\ h[s].at = j
BY DEF Next, vars, SubmitStep, SubmitLookup, SubmitBacklog, SubmitRecord, SubmitIndex,
       SubmitIdem, AbortSubmit, PullList, PullStep, PullReply, PullEntry, PullJob,
       PullLease, PullFail, PullDrop, ResultRead, ResultStep, ResultPut,
       ResultUnindex, CountRead, CountWrite, AbortRequest, LeaseLapse

\* A job that a pull can find, or that was delivered, stays so.
LEMMA ReachableStays ==
    ASSUME TypeInv, ReachInv, [Next]_vars, NEW j \in Jobs, Reachable(j)
    PROVE  Reachable(j)'
<1>1. CASE Delivered(job[j])
  BY <1>1, DeliveredStays DEF Reachable
<1>2. CASE job[j].status = "queued" /\ j \in index
  <2>1. CASE job'[j].status # job[j].status
    BY <1>2, <2>1, Writes DEF Reachable
  <2>2. CASE job'[j].status = job[j].status /\ j \in index'
    BY <1>2, <2>2 DEF Reachable
  <2>3. CASE job'[j].status = job[j].status /\ j \notin index'
    <3>1. Delivered(job[j])
      BY <1>2, <2>3, EntryLost DEF ReachInv
    <3> QED
      BY <1>2, <3>1 DEF Delivered
  <2> QED
    BY <2>1, <2>2, <2>3
<1> QED
  BY <1>1, <1>2 DEF Reachable

\* The empty store satisfies the second invariant.
LEMMA InitReachInv == Init => ReachInv
BY DEF Init, ReachInv, IdleHandler, IdleSubmit

\* Where each step of a request leaves it.
LEMMA NextPc ==
    ASSUME TypeInv, NEW s \in Handlers
    PROVE  /\ PullList(s) => h'[s].pc = "next"
           /\ PullReply(s) \/ CountWrite(s) \/ AbortRequest(s) => h'[s].pc = "idle"
           /\ PullEntry(s) => h'[s].pc \in {"job", "next"}
           /\ PullLease(s) \/ PullDrop(s) => h'[s].pc = "next"
           /\ PullFail(s) => h'[s].pc = "drop" /\ h'[s].at = h[s].at
           /\ ResultPut(s) => h'[s].pc = "unindex" /\ h'[s].at = h[s].at
           /\ ResultUnindex(s) => h'[s].pc = "count"
           /\ CountRead(s) => h'[s].pc = "bump"
           /\ \A j \in Jobs, b \in Blobs : ResultRead(s, j, b) =>
                 h'[s].pc = "put" /\ h'[s].at = j /\ h'[s].snap = job[j]
           /\ PullJob(s) =>
                 \/ h'[s].pc = "next"
                 \/ /\ h'[s].pc = PullBranch(s[1], job[h[s].at])
                    /\ h'[s].at = h[s].at /\ h'[s].snap = job[h[s].at]
<1>1. h \in [Handlers -> Handler] /\ h[s] \in Handler
  BY DEF TypeInv, TypeOK
<1> DEFINE First == [IdleHandler EXCEPT !.pc = "next", !.todo = Listed(s[1], PullScan)]
           Sent == [Past(h[s], h[s].at) EXCEPT !.sent = h[s].sent + 1]
           At(p) == [h[s] EXCEPT !.pc = p]
           Counted == [h[s] EXCEPT !.pc = "bump", !.cnt = jobsDone]
           Found(j) == [h[s] EXCEPT !.pc = "job", !.at = j]
           Snapped(p) == [h[s] EXCEPT !.pc = p, !.snap = job[h[s].at]]
           Posted(j, b) == [IdleHandler EXCEPT !.pc = "put", !.at = j,
                                               !.snap = job[j], !.blob = b]
<1>2. /\ First.pc = "next" /\ IdleHandler.pc = "idle"
      /\ \A j, b : /\ Posted(j, b).pc = "put"
                   /\ Posted(j, b).at = j /\ Posted(j, b).snap = job[j]
  BY DEF IdleHandler
<1>3. \A j : Past(h[s], j).pc = "next"
  BY <1>1 DEF Handler, Past
<1>4. Sent.pc = "next"
  BY <1>1 DEF Handler, Past
<1>5. \A p : At(p).pc = p /\ At(p).at = h[s].at
  BY <1>1 DEF Handler
<1>6. Counted.pc = "bump" /\ \A j : Found(j).pc = "job"
  BY <1>1 DEF Handler
<1>7. \A p : /\ Snapped(p).pc = p /\ Snapped(p).at = h[s].at
             /\ Snapped(p).snap = job[h[s].at]
  BY <1>1 DEF Handler
<1>8. /\ PullList(s) => h'[s] = First
      /\ PullReply(s) \/ CountWrite(s) \/ AbortRequest(s) => h'[s] = IdleHandler
      /\ PullEntry(s) => \E j : h'[s] = Found(j) \/ h'[s] = Past(h[s], j)
      /\ PullLease(s) => h'[s] = Sent
      /\ PullDrop(s) => h'[s] = Past(h[s], h[s].at)
      /\ PullFail(s) => h'[s] = At("drop")
      /\ ResultPut(s) => h'[s] = At("unindex")
      /\ ResultUnindex(s) => h'[s] = At("count")
      /\ CountRead(s) => h'[s] = Counted
      /\ \A j \in Jobs, b \in Blobs : ResultRead(s, j, b) => h'[s] = Posted(j, b)
      /\ PullJob(s) => \/ h'[s] = Past(h[s], h[s].at)
                       \/ h'[s] = Snapped(PullBranch(s[1], job[h[s].at]))
  <2>1. PullList(s) => h'[s] = First
    BY <1>1 DEF PullList
  <2>2. PullReply(s) \/ CountWrite(s) \/ AbortRequest(s) => h'[s] = IdleHandler
    BY <1>1 DEF PullReply, CountWrite, AbortRequest
  <2>3. PullEntry(s) => \E j : h'[s] = Found(j) \/ h'[s] = Past(h[s], j)
    BY <1>1 DEF PullEntry
  <2>4. (PullLease(s) => h'[s] = Sent) /\ (PullDrop(s) => h'[s] = Past(h[s], h[s].at))
    BY <1>1 DEF PullLease, PullDrop
  <2>5. (PullFail(s) => h'[s] = At("drop")) /\ (ResultPut(s) => h'[s] = At("unindex"))
    BY <1>1 DEF PullFail, ResultPut
  <2>6. (ResultUnindex(s) => h'[s] = At("count")) /\ (CountRead(s) => h'[s] = Counted)
    BY <1>1 DEF ResultUnindex, CountRead
  <2>7. \A j \in Jobs, b \in Blobs : ResultRead(s, j, b) => h'[s] = Posted(j, b)
    BY <1>1 DEF ResultRead
  <2>8. PullJob(s) => \/ h'[s] = Past(h[s], h[s].at)
                     \/ h'[s] = Snapped(PullBranch(s[1], job[h[s].at]))
    BY <1>1 DEF PullJob
  <2> QED
    BY <2>1, <2>2, <2>3, <2>4, <2>5, <2>6, <2>7, <2>8
<1> HIDE DEF First, Sent, At, Counted, Found, Snapped, Posted
<1> QED
  BY <1>2, <1>3, <1>4, <1>5, <1>6, <1>7, <1>8

\* A handler changes by a step of its own.
LEMMA Moves ==
    ASSUME TypeInv, [Next]_vars, NEW s \in Handlers, h'[s] # h[s]
    PROVE  \/ PullList(s) \/ PullStep(s) \/ ResultStep(s) \/ AbortRequest(s)
           \/ \E j \in Jobs, b \in Blobs : ResultRead(s, j, b)
<1>1. PICK t \in Handlers :
        \/ PullList(t) \/ PullStep(t) \/ ResultStep(t) \/ AbortRequest(t)
        \/ \E j \in Jobs, b \in Blobs : ResultRead(t, j, b)
  BY DEF Next, vars, SubmitStep, SubmitLookup, SubmitBacklog, SubmitRecord, SubmitIndex,
         SubmitIdem, AbortSubmit, LeaseLapse
<1>2. t = s
  BY <1>1 DEF PullList, PullStep, PullReply, PullEntry, PullJob, PullLease, PullFail,
              PullDrop, ResultStep, ResultPut, ResultUnindex, CountRead, CountWrite,
              AbortRequest, ResultRead, TypeInv, TypeOK
<1> QED
  BY <1>1, <1>2

\* How a handler comes to be about to delete an entry.
LEMMA AboutToDelete ==
    ASSUME TypeInv, [Next]_vars, NEW s \in Handlers, h'[s] # h[s],
           h'[s].pc \in {"drop", "unindex"}
    PROVE  PullJob(s) \/ PullFail(s) \/ ResultPut(s)
BY Moves, NextPc DEF PullStep, ResultStep

\* Once its entry is written, a created job can be found.
LEMMA JustIndexed ==
    ASSUME TypeInv, ReachInv, NEW i \in Clients, SubmitIndex(i), NEW j, j = c[i].at
    PROVE  Reachable(j)'
<1>1. j \in Jobs /\ job[j] \in Record /\ job[j].status # "absent"
  BY DEF SubmitIndex, ReachInv, TypeInv, TypeOK, SubmitOK
<1>2. Delivered(job[j]) \/ job[j].status = "queued"
  BY <1>1 DEF Record, Statuses, Delivered
<1>3. j \in index' /\ job' = job
  BY DEF SubmitIndex
<1> QED
  BY <1>2, <1>3 DEF Reachable

\* Every step of every handler keeps the second invariant.
LEMMA StepReachInv == TypeInv /\ ReachInv /\ [Next]_vars => ReachInv'
<1> SUFFICES ASSUME TypeInv, ReachInv, [Next]_vars
             PROVE  ReachInv'
  OBVIOUS
<1> USE DEF TypeInv, TypeOK
<1>1. ASSUME NEW s \in Handlers, h'[s].pc \in {"drop", "unindex"}
      PROVE  Delivered(job'[h'[s].at])
  <2>0. h[s] \in Handler /\ HandlerOK(h[s])
    OBVIOUS
  <2>1. CASE h'[s] = h[s]
    BY <1>1, <2>0, <2>1, DeliveredStays DEF ReachInv, HandlerOK, HoldsJob
  <2>2. CASE PullJob(s)
    <3>1. /\ h'[s].at = h[s].at
          /\ PullBranch(s[1], job[h[s].at]) \in {"drop", "unindex"}
      BY <1>1, <2>2, NextPc
    <3>2. Terminal(job[h[s].at])
      BY <3>1 DEF PullBranch
    <3> QED
      BY <2>2, <3>1, <3>2 DEF PullJob, Terminal, Delivered
  <2>3. CASE PullFail(s) \/ ResultPut(s)
    <3>1. h[s].at \in Jobs /\ h'[s].at = h[s].at
      BY <2>0, <2>3, NextPc DEF PullFail, ResultPut, HandlerOK, HoldsJob
    <3>2. /\ Delivered(Failed(h[s].snap))
          /\ Delivered(Finished(h[s].snap, h[s].blob))
      BY <2>0 DEF Handler, Record, Delivered, Failed, Finished
    <3> QED
      BY <2>3, <3>1, <3>2 DEF PullFail, ResultPut
  <2> QED
    BY <1>1, <2>1, <2>2, <2>3, AboutToDelete
<1>2. ASSUME NEW i \in Clients
      PROVE  /\ c'[i].pc = "index" => job'[c'[i].at].status # "absent"
             /\ c'[i].pc = "idem" => Reachable(c[i].at)'
  <2>0. c[i] \in Submit /\ SubmitOK(c[i])
    OBVIOUS
  <2>1. CASE c'[i] = c[i]
    BY <2>0, <2>1, Writes, ReachableStays DEF ReachInv, SubmitOK, Delivered
  <2>2. CASE c'[i] # c[i]
    <3>1. SubmitStep(i) \/ AbortSubmit(i)
      <4>1. PICK k \in Clients : SubmitStep(k) \/ AbortSubmit(k)
        BY <2>2 DEF Next, vars, PullList, PullStep, PullReply, PullEntry, PullJob,
             PullLease, PullFail, PullDrop, ResultRead, ResultStep, ResultPut,
             ResultUnindex, CountRead, CountWrite, AbortRequest, LeaseLapse
      <4>2. k = i
        BY <2>2, <4>1 DEF SubmitStep, SubmitLookup, SubmitBacklog, SubmitRecord,
             SubmitIndex, SubmitIdem, Acknowledge, AbortSubmit
      <4> QED
        BY <4>1, <4>2
    <3>2. ASSUME NEW n \in Nodes, NEW x \in Keys \cup {NoKey}, SubmitLookup(i, n, x)
          PROVE  c'[i].pc \notin {"index", "idem"}
      BY <2>2, <3>2 DEF SubmitLookup, IdleSubmit
    <3>3. CASE SubmitBacklog(i) \/ AbortSubmit(i) \/ SubmitIdem(i)
      BY <2>0, <3>3 DEF SubmitBacklog, AbortSubmit, SubmitIdem, Acknowledge, IdleSubmit, Submit
    <3>4. ASSUME NEW j \in Jobs, SubmitRecord(i, j)
          PROVE  c'[i].pc = "index" /\ job'[c'[i].at].status # "absent"
      <4>1. Queued(c[i].node).status = "queued"
        BY DEF Queued, NoRecord
      <4> QED
        BY <2>0, <3>4, <4>1 DEF SubmitRecord, Submit
    <3>5. CASE SubmitIndex(i)
      <4>1. Reachable(c[i].at)' \/ c'[i].pc # "idem"
        BY <2>0, <3>5, JustIndexed DEF SubmitIndex, Acknowledge, IdleSubmit, Submit
      <4>2. c'[i].pc # "index"
        BY <2>0, <3>5 DEF SubmitIndex, Acknowledge, IdleSubmit, Submit
      <4> QED
        BY <4>1, <4>2
    <3> QED
      BY <3>1, <3>2, <3>3, <3>4, <3>5 DEF SubmitStep
  <2> QED
    BY <2>1, <2>2
<1>3. ASSUME NEW nk \in Nodes \X Keys, idem'[nk] # NoJob
      PROVE  Reachable(idem[nk])'
  <2>1. CASE idem'[nk] = idem[nk]
    BY <1>3, <2>1, ReachableStays DEF ReachInv
  <2>2. CASE idem'[nk] # idem[nk]
    <3>1. PICK i \in Clients : SubmitIdem(i)
      BY <2>2 DEF Next, vars, SubmitStep, SubmitLookup, SubmitBacklog, SubmitRecord,
           SubmitIndex, AbortSubmit, PullList, PullStep, PullReply, PullEntry, PullJob,
           PullLease, PullFail, PullDrop, ResultRead, ResultStep, ResultPut,
           ResultUnindex, CountRead, CountWrite, AbortRequest, LeaseLapse
    <3>2. idem'[nk] = c[i].at /\ Reachable(c[i].at) /\ c[i].at \in Jobs
      BY <2>2, <3>1 DEF SubmitIdem, ReachInv, SubmitOK
    <3> QED
      BY <3>2, ReachableStays
  <2> QED
    BY <2>1, <2>2
<1>4. ASSUME NEW a \in acked'
      PROVE  Reachable(a.job)'
  <2>1. CASE a \in acked
    BY <2>1, ReachableStays DEF ReachInv, Ack
  <2>2. CASE a \notin acked
    <3>1. PICK i \in Clients :
            \/ \E n \in Nodes, x \in Keys \cup {NoKey} : SubmitLookup(i, n, x)
            \/ SubmitIndex(i)
            \/ SubmitIdem(i)
      BY <2>2 DEF Next, vars, SubmitStep, SubmitBacklog, SubmitRecord, AbortSubmit,
           PullList, PullStep, PullReply, PullEntry, PullJob, PullLease, PullFail,
           PullDrop, ResultRead, ResultStep, ResultPut, ResultUnindex, CountRead,
           CountWrite, AbortRequest, LeaseLapse
    <3>2. ASSUME NEW n \in Nodes, NEW x \in Keys \cup {NoKey}, SubmitLookup(i, n, x)
          PROVE  Reachable(a.job)'
      <4>1. <<n, x>> \in Nodes \X Keys /\ idem[<<n, x>>] # NoJob /\ a.job = idem[<<n, x>>]
        BY <2>2, <3>2 DEF SubmitLookup
      <4> QED
        BY <4>1, ReachableStays DEF ReachInv
    <3>3. CASE SubmitIndex(i)
      <4>1. a.job = c[i].at
        BY <2>2, <3>3 DEF SubmitIndex, Acknowledge
      <4> QED
        BY <3>3, <4>1, JustIndexed
    <3>4. CASE SubmitIdem(i)
      <4>1. a.job = c[i].at /\ Reachable(c[i].at) /\ c[i].at \in Jobs
        BY <2>2, <3>4 DEF SubmitIdem, Acknowledge, ReachInv, SubmitOK
      <4> QED
        BY <4>1, ReachableStays
    <3> QED
      BY <3>1, <3>2, <3>3, <3>4
  <2> QED
    BY <2>1, <2>2
<1> QED
  BY <1>1, <1>2, <1>3, <1>4 DEF ReachInv

\* However requests interleave, a delivered job is never again one that was not.
THEOREM NeverRequeuedHolds == Spec => NeverRequeued
<1>1. TypeInv /\ [Next]_vars =>
        [\A j \in Jobs : Delivered(job[j]) => Delivered(job'[j])]_vars
  BY DeliveredStays
<1>2. Spec => []TypeInv
  BY InitTypeInv, StepTypeInv, PTL DEF Spec
<1> QED
  BY <1>1, <1>2, PTL DEF Spec, NeverRequeued

\* However requests interleave, a submit answered 200 is not lost before it is
\* first delivered: its entry is in the queue.
THEOREM QueuedStaysIndexedHolds == Spec => []QueuedStaysIndexed
<1>1. Spec => [](TypeInv /\ ReachInv)
  BY InitTypeInv, StepTypeInv, InitReachInv, StepReachInv, PTL DEF Spec
<1>2. ReachInv => QueuedStaysIndexed
  BY DEF ReachInv, Reachable, QueuedStaysIndexed, Accepted, Delivered
<1> QED
  BY <1>1, <1>2, PTL

(***************************************************************************)
(* What holds when a node has one request in flight at a time, as the node *)
(* agent's single loop does: the queue implements JobMailbox, ended jobs   *)
(* stay ended, and no accepted job is lost.                                *)
(***************************************************************************)

OneConn == \A k1, k2 \in Conns : k1 = k2

\* What a handler about to write a record knows: it is of its own node, nobody
\* wrote it since, and it is still to be delivered, given up or finished.
Current(g, r) ==
    /\ r.status = g.snap.status /\ r.node = g.snap.node
    /\ r.attempts = g.snap.attempts /\ r.result = g.snap.result

SnapOK(s) ==
    LET g == h[s]
        r == job[g.at]
    IN  /\ g.pc \in {"lease", "fail", "put"} => g.snap.node = s[1] /\ Current(g, r)
        /\ g.pc = "lease" => /\ g.snap.status \in {"queued", "running"}
                             /\ r.lease = "lapsed" /\ g.snap.lease = "lapsed"
        /\ g.pc = "fail" => /\ g.snap.status = "running"
                            /\ g.snap.attempts = MaxAttempts
                            /\ r.lease = "lapsed" /\ g.snap.lease = "lapsed"
        /\ g.pc = "put" => g.snap.status = "running"

SnapInv == \A s \in Handlers : SnapOK(s)

\* Nobody holds a snapshot at the start.
LEMMA InitSnapInv == Init => SnapInv
BY DEF Init, SnapInv, SnapOK, IdleHandler

Puts(t) == PullLease(t) \/ PullFail(t) \/ ResultPut(t)

\* Who changes the record of job j.
LEMMA WhoWrites ==
    ASSUME TypeInv, [Next]_vars, NEW j \in Jobs, job'[j] # job[j]
    PROVE  \/ \E i \in Clients : SubmitRecord(i, j)
           \/ \E t \in Handlers : Puts(t) /\ h[t].at = j
           \/ LeaseLapse(j)
<1> USE DEF TypeInv, TypeOK
<1>1. \/ \E i \in Clients, k \in Jobs : SubmitRecord(i, k)
      \/ \E t \in Handlers : Puts(t)
      \/ \E k \in Jobs : LeaseLapse(k)
  BY DEF Next, vars, SubmitStep, SubmitLookup, SubmitBacklog, SubmitIndex, SubmitIdem,
         AbortSubmit, PullList, PullStep, PullReply, PullEntry, PullJob, PullDrop,
         ResultRead, ResultStep, ResultUnindex, CountRead, CountWrite, AbortRequest, Puts
<1>2. ASSUME NEW i \in Clients, NEW k \in Jobs, SubmitRecord(i, k)
      PROVE  k = j
  BY <1>2 DEF SubmitRecord
<1>3. ASSUME NEW t \in Handlers, Puts(t)
      PROVE  h[t].at = j
  BY <1>3 DEF Puts, PullLease, PullFail, ResultPut
<1>4. ASSUME NEW k \in Jobs, LeaseLapse(k)
      PROVE  k = j
  BY <1>4 DEF LeaseLapse
<1> QED
  BY <1>1, <1>2, <1>3, <1>4

\* A handler that writes is at the step before, with a current snapshot.
LEMMA Writer ==
    ASSUME TypeInv, SnapInv, NEW t \in Handlers, Puts(t)
    PROVE  /\ h[t].at \in Jobs
           /\ h[t].pc \in {"lease", "fail", "put"}
           /\ h[t].snap.node = t[1] /\ Current(h[t], job[h[t].at])
           /\ h[t].snap.status \in {"queued", "running"}
           /\ h'[t].pc \in {"next", "drop", "unindex"}
BY NextPc DEF Puts, PullLease, PullFail, ResultPut, SnapInv, SnapOK, TypeInv, HandlerOK, HoldsJob

\* With one request per node, the record a handler is about to write is written
\* by no one else: only time can pass over it.
LEMMA Undisturbed ==
    ASSUME OneConn, TypeInv, SnapInv, [Next]_vars, NEW s \in Handlers, h'[s] = h[s],
           h[s].pc \in {"lease", "fail", "put"}
    PROVE  job'[h[s].at] = job[h[s].at] \/ LeaseLapse(h[s].at)
<1>1. h[s].at \in Jobs /\ job[h[s].at].node = s[1] /\ job[h[s].at].status # "absent"
  BY DEF TypeInv, HandlerOK, HoldsJob, SnapInv, SnapOK, Current
<1>2. ASSUME NEW i \in Clients, SubmitRecord(i, h[s].at)
      PROVE  FALSE
  BY <1>1, <1>2 DEF SubmitRecord
<1>3. ASSUME NEW t \in Handlers, Puts(t), h[t].at = h[s].at
      PROVE  FALSE
  <2>1. t[1] = s[1]
    BY <1>1, <1>3, Writer DEF Current
  <2>2. t = s
    BY <2>1 DEF OneConn, Handlers
  <2> QED
    BY <1>3, <2>2, Writer
<1> QED
  BY <1>1, <1>2, <1>3, WhoWrites

\* What the branches of a pull tell of the record they were chosen on.
LEMMA Branches ==
    ASSUME NEW r \in Record, Consistent(r), NEW n \in Nodes
    PROVE  /\ PullBranch(n, r) \in {"lease", "fail"} => r.node = n /\ r.lease = "lapsed"
           /\ PullBranch(n, r) = "lease" => r.status \in {"queued", "running"}
           /\ PullBranch(n, r) = "fail" => r.status = "running" /\ r.attempts = MaxAttempts
           /\ PullBranch(n, r) = "drop" => Terminal(r)
           /\ PullBranch(n, r) \in {"next", "lease", "fail", "drop"}
<1>1. r.attempts <= MaxAttempts
  BY LimitsAssumption DEF Record
<1>2. r.status \in Statuses /\ r.lease \in {"live", "lapsed"} /\ r.attempts \in Int
  BY LimitsAssumption DEF Record
<1>3. MaxAttempts \in Int /\ n # NoNode
  BY LimitsAssumption, NullsAssumption
<1> QED
  BY <1>1, <1>2, <1>3 DEF Statuses, Consistent, PullBranch, Terminal, Passed, Exhausted

\* With one request per node, a snapshot about to be written back stays current.
LEMMA StepSnapInv ==
    ASSUME OneConn
    PROVE  TypeInv /\ SnapInv /\ [Next]_vars => SnapInv'
<1> SUFFICES ASSUME TypeInv, SnapInv, [Next]_vars, NEW s \in Handlers
             PROVE  SnapOK(s)'
  BY DEF SnapInv
<1>1. CASE h'[s] = h[s] /\ h[s].pc \in {"lease", "fail", "put"}
  <2>1. h[s].at \in Jobs /\ SnapOK(s)
    BY <1>1 DEF TypeInv, HandlerOK, HoldsJob, SnapInv
  <2>2. CASE job'[h[s].at] = job[h[s].at]
    BY <1>1, <2>1, <2>2 DEF SnapOK, Current
  <2>3. CASE LeaseLapse(h[s].at)
    <3> DEFINE r == job[h[s].at]
    <3>1. r \in Record /\ job'[h[s].at] = [r EXCEPT !.lease = "lapsed"]
      BY <2>1, <2>3 DEF LeaseLapse, TypeInv, TypeOK
    <3>2. /\ job'[h[s].at].status = r.status /\ job'[h[s].at].node = r.node
          /\ job'[h[s].at].attempts = r.attempts /\ job'[h[s].at].result = r.result
          /\ job'[h[s].at].lease = "lapsed"
      BY <3>1 DEF Record
    <3> QED
      BY <1>1, <2>1, <3>2 DEF SnapOK, Current
  <2> QED
    BY <1>1, <2>2, <2>3, Undisturbed
<1>2. CASE h'[s].pc \notin {"lease", "fail", "put"}
  BY <1>2 DEF SnapOK
<1>3. CASE h'[s] # h[s] /\ h'[s].pc \in {"lease", "fail", "put"}
  <2>1. PullJob(s) \/ \E j \in Jobs, b \in Blobs : ResultRead(s, j, b)
    BY <1>3, Moves, NextPc DEF PullStep, ResultStep
  <2>2. CASE PullJob(s)
    <3>1. h[s].at \in Jobs /\ s[1] \in Nodes
      BY <2>2 DEF PullJob, TypeInv, HandlerOK, HoldsJob, Handlers
    <3>2. job[h[s].at] \in Record /\ Consistent(job[h[s].at])
      BY <3>1 DEF TypeInv, TypeOK
    <3>3. /\ h'[s].pc = PullBranch(s[1], job[h[s].at])
          /\ h'[s].at = h[s].at /\ h'[s].snap = job[h[s].at] /\ job' = job
      BY <1>3, <2>2, NextPc DEF PullJob
    <3> QED
      BY <3>1, <3>2, <3>3, Branches DEF SnapOK, Current
  <2>3. ASSUME NEW j \in Jobs, NEW b \in Blobs, ResultRead(s, j, b)
        PROVE  SnapOK(s)'
    <3>1. h'[s].pc = "put" /\ h'[s].at = j /\ h'[s].snap = job[j] /\ job' = job
      BY <2>3, NextPc DEF ResultRead
    <3> QED
      BY <2>3, <3>1 DEF ResultRead, Accepts, SnapOK, Current
  <2> QED
    BY <2>1, <2>2, <2>3
<1> QED
  BY <1>1, <1>2, <1>3

\* The type invariant and the snapshot invariant hold throughout.
LEMMA SpecSnapInv ==
    ASSUME OneConn
    PROVE  Spec => [](TypeInv /\ SnapInv)
<1>1. Init => TypeInv /\ SnapInv
  BY InitTypeInv, InitSnapInv
<1>2. TypeInv /\ SnapInv /\ [Next]_vars => (TypeInv /\ SnapInv)'
  BY StepTypeInv, StepSnapInv
<1> QED
  BY <1>1, <1>2, PTL DEF Spec
-------------------------------------------------------------------------------
(* Ended jobs stay ended. *)

\* An ended job is written no more, but for its lease.
LEMMA EndedStays ==
    ASSUME TypeInv, SnapInv, [Next]_vars, NEW j \in Jobs, Ended(j)
    PROVE  job'[j] = job[j] \/ LeaseLapse(j)
<1>1. ASSUME NEW i \in Clients, SubmitRecord(i, j)
      PROVE  FALSE
  BY <1>1 DEF SubmitRecord, Ended
<1>2. ASSUME NEW t \in Handlers, Puts(t), h[t].at = j
      PROVE  FALSE
  BY <1>2, Writer DEF Current, Ended
<1> QED
  BY <1>1, <1>2, WhoWrites

\* A lease that runs out changes the lease and nothing else.
LEMMA LapseKeeps ==
    ASSUME TypeInv, NEW j \in Jobs, LeaseLapse(j)
    PROVE  /\ job'[j].status = job[j].status /\ job'[j].node = job[j].node
           /\ job'[j].attempts = job[j].attempts /\ job'[j].result = job[j].result
           /\ job'[j].lease = "lapsed" /\ job[j].lease = "live"
BY DEF LeaseLapse, TypeInv, TypeOK, Record

\* With one request per node, done and failed are final, though a pull writes
\* back the record it read a step before.
THEOREM TerminalIsForeverHolds ==
    ASSUME OneConn
    PROVE  Spec => TerminalIsForever
<1>1. TypeInv /\ SnapInv /\ [Next]_vars =>
        [\A j \in Jobs : Ended(j) => job'[j].status = job[j].status]_vars
  BY EndedStays, LapseKeeps
<1> QED
  BY <1>1, SpecSnapInv, PTL DEF Spec, TerminalIsForever

\* With one request per node, the first stored result of a job is its result
\* for good.
THEOREM FirstResultWinsHolds ==
    ASSUME OneConn
    PROVE  Spec => FirstResultWins
<1>1. ASSUME TypeInv, SnapInv, [Next]_vars, NEW j \in Jobs, job[j].result # NoBlob
      PROVE  job'[j].result = job[j].result
  <2>1. Ended(j)
    BY <1>1 DEF TypeInv, Consistent, Ended
  <2> QED
    BY <1>1, <2>1, EndedStays, LapseKeeps
<1>2. TypeInv /\ SnapInv /\ [Next]_vars =>
        [\A j \in Jobs : job[j].result # NoBlob /\ job'[j].result # NoBlob =>
                            job'[j].result = job[j].result]_vars
  BY <1>1
<1> QED
  BY <1>2, SpecSnapInv, PTL DEF Spec, FirstResultWins
-------------------------------------------------------------------------------
(* No accepted job is lost: what is taken off the index has ended, so what is *)
(* still running is listed.                                                   *)

EntryInv ==
    /\ \A s \in Handlers :
          /\ h[s].pc \in {"drop", "unindex"} => Ended(h[s].at)
          /\ h[s].pc = "job" => h[s].at \in index \/ Ended(h[s].at)
          /\ h[s].pc = "lease" => h[s].at \in index
    /\ \A j \in Jobs : job[j].status = "running" => j \in index

\* The empty store satisfies the entry invariant.
LEMMA InitEntryInv == Init => EntryInv
BY DEF Init, EntryInv, IdleHandler, NoRecord

\* An entry goes only when its job has ended.
LEMMA EntryStays ==
    ASSUME TypeInv, SnapInv, EntryInv, [Next]_vars, NEW j \in index, ~Ended(j)
    PROVE  j \in index'
BY EntryLost DEF EntryInv

\* An ended job stays ended.
LEMMA EndedNext ==
    ASSUME TypeInv, SnapInv, [Next]_vars, NEW j \in Jobs, Ended(j)
    PROVE  Ended(j)'
BY EndedStays, LapseKeeps DEF Ended

\* Every step keeps the entry invariant: only entries of ended jobs go.
LEMMA StepEntryInv ==
    ASSUME OneConn
    PROVE  TypeInv /\ SnapInv /\ EntryInv /\ [Next]_vars => EntryInv'
<1> SUFFICES ASSUME TypeInv, SnapInv, EntryInv, [Next]_vars
             PROVE  EntryInv'
  OBVIOUS
<1>1. ASSUME NEW s \in Handlers, h'[s].pc \in {"drop", "unindex"}
      PROVE  Ended(h[s].at)'
  <2>1. CASE h'[s] = h[s]
    BY <1>1, <2>1, EndedNext DEF EntryInv, TypeInv, HandlerOK, HoldsJob, Ended
  <2>2. CASE PullJob(s)
    <3>1. h[s].at \in Jobs /\ s[1] \in Nodes
      BY <2>2 DEF PullJob, TypeInv, HandlerOK, HoldsJob, Handlers
    <3>2. job[h[s].at] \in Record /\ Consistent(job[h[s].at])
      BY <3>1 DEF TypeInv, TypeOK
    <3>3. /\ h'[s].pc = PullBranch(s[1], job[h[s].at])
          /\ h'[s].at = h[s].at /\ job' = job
      BY <1>1, <2>2, NextPc DEF PullJob
    <3> QED
      BY <1>1, <3>1, <3>2, <3>3, Branches DEF Terminal, Ended
  <2>3. CASE PullFail(s) \/ ResultPut(s)
    <3>1. h[s].at \in Jobs /\ h'[s].at = h[s].at /\ h[s].snap \in Record
      BY <2>3, NextPc DEF PullFail, ResultPut, TypeInv, TypeOK, HandlerOK, HoldsJob, Handler
    <3>2. /\ Failed(h[s].snap).status = "failed"
          /\ Finished(h[s].snap, h[s].blob).status = "done"
      BY <3>1 DEF Record, Failed, Finished
    <3> QED
      BY <2>3, <3>1, <3>2 DEF PullFail, ResultPut, Ended, TypeInv, TypeOK
  <2> QED
    BY <1>1, <2>1, <2>2, <2>3, AboutToDelete
<1>2. ASSUME NEW s \in Handlers, h'[s].pc = "job"
      PROVE  h'[s].at \in index' \/ Ended(h[s].at)'
  <2>1. CASE h'[s] = h[s]
    BY <1>2, <2>1, EndedNext, EntryStays
       DEF EntryInv, TypeInv, HandlerOK, HoldsJob, Ended
  <2>2. CASE h'[s] # h[s]
    <3>1. PullEntry(s) \/ PullJob(s)
      BY <1>2, <2>2, Moves, NextPc DEF PullStep, ResultStep
    <3>2. ~PullJob(s)
      <4>1. ASSUME PullJob(s)
            PROVE  PullBranch(s[1], job[h[s].at]) # "job"
        BY DEF PullBranch
      <4> QED
        BY <1>2, <4>1, NextPc
    <3>3. h'[s].at \in index
      <4>1. PICK j \in h[s].todo :
               h' = [h EXCEPT ![s] = IF j \in index
                                       THEN [h[s] EXCEPT !.pc = "job", !.at = j]
                                       ELSE Past(h[s], j)]
        BY <3>1, <3>2 DEF PullEntry
      <4>2. h[s] \in Handler
        BY DEF TypeInv, TypeOK
      <4>3. Past(h[s], j).pc = "next"
        BY <4>2 DEF Past, Handler
      <4>4. h'[s] = [h[s] EXCEPT !.pc = "job", !.at = j] /\ j \in index
        BY <1>2, <4>1, <4>3 DEF TypeInv, TypeOK
      <4> QED
        BY <4>2, <4>4 DEF Handler
    <3> QED
      BY <3>1, <3>2, <3>3 DEF PullEntry
  <2> QED
    BY <2>1, <2>2
<1>3. ASSUME NEW s \in Handlers, h'[s].pc = "lease"
      PROVE  h'[s].at \in index'
  <2>1. CASE h'[s] = h[s]
    <3>1. h[s].at \in index /\ ~Ended(h[s].at)
      BY <1>3, <2>1 DEF EntryInv, SnapInv, SnapOK, Current, Ended
    <3> QED
      BY <2>1, <3>1, EntryStays
  <2>2. CASE h'[s] # h[s]
    <3>1. PullJob(s)
      BY <1>3, <2>2, Moves, NextPc DEF PullStep, ResultStep
    <3>2. h[s].at \in Jobs /\ s[1] \in Nodes
      BY <3>1 DEF PullJob, TypeInv, HandlerOK, HoldsJob, Handlers
    <3>3. job[h[s].at] \in Record /\ Consistent(job[h[s].at])
      BY <3>2 DEF TypeInv, TypeOK
    <3>4. PullBranch(s[1], job[h[s].at]) = "lease" /\ h'[s].at = h[s].at
      BY <1>3, <3>1, NextPc
    <3>5. ~Ended(h[s].at)
      BY <3>2, <3>3, <3>4, Branches DEF Ended
    <3> QED
      BY <3>1, <3>4, <3>5 DEF PullJob, EntryInv
  <2> QED
    BY <2>1, <2>2
<1>4. ASSUME NEW j \in Jobs, job'[j].status = "running"
      PROVE  j \in index'
  <2>1. CASE job[j].status = "running"
    BY <2>1, EntryStays DEF EntryInv, Ended
  <2>2. CASE job[j].status # "running"
    <3>1. \/ \E i \in Clients : SubmitRecord(i, j)
          \/ \E t \in Handlers : Puts(t) /\ h[t].at = j
          \/ LeaseLapse(j)
      BY <1>4, <2>2, WhoWrites
    <3>2. ASSUME NEW i \in Clients, SubmitRecord(i, j)
          PROVE  FALSE
      <4>1. Queued(c[i].node).status = "queued"
        BY DEF Queued, NoRecord
      <4> QED
        BY <1>4, <3>2, <4>1 DEF SubmitRecord, TypeInv, TypeOK
    <3>3. ~LeaseLapse(j)
      BY <1>4, <2>2, LapseKeeps
    <3>4. ASSUME NEW t \in Handlers, Puts(t), h[t].at = j
          PROVE  PullLease(t)
      <4>1. h[t].snap \in Record
        BY DEF TypeInv, TypeOK, Handler
      <4>2. /\ Failed(h[t].snap).status = "failed"
            /\ Finished(h[t].snap, h[t].blob).status = "done"
        BY <4>1 DEF Record, Failed, Finished
      <4> QED
        BY <1>4, <3>4, <4>2 DEF Puts, PullFail, ResultPut, TypeInv, TypeOK
    <3> QED
      BY <3>1, <3>2, <3>3, <3>4 DEF EntryInv, PullLease
  <2> QED
    BY <2>1, <2>2
<1> QED
  BY <1>1, <1>2, <1>3, <1>4 DEF EntryInv, Ended

\* With one request per node, every accepted job that has not ended is listed:
\* a node that died with it will be sent it again.
THEOREM AcceptedStaysDeliverableHolds ==
    ASSUME OneConn
    PROVE  Spec => []AcceptedStaysDeliverable
<1>1. Init => EntryInv /\ ReachInv
  BY InitEntryInv, InitReachInv
<1>2. TypeInv /\ SnapInv /\ EntryInv /\ ReachInv /\ [Next]_vars => (EntryInv /\ ReachInv)'
  BY StepEntryInv, StepReachInv
<1>3. EntryInv /\ ReachInv => AcceptedStaysDeliverable
  BY DEF EntryInv, ReachInv, Reachable, AcceptedStaysDeliverable, Accepted, Ended, Delivered
<1> QED
  BY <1>1, <1>2, <1>3, SpecSnapInv, PTL DEF Spec
-------------------------------------------------------------------------------
(* The queue implements the mailbox: each store write of a handler is one     *)
(* mailbox step, every other step of it is none.                              *)

Status   == [j \in Jobs |-> job[j].status]
Attempts == [j \in Jobs |-> job[j].attempts]
Lease    == [j \in Jobs |-> job[j].lease]
Result   == [j \in Jobs |-> job[j].result]

\* A put of a record changes the four mapped fields of its job alone.
LEMMA MailboxWrite ==
    ASSUME TypeInv, NEW j \in Jobs, NEW r, job' = [job EXCEPT ![j] = r]
    PROVE  /\ Status' = [Status EXCEPT ![j] = r.status]
           /\ Attempts' = [Attempts EXCEPT ![j] = r.attempts]
           /\ Lease' = [Lease EXCEPT ![j] = r.lease]
           /\ Result' = [Result EXCEPT ![j] = r.result]
BY DEF TypeInv, TypeOK, Status, Attempts, Lease, Result

\* The empty store maps to the empty mailbox.
LEMMA MailboxInit == Init => Mailbox!Init
BY DEF Init, NoRecord, Mailbox!Init

\* Every step of the queue maps to a step of the mailbox or to a stutter.
LEMMA MailboxStep ==
    TypeInv /\ SnapInv /\ [Next]_vars => [Mailbox!Next]_(Mailbox!vars)
<1> SUFFICES ASSUME TypeInv, SnapInv, [Next]_vars
             PROVE  Mailbox!Next \/ UNCHANGED Mailbox!vars
  OBVIOUS
<1>0. \A j \in Jobs : /\ Status[j] = job[j].status /\ Attempts[j] = job[j].attempts
                     /\ Lease[j] = job[j].lease /\ Result[j] = job[j].result
  BY DEF Status, Attempts, Lease, Result
<1>1. ASSUME NEW i \in Clients, NEW j \in Jobs, SubmitRecord(i, j)
      PROVE  Mailbox!Accept(j)
  <2>0. PICK r : r = Queued(c[i].node)
    OBVIOUS
  <2>1. job[j] \in Record /\ Consistent(job[j]) /\ job[j].status = "absent"
    BY <1>1 DEF SubmitRecord, TypeInv, TypeOK
  <2>2. /\ r.status = "queued" /\ r.attempts = 0
        /\ r.lease = "lapsed" /\ r.result = NoBlob
    BY <2>0 DEF Queued, NoRecord
  <2>3. /\ job[j].attempts = 0 /\ job[j].lease = "lapsed" /\ job[j].result = NoBlob
    BY <2>1 DEF Consistent
  <2>4. job' = [job EXCEPT ![j] = r]
    BY <1>1, <2>0 DEF SubmitRecord
  <2>5. /\ Status' = [Status EXCEPT ![j] = r.status]
        /\ Attempts' = [Attempts EXCEPT ![j] = r.attempts]
        /\ Lease' = [Lease EXCEPT ![j] = r.lease]
        /\ Result' = [Result EXCEPT ![j] = r.result]
    BY <2>4, MailboxWrite
  <2>6. Attempts' = Attempts /\ Lease' = Lease /\ Result' = Result
    <3>1. Attempts[j] = r.attempts /\ Lease[j] = r.lease /\ Result[j] = r.result
      BY <1>0, <2>2, <2>3
    <3>2. Attempts' = Attempts
      BY <2>5, <3>1 DEF Attempts
    <3>3. Lease' = Lease
      BY <2>5, <3>1 DEF Lease
    <3>4. Result' = Result
      BY <2>5, <3>1 DEF Result
    <3> QED
      BY <3>2, <3>3, <3>4
  <2>7. Status[j] = "absent" /\ Status' = [Status EXCEPT ![j] = "queued"]
    BY <1>0, <2>1, <2>2, <2>5
  <2> QED
    BY <2>6, <2>7 DEF Mailbox!Accept, Status, Attempts, Lease, Result
<1>2. ASSUME NEW t \in Handlers, Puts(t)
      PROVE  Mailbox!Next
  <2>1. PICK j \in Jobs, r \in Record : j = h[t].at /\ r = h[t].snap
    BY <1>2, Writer DEF TypeInv, TypeOK, Handler
  <2>2. /\ Current(h[t], job[j]) /\ r.status \in {"queued", "running"}
    BY <1>2, <2>1, Writer
  <2>3. /\ Status[j] = r.status /\ Attempts[j] = r.attempts
        /\ Lease[j] = job[j].lease /\ Result[j] = r.result
    BY <1>0, <2>1, <2>2 DEF Current
  <2>4. CASE PullLease(t)
    <3>1. /\ r.attempts < MaxAttempts /\ job[j].lease = "lapsed"
          /\ job' = [job EXCEPT ![j] = Leased(r)]
      BY <2>1, <2>4 DEF PullLease, TypeInv, HandlerOK, SnapInv, SnapOK
    <3>2. /\ Leased(r).status = "running" /\ Leased(r).attempts = r.attempts + 1
          /\ Leased(r).lease = "live" /\ Leased(r).result = r.result
      BY DEF Record, Leased
    <3>3. /\ Status' = [Status EXCEPT ![j] = Leased(r).status]
          /\ Attempts' = [Attempts EXCEPT ![j] = Leased(r).attempts]
          /\ Lease' = [Lease EXCEPT ![j] = Leased(r).lease]
          /\ Result' = [Result EXCEPT ![j] = Leased(r).result]
      BY <3>1, MailboxWrite
    <3>4. Mailbox!Deliver(j)
      <4>1. /\ Status[j] \in {"queued", "running"} /\ Lease[j] = "lapsed"
            /\ Attempts[j] < MaxAttempts
        BY <2>2, <2>3, <3>1
      <4>2. /\ Status' = [Status EXCEPT ![j] = "running"]
            /\ Attempts' = [Attempts EXCEPT ![j] = Attempts[j] + 1]
            /\ Lease' = [Lease EXCEPT ![j] = "live"]
        BY <2>3, <3>2, <3>3
      <4>3. Result' = Result
        BY <2>3, <3>2, <3>3 DEF Result
      <4> QED
        BY <4>1, <4>2, <4>3 DEF Mailbox!Deliver, Status, Attempts, Lease, Result
    <3> QED
      BY <3>4 DEF Mailbox!Next
  <2>5. CASE PullFail(t)
    <3>1. /\ r.status = "running" /\ r.attempts = MaxAttempts
          /\ job[j].lease = "lapsed" /\ r.lease = "lapsed"
          /\ job' = [job EXCEPT ![j] = Failed(r)]
      BY <2>1, <2>5 DEF PullFail, SnapInv, SnapOK
    <3>2. /\ Failed(r).status = "failed" /\ Failed(r).attempts = r.attempts
          /\ Failed(r).lease = r.lease /\ Failed(r).result = r.result
      BY DEF Record, Failed
    <3>3. /\ Status' = [Status EXCEPT ![j] = Failed(r).status]
          /\ Attempts' = [Attempts EXCEPT ![j] = Failed(r).attempts]
          /\ Lease' = [Lease EXCEPT ![j] = Failed(r).lease]
          /\ Result' = [Result EXCEPT ![j] = Failed(r).result]
      BY <3>1, MailboxWrite
    <3>4. Mailbox!GiveUp(j)
      BY <2>2, <2>3, <3>1, <3>2, <3>3 DEF Mailbox!GiveUp, Status, Attempts, Lease, Result
    <3> QED
      BY <3>4 DEF Mailbox!Next
  <2>6. CASE ResultPut(t)
    <3>1. PICK b \in Blobs : b = h[t].blob
      BY <2>6 DEF ResultPut, TypeInv, HandlerOK
    <3>2. r.status = "running" /\ job' = [job EXCEPT ![j] = Finished(r, b)]
      BY <2>1, <2>6, <3>1 DEF ResultPut, SnapInv, SnapOK
    <3>3. /\ Finished(r, b).status = "done" /\ Finished(r, b).attempts = r.attempts
          /\ Finished(r, b).lease = "lapsed" /\ Finished(r, b).result = b
      BY DEF Record, Finished
    <3>4. /\ Status' = [Status EXCEPT ![j] = Finished(r, b).status]
          /\ Attempts' = [Attempts EXCEPT ![j] = Finished(r, b).attempts]
          /\ Lease' = [Lease EXCEPT ![j] = Finished(r, b).lease]
          /\ Result' = [Result EXCEPT ![j] = Finished(r, b).result]
      BY <3>2, MailboxWrite
    <3>5. Mailbox!Finish(j, b)
      BY <2>2, <2>3, <3>2, <3>3, <3>4 DEF Mailbox!Finish, Status, Attempts, Lease, Result
    <3> QED
      BY <3>5 DEF Mailbox!Next
  <2> QED
    BY <1>2, <2>4, <2>5, <2>6 DEF Puts
<1>3. ASSUME NEW j \in Jobs, LeaseLapse(j)
      PROVE  Mailbox!Lapse(j)
  <2> DEFINE r == [job[j] EXCEPT !.lease = "lapsed"]
  <2>1. /\ job[j] \in Record /\ job' = [job EXCEPT ![j] = r] /\ job[j].lease = "live"
    BY <1>3 DEF LeaseLapse, TypeInv, TypeOK
  <2>2. /\ r.status = job[j].status /\ r.attempts = job[j].attempts
        /\ r.lease = "lapsed" /\ r.result = job[j].result
    BY <2>1 DEF Record
  <2> HIDE DEF r
  <2>3. /\ Status' = [Status EXCEPT ![j] = r.status]
        /\ Attempts' = [Attempts EXCEPT ![j] = r.attempts]
        /\ Lease' = [Lease EXCEPT ![j] = r.lease]
        /\ Result' = [Result EXCEPT ![j] = r.result]
    BY <2>1, MailboxWrite
  <2> QED
    BY <1>0, <2>1, <2>2, <2>3 DEF Mailbox!Lapse, Status, Attempts, Lease, Result
<1>4. CASE UNCHANGED job
  BY <1>4 DEF Mailbox!vars
<1>5. \/ UNCHANGED job
      \/ \E i \in Clients, j \in Jobs : SubmitRecord(i, j)
      \/ \E t \in Handlers : Puts(t)
      \/ \E j \in Jobs : LeaseLapse(j)
  BY DEF Next, vars, SubmitStep, SubmitLookup, SubmitBacklog, SubmitIndex, SubmitIdem,
         AbortSubmit, PullList, PullStep, PullReply, PullEntry, PullJob, PullDrop,
         ResultRead, ResultStep, ResultUnindex, CountRead, CountWrite, AbortRequest, Puts
<1> QED
  BY <1>1, <1>2, <1>3, <1>4, <1>5 DEF Mailbox!Next

\* With one request per node the queue, which has no lock, behaves job by job
\* like the mailbox that has one.
THEOREM QueueImplementsMailbox ==
    ASSUME OneConn
    PROVE  Spec => MailboxSpec
BY MailboxInit, MailboxStep, SpecSnapInv, PTL DEF Spec, MailboxSpec, Mailbox!Spec
-------------------------------------------------------------------------------
(***************************************************************************)
(* The cap on a node's queue.  A submit lists the queue before it writes   *)
(* its entry, so what counts against the cap is the queue together with    *)
(* the submits that have passed the check and not yet written.             *)
(***************************************************************************)

\* Submits for node n between the check of the cap and their entry.
Passing(n) == {i \in Clients : c[i].node = n /\ c[i].pc \in {"record", "index"}}

CapInv ==
    /\ \A s \in Handlers : h[s].pc \in {"lease", "fail", "put"} =>
          job[h[s].at].status # "absent" /\ h[s].snap.node = job[h[s].at].node
    /\ \A i \in Clients : c[i].pc = "index" => job[c[i].at].node = c[i].node
    /\ \A j \in index : job[j].status # "absent"
    /\ \A n \in Nodes :
          Cardinality(Queue(n)) + Cardinality(Passing(n))
             <= QueueCap + Cardinality(Clients) - 1

\* Every set of naturals with an element has a least one.
LEMMA LeastOf ==
    ASSUME NEW S \in SUBSET Nat, S # {}
    PROVE  \E m \in S : \A k \in S : m <= k
<1>1. PICK m \in S : \A k \in S : <<k, m>> \notin OpToRel(<, Nat)
  BY NatLessThanWellFounded, WFMin
<1>2. \A k \in S : ~(k < m)
  BY <1>1 DEF OpToRel
<1> QED
  BY <1>2

\* The queues and the submits are finite sets.
LEMMA Finite ==
    ASSUME TypeInv, NEW n
    PROVE  /\ IsFiniteSet(Queue(n)) /\ Cardinality(Queue(n)) \in Nat
           /\ IsFiniteSet(Passing(n)) /\ Cardinality(Passing(n)) \in Nat
           /\ Cardinality(Passing(n)) <= Cardinality(Clients)
           /\ Cardinality(Clients) \in Nat
<1>1. Queue(n) \in SUBSET Jobs /\ Passing(n) \in SUBSET Clients
  BY DEF TypeInv, TypeOK, Queue, Passing
<1> QED
  BY <1>1, JobsAssumption, ClientsAssumption, FS_Subset, FS_CardinalityType

\* A listing shorter than its limit is the whole queue.
LEMMA ShortListing ==
    ASSUME TypeInv, NEW n, NEW limit \in Nat, Cardinality(Listed(n, limit)) < limit
    PROVE  Cardinality(Queue(n)) < limit
<1> DEFINE Unlisted == Queue(n) \ Listed(n, limit)
           Before(j) == {i \in Queue(n) : i < j}
<1>1. Queue(n) \in SUBSET Nat /\ IsFiniteSet(Queue(n))
  BY Finite, JobsAssumption DEF TypeInv, TypeOK, Queue
<1>2. Listed(n, limit) \in SUBSET Queue(n)
  BY DEF Listed
<1>3. ASSUME Unlisted # {}
      PROVE  FALSE
  <2>1. PICK m \in Unlisted : \A k \in Unlisted : m <= k
    BY <1>1, <1>3, LeastOf
  <2>2. Before(m) \in SUBSET Listed(n, limit)
    BY <1>1, <2>1
  <2>3. Cardinality(Before(m)) <= Cardinality(Listed(n, limit))
    BY <1>1, <1>2, <2>2, FS_Subset
  <2>4. IsFiniteSet(Listed(n, limit)) /\ Cardinality(Listed(n, limit)) \in Nat
    BY <1>1, <1>2, FS_Subset, FS_CardinalityType
  <2>5. Cardinality(Before(m)) \in Nat
    BY <2>2, <2>4, FS_Subset, FS_CardinalityType
  <2>6. ~(Cardinality(Before(m)) < limit)
    BY <2>1 DEF Listed
  <2> QED
    BY <2>3, <2>4, <2>5, <2>6
<1>4. Queue(n) = Listed(n, limit)
  BY <1>2, <1>3
<1> QED
  BY <1>4

\* The store starts empty, with no submit under way.
LEMMA InitCapInv == Init => CapInv
<1> SUFFICES ASSUME Init
             PROVE  CapInv
  OBVIOUS
<1>1. \A n \in Nodes : Queue(n) = {} /\ Passing(n) = {}
  BY DEF Init, Queue, Passing, IdleSubmit
<1>2. Cardinality(Clients) \in Nat
  BY ClientsAssumption, FS_CardinalityType
<1>3. \A n \in Nodes : Cardinality(Queue(n)) + Cardinality(Passing(n))
                           <= QueueCap + Cardinality(Clients) - 1
  BY <1>1, <1>2, FS_EmptySet, LimitsAssumption
<1> QED
  BY <1>3 DEF Init, CapInv, IdleHandler, IdleSubmit

\* A job once created stays created, for the same node.
LEMMA NodeStays ==
    ASSUME TypeInv, CapInv, [Next]_vars, NEW j \in Jobs, job[j].status # "absent"
    PROVE  job'[j].node = job[j].node /\ job'[j].status # "absent"
<1>1. job'[j].status # "absent"
  BY Writes DEF Delivered
<1>2. CASE job'[j] = job[j]
  BY <1>1, <1>2
<1>3. ASSUME NEW t \in Handlers, Puts(t), h[t].at = j
      PROVE  job'[j].node = job[j].node
  <2>1. h[t].snap \in Record /\ h[t].snap.node = job[j].node
    BY <1>3 DEF Puts, PullLease, PullFail, ResultPut, CapInv, TypeInv, TypeOK, Handler
  <2>2. /\ Leased(h[t].snap).node = h[t].snap.node
        /\ Failed(h[t].snap).node = h[t].snap.node
        /\ Finished(h[t].snap, h[t].blob).node = h[t].snap.node
    BY <2>1 DEF Record, Leased, Failed, Finished
  <2> QED
    BY <1>3, <2>1, <2>2 DEF Puts, PullLease, PullFail, ResultPut, TypeInv, TypeOK
<1>4. CASE LeaseLapse(j)
  BY <1>4 DEF LeaseLapse, TypeInv, TypeOK, Record
<1>5. \A i \in Clients : ~SubmitRecord(i, j)
  BY DEF SubmitRecord
<1> QED
  BY <1>1, <1>2, <1>3, <1>4, <1>5, WhoWrites

\* An entry is added by a submit that is at that step, its own.
LEMMA EntryAdded ==
    ASSUME TypeInv, [Next]_vars, NEW j \in index', j \notin index
    PROVE  \E i \in Clients : SubmitIndex(i) /\ c[i].at = j
BY DEF Next, vars, SubmitStep, SubmitLookup, SubmitBacklog, SubmitRecord, SubmitIndex,
       SubmitIdem, AbortSubmit, PullList, PullStep, PullReply, PullEntry, PullJob,
       PullLease, PullFail, PullDrop, ResultRead, ResultStep, ResultPut,
       ResultUnindex, CountRead, CountWrite, AbortRequest, LeaseLapse

\* A submit changes by a step of its own.
LEMMA SubmitMoves ==
    ASSUME TypeInv, [Next]_vars, NEW i \in Clients, c'[i] # c[i]
    PROVE  SubmitStep(i) \/ AbortSubmit(i)
<1>1. PICK k \in Clients : SubmitStep(k) \/ AbortSubmit(k)
  BY DEF Next, vars, PullList, PullStep, PullReply, PullEntry, PullJob,
         PullLease, PullFail, PullDrop, ResultRead, ResultStep, ResultPut,
         ResultUnindex, CountRead, CountWrite, AbortRequest, LeaseLapse
<1>2. k = i
  BY <1>1 DEF SubmitStep, SubmitLookup, SubmitBacklog, SubmitRecord, SubmitIndex,
              SubmitIdem, Acknowledge, AbortSubmit, TypeInv, TypeOK
<1> QED
  BY <1>1, <1>2

\* Where each step of a submit leaves it.
LEMMA SubmitPc ==
    ASSUME TypeInv, NEW i \in Clients
    PROVE  /\ \A n \in Nodes, x \in Keys \cup {NoKey} : SubmitLookup(i, n, x) =>
                 \/ c' = c
                 \/ c'[i].pc = "backlog" /\ c'[i].node = n /\ c'[i].key = x
           /\ SubmitBacklog(i) =>
                 \/ c'[i].pc = "idle" /\ Full(c[i].node)
                 \/ /\ c'[i].pc = "record" /\ c'[i].node = c[i].node
                    /\ c'[i].key = c[i].key /\ ~Full(c[i].node)
           /\ \A j \in Jobs : SubmitRecord(i, j) =>
                 /\ c'[i].pc = "index" /\ c'[i].node = c[i].node
                 /\ c'[i].key = c[i].key /\ c'[i].at = j
           /\ SubmitIndex(i) =>
                 \/ c'[i].pc = "idle" /\ c[i].key = NoKey
                 \/ /\ c'[i].pc = "idem" /\ c'[i].node = c[i].node
                    /\ c'[i].key = c[i].key /\ c'[i].at = c[i].at /\ c[i].key # NoKey
           /\ SubmitIdem(i) \/ AbortSubmit(i) => c'[i].pc = "idle"
<1>1. c \in [Clients -> Submit] /\ c[i] \in Submit /\ IdleSubmit.pc = "idle"
  BY DEF TypeInv, TypeOK, IdleSubmit
<1>2. \A n \in Nodes, x \in Keys \cup {NoKey} : SubmitLookup(i, n, x) =>
                 \/ c' = c
                 \/ c'[i].pc = "backlog" /\ c'[i].node = n /\ c'[i].key = x
  <2> SUFFICES ASSUME NEW n \in Nodes, NEW x \in Keys \cup {NoKey}, SubmitLookup(i, n, x),
                      c' # c
               PROVE  c'[i].pc = "backlog" /\ c'[i].node = n /\ c'[i].key = x
    OBVIOUS
  <2> DEFINE new == [IdleSubmit EXCEPT !.pc = "backlog", !.node = n, !.key = x]
  <2>1. c' = [c EXCEPT ![i] = new]
    BY DEF SubmitLookup
  <2>2. new.pc = "backlog" /\ new.node = n /\ new.key = x
    BY DEF IdleSubmit
  <2>3. c'[i] = new
    BY <1>1, <2>1
  <2> QED
    BY <2>2, <2>3
<1>3. SubmitBacklog(i) =>
                 \/ c'[i].pc = "idle" /\ Full(c[i].node)
                 \/ /\ c'[i].pc = "record" /\ c'[i].node = c[i].node
                    /\ c'[i].key = c[i].key /\ ~Full(c[i].node)
  BY <1>1 DEF SubmitBacklog, Submit
<1>4. \A j \in Jobs : SubmitRecord(i, j) =>
                 /\ c'[i].pc = "index" /\ c'[i].node = c[i].node
                 /\ c'[i].key = c[i].key /\ c'[i].at = j
  BY <1>1 DEF SubmitRecord, Submit
<1>5. SubmitIndex(i) =>
                 \/ c'[i].pc = "idle" /\ c[i].key = NoKey
                 \/ /\ c'[i].pc = "idem" /\ c'[i].node = c[i].node
                    /\ c'[i].key = c[i].key /\ c'[i].at = c[i].at /\ c[i].key # NoKey
  BY <1>1 DEF SubmitIndex, Acknowledge, Submit
<1>6. SubmitIdem(i) \/ AbortSubmit(i) => c'[i].pc = "idle"
  BY <1>1 DEF SubmitIdem, AbortSubmit, Acknowledge
<1> QED
  BY <1>2, <1>3, <1>4, <1>5, <1>6

\* Every step keeps the room under the cap.
LEMMA StepCapInv == TypeInv /\ ReachInv /\ CapInv /\ [Next]_vars => CapInv'
<1> SUFFICES ASSUME TypeInv, ReachInv, CapInv, [Next]_vars
             PROVE  CapInv'
  OBVIOUS
<1>1. ASSUME NEW s \in Handlers, h'[s].pc \in {"lease", "fail", "put"}
      PROVE  job'[h'[s].at].status # "absent" /\ h'[s].snap.node = job'[h'[s].at].node
  <2>1. CASE h'[s] = h[s]
    <3>1. h[s].at \in Jobs /\ job[h[s].at].status # "absent"
      BY <1>1, <2>1 DEF TypeInv, HandlerOK, HoldsJob, CapInv
    <3> QED
      BY <1>1, <2>1, <3>1, NodeStays DEF CapInv
  <2>2. CASE PullJob(s)
    <3>1. h[s].at \in Jobs /\ s[1] \in Nodes
      BY <2>2 DEF PullJob, TypeInv, HandlerOK, HoldsJob, Handlers
    <3>2. job[h[s].at] \in Record /\ Consistent(job[h[s].at])
      BY <3>1 DEF TypeInv, TypeOK
    <3>3. /\ h'[s].pc = PullBranch(s[1], job[h[s].at])
          /\ h'[s].at = h[s].at /\ h'[s].snap = job[h[s].at] /\ job' = job
      BY <1>1, <2>2, NextPc DEF PullJob
    <3>4. job[h[s].at].node = s[1]
      BY <1>1, <3>1, <3>2, <3>3, Branches
    <3> QED
      BY <3>1, <3>2, <3>3, <3>4, NullsAssumption DEF Consistent
  <2>3. ASSUME NEW j \in Jobs, NEW b \in Blobs, ResultRead(s, j, b)
        PROVE  job'[h'[s].at].status # "absent" /\ h'[s].snap.node = job'[h'[s].at].node
    BY <2>3, NextPc DEF ResultRead, Accepts
  <2> QED
    BY <1>1, <2>1, <2>2, <2>3, Moves, NextPc DEF PullStep, ResultStep
<1>2. ASSUME NEW i \in Clients, c'[i].pc = "index"
      PROVE  job'[c'[i].at].node = c'[i].node
  <2>1. CASE c'[i] = c[i]
    <3>1. c[i].at \in Jobs /\ job[c[i].at].status # "absent"
      BY <1>2, <2>1 DEF TypeInv, SubmitOK, ReachInv
    <3> QED
      BY <1>2, <2>1, <3>1, NodeStays DEF CapInv
  <2>2. ASSUME NEW j \in Jobs, SubmitRecord(i, j)
        PROVE  job'[c'[i].at].node = c'[i].node
    <3>1. Queued(c[i].node).node = c[i].node
      BY DEF Queued, NoRecord
    <3>2. job' = [job EXCEPT ![j] = Queued(c[i].node)]
      BY <2>2 DEF SubmitRecord
    <3>3. job'[j] = Queued(c[i].node)
      BY <3>2 DEF TypeInv, TypeOK
    <3>4. c'[i].at = j /\ c'[i].node = c[i].node
      BY <2>2, SubmitPc
    <3> QED
      BY <3>1, <3>3, <3>4
  <2> QED
    BY <1>2, <2>1, <2>2, SubmitMoves, SubmitPc DEF SubmitStep
<1>3. ASSUME NEW j \in index'
      PROVE  job'[j].status # "absent"
  <2>1. CASE j \in index
    BY <2>1, NodeStays DEF CapInv, TypeInv, TypeOK
  <2>2. CASE j \notin index
    <3>1. PICK i \in Clients : SubmitIndex(i) /\ c[i].at = j
      BY <2>2, EntryAdded
    <3>2. j \in Jobs /\ job[j].status # "absent"
      BY <3>1 DEF SubmitIndex, TypeInv, SubmitOK, ReachInv
    <3> QED
      BY <3>2, NodeStays
  <2> QED
    BY <2>1, <2>2
<1>4. ASSUME NEW n \in Nodes
      PROVE  Cardinality(Queue(n)') + Cardinality(Passing(n)')
                <= QueueCap + Cardinality(Clients) - 1
  <2> DEFINE Q == Queue(n)
             P == Passing(n)
  <2>0. /\ IsFiniteSet(Q) /\ Cardinality(Q) \in Nat /\ IsFiniteSet(P) /\ Cardinality(P) \in Nat
        /\ Cardinality(Q) + Cardinality(P) <= QueueCap + Cardinality(Clients) - 1
        /\ Cardinality(Clients) \in Nat /\ QueueCap \in Nat \ {0}
    BY Finite, LimitsAssumption DEF CapInv
  <2>1. \A j \in Q' : j \in index => j \in Q
    BY NodeStays DEF CapInv, TypeInv, TypeOK, Queue
  <2>2. \A i \in P' : i \notin P => SubmitBacklog(i) /\ ~Full(n) /\ c[i].node = n
    <3> SUFFICES ASSUME NEW i \in P', i \notin P
                 PROVE  SubmitBacklog(i) /\ ~Full(n) /\ c[i].node = n
      OBVIOUS
    <3>1. i \in Clients /\ c'[i] # c[i] /\ c'[i].node = n /\ c'[i].pc \in {"record", "index"}
      BY DEF Passing
    <3>2. SubmitStep(i) \/ AbortSubmit(i)
      BY <3>1, SubmitMoves
    <3>3. \A j \in Jobs : ~SubmitRecord(i, j)
      BY <3>1, SubmitPc DEF SubmitRecord, Passing
    <3>4. SubmitBacklog(i)
      BY <3>1, <3>2, <3>3, SubmitPc DEF SubmitStep
    <3> QED
      BY <3>1, <3>4, SubmitPc
  <2>3. CASE P' \ P # {}
    <3>1. PICK i \in Clients : SubmitBacklog(i) /\ ~Full(n)
      BY <2>2, <2>3 DEF Passing
    <3>2. Cardinality(Listed(n, QueueCap)) < QueueCap
      <4>1. Listed(n, QueueCap) \in SUBSET Q
        BY DEF Listed
      <4>2. Cardinality(Listed(n, QueueCap)) \in Nat
        BY <2>0, <4>1, FS_Subset, FS_CardinalityType
      <4> QED
        BY <2>0, <3>1, <4>2 DEF Full
    <3>3. Cardinality(Q) < QueueCap
      BY <2>0, <3>2, ShortListing
    <3>4. Q' = Q
      BY <3>1 DEF SubmitBacklog, Queue
    <3>5. P' \in SUBSET Clients
      BY DEF Passing
    <3>6. Cardinality(P') \in Nat /\ Cardinality(P') <= Cardinality(Clients)
      BY <3>5, ClientsAssumption, FS_Subset, FS_CardinalityType
    <3> QED
      BY <2>0, <3>3, <3>4, <3>6
  <2>4. CASE P' \subseteq P /\ Q' \subseteq Q
    <3>1. P' \in SUBSET P /\ Q' \in SUBSET Q
      BY <2>4
    <3>2. /\ Cardinality(P') <= Cardinality(P) /\ Cardinality(Q') <= Cardinality(Q)
          /\ Cardinality(P') \in Nat /\ Cardinality(Q') \in Nat
      BY <2>0, <3>1, FS_Subset, FS_CardinalityType
    <3> QED
      BY <2>0, <3>2
  <2>5. CASE P' \subseteq P /\ ~(Q' \subseteq Q)
    <3>1. PICK j \in Q' : j \notin Q
      BY <2>5
    <3>2. j \in index' /\ j \notin index /\ job'[j].node = n
      BY <2>1, <3>1 DEF Queue
    <3>3. PICK i \in Clients : SubmitIndex(i) /\ c[i].at = j
      BY <3>2, EntryAdded
    <3>4. Q' \subseteq Q \cup {j}
      BY <2>1, <3>3 DEF SubmitIndex, Queue
    <3>5. i \in P
      BY <3>2, <3>3 DEF SubmitIndex, Passing, CapInv
    <3>6. i \notin P'
      BY <3>3, SubmitPc DEF Passing
    <3>7. P' \in SUBSET (P \ {i}) /\ Q' \in SUBSET (Q \cup {j})
      BY <2>5, <3>4, <3>6
    <3>8. /\ Cardinality(P \ {i}) = Cardinality(P) - 1 /\ IsFiniteSet(P \ {i})
          /\ Cardinality(Q \cup {j}) = Cardinality(Q) + 1 /\ IsFiniteSet(Q \cup {j})
      BY <2>0, <3>1, <3>5, FS_RemoveElement, FS_AddElement
    <3>9. /\ Cardinality(P') <= Cardinality(P) - 1 /\ Cardinality(Q') <= Cardinality(Q) + 1
          /\ Cardinality(P') \in Nat /\ Cardinality(Q') \in Nat
      BY <3>7, <3>8, FS_Subset, FS_CardinalityType
    <3> QED
      BY <2>0, <3>9
  <2> QED
    BY <2>3, <2>4, <2>5
<1> QED
  BY <1>1, <1>2, <1>3, <1>4 DEF CapInv

\* Submits racing at the cap overshoot it by no more than there are beside one:
\* however many, each counts as soon as it has passed the check.
THEOREM QueueOvershootBoundedHolds == Spec => []QueueOvershootBounded
<1>1. Init => TypeInv /\ ReachInv /\ CapInv
  BY InitTypeInv, InitReachInv, InitCapInv
<1>2. TypeInv /\ ReachInv /\ CapInv /\ [Next]_vars => (TypeInv /\ ReachInv /\ CapInv)'
  BY StepTypeInv, StepReachInv, StepCapInv
<1>3. TypeInv /\ CapInv => QueueOvershootBounded
  <2> SUFFICES ASSUME TypeInv, CapInv, NEW n \in Nodes
               PROVE  Cardinality(Queue(n)) <= QueueCap + Cardinality(Clients) - 1
    BY DEF QueueOvershootBounded
  <2> QED
    BY Finite, LimitsAssumption DEF CapInv
<1> QED
  BY <1>1, <1>2, <1>3, PTL DEF Spec-------------------------------------------------------------------------------
(***************************************************************************)
(* A job is its node's.  A request writes back only what it read of a job  *)
(* of its own node, and no write changes that node, so however requests of *)
(* any nodes interleave none changes a job of another.                     *)
(***************************************************************************)

OwnInv == \A s \in Handlers : h[s].pc \in {"lease", "fail", "put"} => h[s].snap.node = s[1]

\* Every step of every request keeps what it is about to write its node's own.
LEMMA StepOwnInv == TypeInv /\ OwnInv /\ [Next]_vars => OwnInv'
<1> SUFFICES ASSUME TypeInv, OwnInv, [Next]_vars, NEW s \in Handlers,
                    h'[s].pc \in {"lease", "fail", "put"}
             PROVE  h'[s].snap.node = s[1]
  BY DEF OwnInv
<1>1. CASE h'[s] = h[s]
  BY <1>1 DEF OwnInv
<1>2. CASE h'[s] # h[s]
  <2>1. PullJob(s) \/ \E j \in Jobs, b \in Blobs : ResultRead(s, j, b)
    BY <1>2, Moves, NextPc DEF PullStep, ResultStep
  <2>2. CASE PullJob(s)
    <3>1. h[s].at \in Jobs /\ s[1] \in Nodes
      BY <2>2 DEF PullJob, TypeInv, HandlerOK, HoldsJob, Handlers
    <3>2. job[h[s].at] \in Record /\ Consistent(job[h[s].at])
      BY <3>1 DEF TypeInv, TypeOK
    <3>3. h'[s].pc = PullBranch(s[1], job[h[s].at]) /\ h'[s].snap = job[h[s].at]
      BY <2>2, NextPc
    <3> QED
      BY <3>1, <3>2, <3>3, Branches
  <2>3. ASSUME NEW j \in Jobs, NEW b \in Blobs, ResultRead(s, j, b)
        PROVE  h'[s].snap.node = s[1]
    BY <2>3, NextPc DEF ResultRead, Accepts
  <2> QED
    BY <2>1, <2>2, <2>3
<1> QED
  BY <1>1, <1>2

\* Of however many nodes and with however many requests each: a created job
\* keeps its node and is changed by that node's requests or by time alone.
THEOREM OwnNodeOnlyHolds == Spec => OwnNodeOnly
<1> DEFINE I == TypeInv /\ ReachInv /\ CapInv /\ OwnInv
<1>1. Init => I
  <2>1. Init => OwnInv
    BY DEF Init, OwnInv, IdleHandler
  <2> QED
    BY <2>1, InitTypeInv, InitReachInv, InitCapInv
<1>2. I /\ [Next]_vars => I'
  BY StepTypeInv, StepReachInv, StepCapInv, StepOwnInv
<1>3. ASSUME I, [Next]_vars, NEW j \in Jobs, job[j].status # "absent", job'[j] # job[j]
      PROVE  /\ job'[j].node = job[j].node
             /\ \/ job'[j] = [job[j] EXCEPT !.lease = "lapsed"]
                \/ \E k \in Conns : h'[<<job[j].node, k>>] # h[<<job[j].node, k>>]
  <2>1. job'[j].node = job[j].node
    BY <1>3, NodeStays
  <2>2. CASE LeaseLapse(j)
    <3>1. job'[j] = [job[j] EXCEPT !.lease = "lapsed"]
      BY <1>3, <2>2 DEF LeaseLapse, TypeInv, TypeOK
    <3> QED
      BY <2>1, <3>1
  <2>3. ASSUME NEW t \in Handlers, Puts(t), h[t].at = j
        PROVE  \E k \in Conns : h'[<<job[j].node, k>>] # h[<<job[j].node, k>>]
    <3>1. h[t].pc \in {"lease", "fail", "put"}
      BY <2>3 DEF Puts, PullLease, PullFail, ResultPut
    <3>2. job[j].node = t[1]
      BY <1>3, <2>3, <3>1 DEF OwnInv, CapInv
    <3>3. h'[t] # h[t]
      BY <1>3, <2>3, <3>1, NextPc DEF Puts
    <3>4. t[2] \in Conns /\ t = <<job[j].node, t[2]>>
      BY <3>2 DEF Handlers
    <3> QED
      BY <3>3, <3>4
  <2>4. \A i \in Clients : ~SubmitRecord(i, j)
    BY <1>3 DEF SubmitRecord
  <2> QED
    BY <1>3, <2>1, <2>2, <2>3, <2>4, WhoWrites
<1>4. I /\ [Next]_vars =>
        [\A j \in Jobs : job[j].status # "absent" /\ job'[j] # job[j] =>
            /\ job'[j].node = job[j].node
            /\ \/ job'[j] = [job[j] EXCEPT !.lease = "lapsed"]
               \/ \E k \in Conns : h'[<<job[j].node, k>>] # h[<<job[j].node, k>>]]_vars
  BY <1>3
<1> QED
  BY <1>1, <1>2, <1>4, PTL DEF Spec, OwnNodeOnly
-------------------------------------------------------------------------------
(***************************************************************************)
(* Keys and answers.  However submits race, an id is named by one key at   *)
(* one node: the job of a submit still writing is named by nothing yet and *)
(* held by no other submit, since an id is drawn while it is unused.       *)
(***************************************************************************)

Writing(i) == c[i].pc \in {"index", "idem"}

ShareInv ==
    /\ KeysDoNotShareJobs
    /\ \A a \in acked, nk \in Nodes \X Keys :
          idem[nk] = a.job => nk = <<a.node, a.key>>
    /\ \A nk, ml \in Nodes \X Keys :
          idem[nk] = idem[ml] /\ idem[nk] # NoJob => nk = ml
    /\ \A i \in Clients : Writing(i) =>
          /\ job[c[i].at].status # "absent"
          /\ \A nk \in Nodes \X Keys : idem[nk] # c[i].at
          /\ \A a \in acked : a.job # c[i].at
          /\ \A k \in Clients \ {i} : Writing(k) => c[k].at # c[i].at

\* No key names a job at the start.
LEMMA InitShareInv == Init => ShareInv
BY DEF Init, ShareInv, KeysDoNotShareJobs, Writing, IdleSubmit

\* Only a submit changes what the keys and the answers name.
LEMMA WhoNames ==
    ASSUME TypeInv, [Next]_vars
    PROVE  \/ UNCHANGED <<c, idem, acked>>
           \/ \E i \in Clients : SubmitStep(i) \/ AbortSubmit(i)
<1>1. ASSUME NEW s \in Handlers,
             PullList(s) \/ PullStep(s) \/ \E j \in Jobs, b \in Blobs : ResultRead(s, j, b)
      PROVE  UNCHANGED <<c, idem, acked>>
  BY <1>1 DEF PullList, PullStep, PullReply, PullEntry, PullJob, PullLease, PullFail,
              PullDrop, ResultRead
<1>2. ASSUME NEW s \in Handlers, ResultStep(s) \/ AbortRequest(s)
      PROVE  UNCHANGED <<c, idem, acked>>
  BY <1>2 DEF ResultStep, ResultPut, ResultUnindex, CountRead, CountWrite, AbortRequest
<1>3. ASSUME NEW j \in Jobs, LeaseLapse(j)
      PROVE  UNCHANGED <<c, idem, acked>>
  BY <1>3 DEF LeaseLapse
<1>4. UNCHANGED vars => UNCHANGED <<c, idem, acked>>
  BY DEF vars
<1> QED
  BY <1>1, <1>2, <1>3, <1>4 DEF Next

\* A step of one submit leaves the others where they are.
LEMMA OthersStay ==
    ASSUME TypeInv, NEW i \in Clients, SubmitStep(i) \/ AbortSubmit(i)
    PROVE  \A k \in Clients \ {i} : c'[k] = c[k]
BY DEF SubmitStep, SubmitLookup, SubmitBacklog, SubmitRecord, SubmitIndex, SubmitIdem,
       Acknowledge, AbortSubmit, TypeInv, TypeOK

\* No step makes a job absent again.
LEMMA CreatedStays ==
    ASSUME TypeInv, [Next]_vars, NEW j \in Jobs, job[j].status # "absent"
    PROVE  job'[j].status # "absent"
BY Writes DEF Delivered

\* While keys and answers stay, a submit that is done with its job, keeps it or
\* has just created it keeps the invariant.
LEMMA ShareInvKept ==
    ASSUME TypeInv, ShareInv, [Next]_vars, UNCHANGED <<idem, acked>>,
           NEW i \in Clients, \A k \in Clients \ {i} : c'[k] = c[k],
           \/ c'[i].pc \notin {"index", "idem"}
           \/ Writing(i) /\ c'[i].at = c[i].at
           \/ /\ c'[i].at \in Jobs /\ job[c'[i].at].status = "absent"
              /\ job'[c'[i].at].status # "absent"
              /\ \A nk \in Nodes \X Keys : idem[nk] # c'[i].at
              /\ \A a \in acked : a.job # c'[i].at
    PROVE  ShareInv'
<1> DEFINE Free(j) == /\ \A nk \in Nodes \X Keys : idem[nk] # j
                      /\ \A a \in acked : a.job # j
<1>1. \A k \in Clients : Writing(k) => /\ c[k].at \in Jobs /\ job[c[k].at].status # "absent"
                                       /\ job'[c[k].at].status # "absent" /\ Free(c[k].at)
  BY CreatedStays DEF Writing, ShareInv, TypeInv, SubmitOK
<1>2. ASSUME NEW k \in Clients, Writing(k)'
      PROVE  job'[c'[k].at].status # "absent" /\ Free(c'[k].at)
  BY <1>1, <1>2 DEF Writing
<1>3. ASSUME NEW k \in Clients, NEW m \in Clients \ {k}, Writing(k)', Writing(m)'
      PROVE  c'[m].at # c'[k].at
  <2>1. CASE k # i /\ m # i
    BY <1>3, <2>1 DEF Writing, ShareInv
  <2>2. CASE Writing(i) /\ c'[i].at = c[i].at
    BY <1>3, <2>2 DEF Writing, ShareInv
  <2>3. CASE job[c'[i].at].status = "absent" /\ (k = i \/ m = i)
    BY <1>1, <1>3, <2>3 DEF Writing
  <2> QED
    BY <1>3, <2>1, <2>2, <2>3 DEF Writing
<1>4. KeysDoNotShareJobs'
  BY DEF ShareInv, KeysDoNotShareJobs
<1> QED
  BY <1>2, <1>3, <1>4 DEF ShareInv

\* Every step keeps ids apart.
LEMMA StepShareInv == TypeInv /\ ReachInv /\ ShareInv /\ [Next]_vars => ShareInv'
<1> SUFFICES ASSUME TypeInv, ReachInv, ShareInv, [Next]_vars
             PROVE  ShareInv'
  OBVIOUS
<1>1. CASE UNCHANGED <<c, idem, acked>>
  BY <1>1, CreatedStays DEF ShareInv, KeysDoNotShareJobs, Writing, TypeInv, SubmitOK
<1>2. ASSUME NEW i \in Clients, SubmitStep(i) \/ AbortSubmit(i)
      PROVE  ShareInv'
  <2>0. \A k \in Clients \ {i} : c'[k] = c[k]
    BY <1>2, OthersStay
  <2>1. ASSUME NEW n \in Nodes, NEW x \in Keys \cup {NoKey}, SubmitLookup(i, n, x)
        PROVE  ShareInv'
    <3>1. CASE x # NoKey /\ idem[<<n, x>>] # NoJob
      <4> DEFINE new == [node |-> n, key |-> x, job |-> idem[<<n, x>>]]
      <4>1. acked' = acked \cup {new} /\ c' = c /\ idem' = idem
        BY <2>1, <3>1 DEF SubmitLookup
      <4>2. <<n, x>> \in Nodes \X Keys
        BY <3>1
      <4>3. new.node = n /\ new.key = x /\ new.job = idem[<<n, x>>]
        OBVIOUS
      <4> HIDE DEF new
      <4>4. \A a \in acked', nk \in Nodes \X Keys : idem[nk] = a.job => nk = <<a.node, a.key>>
        BY <3>1, <4>1, <4>2, <4>3 DEF ShareInv
      <4>5. \A a \in acked : a.job = new.job => a.node = n /\ a.key = x
        <5> SUFFICES ASSUME NEW a \in acked, a.job = new.job
                     PROVE  a.node = n /\ a.key = x
          OBVIOUS
        <5>1. <<n, x>> = <<a.node, a.key>>
          BY <4>2, <4>3 DEF ShareInv
        <5> QED
          BY <5>1
      <4>6. KeysDoNotShareJobs'
        BY <4>1, <4>3, <4>5 DEF ShareInv, KeysDoNotShareJobs
      <4>7. \A k \in Clients : Writing(k) => new.job # c[k].at
        BY <4>2, <4>3 DEF ShareInv
      <4>8. job' = job
        BY <2>1 DEF SubmitLookup
      <4> QED
        BY <4>1, <4>4, <4>6, <4>7, <4>8 DEF ShareInv, Writing
    <3>2. CASE ~(x # NoKey /\ idem[<<n, x>>] # NoJob)
      <4>1. UNCHANGED <<idem, acked>>
        BY <2>1, <3>2 DEF SubmitLookup
      <4>2. CASE c' = c
        BY <1>1, <4>1, <4>2
      <4>3. CASE c'[i].pc = "backlog"
        BY <2>0, <4>1, <4>3, ShareInvKept
      <4> QED
        BY <2>1, <4>2, <4>3, SubmitPc
    <3> QED
      BY <3>1, <3>2
  <2>2. CASE SubmitBacklog(i)
    BY <2>0, <2>2, SubmitPc, ShareInvKept DEF SubmitBacklog
  <2>3. ASSUME NEW j \in Jobs, SubmitRecord(i, j)
        PROVE  ShareInv'
    <3>1. ~Reachable(j)
      BY <2>3 DEF SubmitRecord, Reachable, Delivered
    <3>2. /\ \A nk \in Nodes \X Keys : idem[nk] # j
          /\ \A a \in acked : a.job # j
      BY <3>1, JobsAssumption DEF ReachInv
    <3>3. job'[j].status = "queued"
      BY <2>3 DEF SubmitRecord, Queued, NoRecord, TypeInv, TypeOK
    <3>4. c'[i].at = j
      BY <2>3, SubmitPc
    <3>5. job[j].status = "absent" /\ UNCHANGED <<idem, acked>>
      BY <2>3 DEF SubmitRecord
    <3> QED
      BY <2>0, <3>2, <3>3, <3>4, <3>5, ShareInvKept
  <2>4. CASE SubmitIndex(i) \/ SubmitIdem(i)
    <3> DEFINE n == c[i].node
               x == c[i].key
               j == c[i].at
               new == [node |-> n, key |-> x, job |-> j]
    <3>1. c[i] \in Submit /\ SubmitOK(c[i]) /\ Writing(i) /\ job' = job
      BY <2>4 DEF SubmitIndex, SubmitIdem, Writing, TypeInv, TypeOK
    <3>2. n \in Nodes /\ x \in Keys \cup {NoKey} /\ j \in Jobs
      BY <3>1 DEF SubmitOK, Submit, Writing
    <3>3. /\ \A nk \in Nodes \X Keys : idem[nk] # j
          /\ \A a \in acked : a.job # j
          /\ \A k \in Clients \ {i} : Writing(k) => c[k].at # j
      BY <3>1 DEF ShareInv
    <3>4. new.node = n /\ new.key = x /\ new.job = j
      OBVIOUS
    <3>5. CASE SubmitIndex(i) /\ x # NoKey
      BY <2>0, <3>1, <3>5, SubmitPc, ShareInvKept DEF SubmitIndex
    <3>6. ASSUME acked' = acked \cup {new}
          PROVE  KeysDoNotShareJobs'
      <4> HIDE DEF new, n, x, j
      <4> QED
        BY <3>3, <3>4, <3>6 DEF ShareInv, KeysDoNotShareJobs
    <3>7. ASSUME acked' = acked \cup {new}, c'[i].pc = "idle",
                 \A nk \in Nodes \X Keys : idem'[nk] = idem[nk] \/ idem'[nk] = j
          PROVE  \A k \in Clients : Writing(k)' =>
                    /\ job'[c'[k].at].status # "absent"
                    /\ \A nk \in Nodes \X Keys : idem'[nk] # c'[k].at
                    /\ \A a \in acked' : a.job # c'[k].at
                    /\ \A m \in Clients \ {k} : Writing(m)' => c'[m].at # c'[k].at
      <4> HIDE DEF new, n, x, j
      <4>1. \A k \in Clients : Writing(k)' => k # i /\ Writing(k) /\ c'[k] = c[k]
        BY <2>0, <3>7 DEF Writing
      <4>2. ASSUME NEW k \in Clients, Writing(k)'
            PROVE  /\ job'[c'[k].at].status # "absent"
                   /\ \A nk \in Nodes \X Keys : idem'[nk] # c'[k].at
                   /\ \A a \in acked' : a.job # c'[k].at
        BY <3>1, <3>3, <3>4, <3>7, <4>1, <4>2 DEF ShareInv
      <4>3. ASSUME NEW k \in Clients, NEW m \in Clients \ {k}, Writing(k)', Writing(m)'
            PROVE  c'[m].at # c'[k].at
        BY <4>1, <4>3 DEF ShareInv
      <4> QED
        BY <4>2, <4>3
    <3>8. CASE SubmitIndex(i) /\ x = NoKey
      <4>1. acked' = acked \cup {new} /\ idem' = idem /\ c'[i].pc = "idle"
        BY <3>8, SubmitPc, <3>1 DEF SubmitIndex, Acknowledge
      <4> HIDE DEF new, n, x, j
      <4>2. \A a \in acked', nk \in Nodes \X Keys : idem'[nk] = a.job => nk = <<a.node, a.key>>
        BY <3>3, <3>4, <4>1 DEF ShareInv
      <4>3. \A nk, ml \in Nodes \X Keys : idem'[nk] = idem'[ml] /\ idem'[nk] # NoJob => nk = ml
        BY <4>1 DEF ShareInv
      <4> QED
        BY <3>6, <3>7, <4>1, <4>2, <4>3 DEF ShareInv
    <3>9. CASE SubmitIdem(i)
      <4>1. x \in Keys
        BY <3>1, <3>9 DEF SubmitIdem, SubmitOK
      <4>2. acked' = acked \cup {new} /\ c'[i].pc = "idle"
        BY <3>9, SubmitPc DEF SubmitIdem, Acknowledge
      <4>3. \A nk \in Nodes \X Keys : idem'[nk] = IF nk = <<n, x>> THEN j ELSE idem[nk]
        BY <3>2, <3>9, <4>1 DEF SubmitIdem, TypeInv, TypeOK
      <4> HIDE DEF new, n, x, j
      <4>4. \A a \in acked', nk \in Nodes \X Keys : idem'[nk] = a.job => nk = <<a.node, a.key>>
        BY <3>3, <3>4, <4>2, <4>3 DEF ShareInv
      <4>5. \A nk, ml \in Nodes \X Keys : idem'[nk] = idem'[ml] /\ idem'[nk] # NoJob => nk = ml
        BY <3>3, <4>3 DEF ShareInv
      <4> QED
        BY <3>6, <3>7, <4>2, <4>3, <4>4, <4>5 DEF ShareInv
    <3> QED
      BY <2>4, <3>5, <3>8, <3>9
  <2>5. CASE AbortSubmit(i)
    BY <2>0, <2>5, SubmitPc, ShareInvKept DEF AbortSubmit
  <2> QED
    BY <1>2, <2>1, <2>2, <2>3, <2>4, <2>5 DEF SubmitStep
<1> QED
  BY <1>1, <1>2, WhoNames

\* However many clients race with and without keys, and wherever their submits
\* are cut short: an id is told for one key at one node.
THEOREM KeysDoNotShareJobsHolds == Spec => []KeysDoNotShareJobs
<1>1. Init => TypeInv /\ ReachInv /\ ShareInv
  BY InitTypeInv, InitReachInv, InitShareInv
<1>2. TypeInv /\ ReachInv /\ ShareInv /\ [Next]_vars => (TypeInv /\ ReachInv /\ ShareInv)'
  BY StepTypeInv, StepReachInv, StepShareInv
<1>3. ShareInv => KeysDoNotShareJobs
  BY DEF ShareInv
<1> QED
  BY <1>1, <1>2, <1>3, PTL DEF Spec
-------------------------------------------------------------------------------
(***************************************************************************)
(* One key is one job, for a client that waits for a submit to end before  *)
(* the next: between its lookup of a key and the put nobody writes that    *)
(* key, so a key that names a job is never given another.                  *)
(***************************************************************************)

OneClient == \A i, k \in Clients : i = k

KeyInv ==
    /\ \A a \in acked : a.key # NoKey => idem[<<a.node, a.key>>] = a.job
    /\ \A i \in Clients :
          c[i].pc # "idle" /\ c[i].key # NoKey => idem[<<c[i].node, c[i].key>>] = NoJob

\* No key names a job at the start.
LEMMA InitKeyInv == Init => KeyInv
BY DEF Init, KeyInv, IdleSubmit

\* A submit that ends, or looks for a key that is free, keeps the key invariant.
LEMMA KeyInvKept ==
    ASSUME OneClient, TypeInv, KeyInv, UNCHANGED <<idem, acked>>, NEW i \in Clients,
           \/ c'[i].pc = "idle"
           \/ c'[i].node = c[i].node /\ c'[i].key = c[i].key /\ c[i].pc # "idle"
           \/ c'[i].key # NoKey => idem[<<c'[i].node, c'[i].key>>] = NoJob
    PROVE  KeyInv'
<1>1. \A k \in Clients : k = i
  BY DEF OneClient
<1>2. c'[i].pc # "idle" /\ c'[i].key # NoKey => idem[<<c'[i].node, c'[i].key>>] = NoJob
  BY DEF KeyInv
<1> QED
  BY <1>1, <1>2 DEF KeyInv

\* Every step of a client that waits for its submits keeps the key invariant.
LEMMA StepKeyInv ==
    ASSUME OneClient
    PROVE  TypeInv /\ ShareInv /\ KeyInv /\ [Next]_vars => KeyInv'
<1> SUFFICES ASSUME TypeInv, ShareInv, KeyInv, [Next]_vars
             PROVE  KeyInv'
  OBVIOUS
<1>1. CASE UNCHANGED <<c, idem, acked>>
  BY <1>1 DEF KeyInv
<1>2. ASSUME NEW i \in Clients, SubmitStep(i) \/ AbortSubmit(i)
      PROVE  KeyInv'
  <2>0. \A k \in Clients : k = i
    BY DEF OneClient
  <2>1. ASSUME NEW n \in Nodes, NEW x \in Keys \cup {NoKey}, SubmitLookup(i, n, x)
        PROVE  KeyInv'
    <3>1. CASE x # NoKey /\ idem[<<n, x>>] # NoJob
      <4> DEFINE new == [node |-> n, key |-> x, job |-> idem[<<n, x>>]]
      <4>1. acked' = acked \cup {new} /\ c' = c /\ idem' = idem /\ c[i].pc = "idle"
        BY <2>1, <3>1 DEF SubmitLookup
      <4>2. new.node = n /\ new.key = x /\ new.job = idem[<<n, x>>]
        OBVIOUS
      <4> HIDE DEF new
      <4>3. \A a \in acked' : a.key # NoKey => idem[<<a.node, a.key>>] = a.job
        BY <4>1, <4>2 DEF KeyInv
      <4> QED
        BY <2>0, <4>1, <4>3 DEF KeyInv
    <3>2. CASE ~(x # NoKey /\ idem[<<n, x>>] # NoJob)
      <4>1. UNCHANGED <<idem, acked>>
        BY <2>1, <3>2 DEF SubmitLookup
      <4>2. CASE c' = c
        BY <1>1, <4>1, <4>2
      <4>3. CASE c'[i].node = n /\ c'[i].key = x
        BY <3>2, <4>1, <4>3, KeyInvKept
      <4> QED
        BY <2>1, <4>2, <4>3, SubmitPc
    <3> QED
      BY <3>1, <3>2
  <2>2. CASE SubmitBacklog(i)
    BY <2>2, SubmitPc, KeyInvKept DEF SubmitBacklog
  <2>3. ASSUME NEW j \in Jobs, SubmitRecord(i, j)
        PROVE  KeyInv'
    BY <2>3, SubmitPc, KeyInvKept DEF SubmitRecord
  <2>4. CASE SubmitIndex(i) /\ c[i].key # NoKey
    BY <2>4, SubmitPc, KeyInvKept DEF SubmitIndex
  <2>5. CASE SubmitIndex(i) /\ c[i].key = NoKey
    <3> DEFINE new == [node |-> c[i].node, key |-> c[i].key, job |-> c[i].at]
    <3>1. acked' = acked \cup {new} /\ idem' = idem /\ c'[i].pc = "idle"
      BY <2>5, SubmitPc DEF SubmitIndex, Acknowledge, TypeInv, TypeOK, IdleSubmit
    <3>2. new.key = NoKey
      BY <2>5
    <3> HIDE DEF new
    <3> QED
      BY <2>0, <3>1, <3>2 DEF KeyInv
  <2>6. CASE SubmitIdem(i)
    <3> DEFINE n == c[i].node
               x == c[i].key
               j == c[i].at
               new == [node |-> n, key |-> x, job |-> j]
    <3>1. n \in Nodes /\ x \in Keys /\ x # NoKey
      BY <2>6, NullsAssumption DEF SubmitIdem, TypeInv, TypeOK, SubmitOK, Submit
    <3>2. acked' = acked \cup {new} /\ c'[i].pc = "idle"
      BY <2>6, SubmitPc DEF SubmitIdem, Acknowledge
    <3>3. \A nk \in Nodes \X Keys : idem'[nk] = IF nk = <<n, x>> THEN j ELSE idem[nk]
      BY <2>6, <3>1 DEF SubmitIdem, TypeInv, TypeOK
    <3>4. new.node = n /\ new.key = x /\ new.job = j /\ idem[<<n, x>>] = NoJob
      BY <2>6, <3>1 DEF SubmitIdem, KeyInv
    <3> HIDE DEF new, n, x, j
    <3>5. ASSUME NEW a \in acked', a.key # NoKey
          PROVE  idem'[<<a.node, a.key>>] = a.job
      <4>1. CASE a = new
        <5>1. <<n, x>> \in Nodes \X Keys
          BY <3>1
        <5> QED
          BY <3>3, <3>4, <4>1, <5>1
      <4>2. CASE a \in acked
        <5>1. <<a.node, a.key>> \in Nodes \X Keys /\ idem[<<a.node, a.key>>] # NoJob
          BY <3>5, <4>2, JobsAssumption DEF TypeInv, TypeOK, Ack, KeyInv
        <5> QED
          BY <3>3, <3>4, <3>5, <4>2, <5>1 DEF KeyInv
      <4> QED
        BY <3>2, <4>1, <4>2
    <3> QED
      BY <2>0, <3>2, <3>5 DEF KeyInv
  <2>7. CASE AbortSubmit(i)
    BY <2>7, SubmitPc, KeyInvKept DEF AbortSubmit
  <2> QED
    BY <1>2, <2>1, <2>2, <2>3, <2>4, <2>5, <2>6, <2>7 DEF SubmitStep
<1> QED
  BY <1>1, <1>2, WhoNames

\* However its submits are cut short and repeated, a client that waits for one to
\* end before the next is named one job for one key at one node, and a job once.
THEOREM IdempotentAckHolds ==
    ASSUME OneClient
    PROVE  Spec => []IdempotentAck
<1> DEFINE I == TypeInv /\ ReachInv /\ ShareInv /\ KeyInv
<1>1. Init => I
  BY InitTypeInv, InitReachInv, InitShareInv, InitKeyInv
<1>2. I /\ [Next]_vars => I'
  BY StepTypeInv, StepReachInv, StepShareInv, StepKeyInv
<1>3. I => IdempotentAck
  <2> SUFFICES ASSUME ShareInv, KeyInv, NEW a \in acked, NEW b \in acked, a.key # NoKey
               PROVE  a.job = b.job <=> a.node = b.node /\ a.key = b.key
    BY DEF IdempotentAck
  <2>1. a.node = b.node /\ a.key = b.key => a.job = b.job
    <3> SUFFICES ASSUME a.node = b.node, a.key = b.key
                 PROVE  a.job = b.job
      OBVIOUS
    <3>1. idem[<<a.node, a.key>>] = a.job /\ idem[<<b.node, b.key>>] = b.job
      BY DEF KeyInv
    <3> QED
      BY <3>1
  <2> QED
    BY <2>1 DEF ShareInv, KeysDoNotShareJobs
<1> QED
  BY <1>1, <1>2, <1>3, PTL DEF Spec
-------------------------------------------------------------------------------
(***************************************************************************)
(* The public counter.  A job is to be counted from the put of its result  *)
(* to the write of the counter; with one request per node that is one      *)
(* request, and what any of them read, with those still to be counted,     *)
(* does not exceed the jobs that are done.                                 *)
(***************************************************************************)

ToCount == {"unindex", "count", "bump"}

Uncounted == {j \in Jobs : \E s \in Handlers : h[s].at = j /\ h[s].pc \in ToCount}
DoneJobs == {j \in Jobs : job[j].status = "done"}

CountInv ==
    /\ \A s \in Handlers : h[s].pc \in ToCount =>
          job[h[s].at].status = "done" /\ job[h[s].at].node = s[1]
    /\ jobsDone + Cardinality(Uncounted) <= Cardinality(DoneJobs)
    /\ \A s \in Handlers : h[s].pc = "bump" =>
          h[s].cnt + Cardinality(Uncounted) <= Cardinality(DoneJobs)

\* The jobs are finitely many.
LEMMA FiniteCounts ==
    /\ IsFiniteSet(Uncounted) /\ Cardinality(Uncounted) \in Nat
    /\ IsFiniteSet(DoneJobs) /\ Cardinality(DoneJobs) \in Nat
<1>1. Uncounted \in SUBSET Jobs /\ DoneJobs \in SUBSET Jobs
  BY DEF Uncounted, DoneJobs
<1> QED
  BY <1>1, JobsAssumption, FS_Subset, FS_CardinalityType

\* Nothing is done and nothing counted at the start.
LEMMA InitCountInv == Init => CountInv
<1> SUFFICES ASSUME Init
             PROVE  CountInv
  OBVIOUS
<1>1. Uncounted = {} /\ DoneJobs = {} /\ jobsDone = 0
  BY DEF Init, Uncounted, DoneJobs, IdleHandler, NoRecord, ToCount
<1> QED
  BY <1>1, FS_EmptySet DEF Init, CountInv, IdleHandler, ToCount

\* Every step keeps the counter and those about to write it below what is done.
LEMMA StepCountInv ==
    ASSUME OneConn
    PROVE  TypeInv /\ SnapInv /\ CountInv /\ [Next]_vars => CountInv'
<1> SUFFICES ASSUME TypeInv, SnapInv, CountInv, [Next]_vars
             PROVE  CountInv'
  OBVIOUS
<1> DEFINE U == Uncounted
           D == DoneJobs
<1>0. /\ IsFiniteSet(U) /\ Cardinality(U) \in Nat /\ IsFiniteSet(D) /\ Cardinality(D) \in Nat
      /\ jobsDone \in Nat /\ \A s \in Handlers : h[s].cnt \in Nat
      /\ jobsDone + Cardinality(U) <= Cardinality(D)
      /\ \A s \in Handlers : h[s].pc = "bump" => h[s].cnt + Cardinality(U) <= Cardinality(D)
  BY FiniteCounts DEF CountInv, TypeInv, TypeOK, Handler
<1>1. \A s \in Handlers : h[s].pc \in ToCount => h[s].at \in Jobs
  BY DEF ToCount, TypeInv, HandlerOK, HoldsJob
<1>2. \A s, t \in Handlers : s[1] = t[1] => s = t
  BY DEF OneConn, Handlers
<1>3. D \subseteq D'
  BY EndedStays, LapseKeeps DEF DoneJobs, Ended
<1>4. ASSUME NEW s \in Handlers, ResultPut(s)
      PROVE  /\ job[h[s].at].status = "running" /\ job[h[s].at].node = s[1]
             /\ h[s].at \in Jobs
             /\ job'[h[s].at].status = "done" /\ job'[h[s].at].node = s[1]
  <2>1. /\ h[s].pc = "put" /\ h[s].at \in Jobs /\ h[s].snap \in Record
        /\ h[s].snap.node = s[1] /\ h[s].snap.status = "running"
        /\ Current(h[s], job[h[s].at])
    BY <1>4 DEF ResultPut, SnapInv, SnapOK, TypeInv, TypeOK, Handler, HandlerOK, HoldsJob
  <2>2. /\ Finished(h[s].snap, h[s].blob).status = "done"
        /\ Finished(h[s].snap, h[s].blob).node = s[1]
    BY <2>1 DEF Record, Finished
  <2> QED
    BY <1>4, <2>1, <2>2 DEF ResultPut, Current, TypeInv, TypeOK
\* How a request comes to hold a job to count.
<1>5. ASSUME NEW s \in Handlers, h'[s].pc \in ToCount
      PROVE  \/ h[s].pc \in ToCount /\ h'[s].at = h[s].at
             \/ ResultPut(s) /\ h'[s].at = h[s].at
  <2>1. CASE h'[s] = h[s]
    BY <1>5, <2>1
  <2>2. CASE ResultUnindex(s) \/ CountRead(s)
    <3>1. h[s] \in Handler
      BY DEF TypeInv, TypeOK
    <3>2. h[s].pc \in ToCount
      BY <2>2 DEF ResultUnindex, CountRead, ToCount
    <3>3. h'[s].at = h[s].at
      <4>1. CASE ResultUnindex(s)
        BY <3>1, <4>1 DEF ResultUnindex, TypeInv, TypeOK, Handler
      <4>2. CASE CountRead(s)
        BY <3>1, <4>2 DEF CountRead, TypeInv, TypeOK, Handler
      <4> QED
        BY <2>2, <4>1, <4>2
    <3> QED
      BY <3>2, <3>3
  <2>3. CASE ResultPut(s)
    BY <2>3, NextPc
  <2>4. CASE PullJob(s)
    <3>1. h'[s].pc \in {"next", "lease", "fail", "drop"}
      <4>1. h[s].at \in Jobs /\ s[1] \in Nodes
        BY <2>4 DEF PullJob, TypeInv, HandlerOK, HoldsJob, Handlers
      <4>2. job[h[s].at] \in Record /\ Consistent(job[h[s].at])
        BY <4>1 DEF TypeInv, TypeOK
      <4> QED
        BY <2>4, <4>1, <4>2, NextPc, Branches
    <3> QED
      BY <1>5, <3>1 DEF ToCount
  <2> QED
    BY <1>5, <2>1, <2>2, <2>3, <2>4, Moves, NextPc DEF PullStep, ResultStep, ToCount
<1>6. ASSUME NEW s \in Handlers, h'[s].pc \in ToCount
      PROVE  job'[h'[s].at].status = "done" /\ job'[h'[s].at].node = s[1]
  <2>1. CASE h[s].pc \in ToCount /\ h'[s].at = h[s].at
    <3>1. h[s].at \in Jobs /\ job[h[s].at].status = "done" /\ job[h[s].at].node = s[1]
      BY <1>1, <2>1 DEF CountInv
    <3> QED
      BY <2>1, <3>1, EndedStays, LapseKeeps DEF Ended
  <2>2. CASE ResultPut(s) /\ h'[s].at = h[s].at
    BY <1>4, <2>2
  <2> QED
    BY <1>5, <1>6, <2>1, <2>2
<1>7. ASSUME NEW s \in Handlers, ResultPut(s)
      PROVE  /\ jobsDone' + Cardinality(U') <= Cardinality(D')
             /\ \A t \in Handlers : h'[t].pc = "bump" =>
                   h'[t].cnt + Cardinality(U') <= Cardinality(D')
  <2> DEFINE j == h[s].at
  <2>1. j \in Jobs /\ j \notin D /\ j \in D'
    BY <1>4, <1>7 DEF DoneJobs
  <2>2. j \notin U
    BY <1>4, <1>7 DEF Uncounted, CountInv
  <2>3. U' \subseteq U \cup {j}
    <3> SUFFICES ASSUME NEW i \in U' PROVE i \in U \cup {j}
      OBVIOUS
    <3>1. PICK t \in Handlers : h'[t].at = i /\ h'[t].pc \in ToCount
      BY DEF Uncounted
    <3>2. CASE t = s
      BY <1>7, <3>1, <3>2, NextPc
    <3>3. CASE t # s
      <4>1. h'[t] = h[t]
        BY <1>7, <3>3 DEF ResultPut, TypeInv, TypeOK
      <4> QED
        BY <1>1, <3>1, <4>1 DEF Uncounted
    <3> QED
      BY <3>2, <3>3
  <2> HIDE DEF j, U, D
  <2>4. /\ Cardinality(U \cup {j}) = Cardinality(U) + 1 /\ IsFiniteSet(U \cup {j})
        /\ Cardinality(D \cup {j}) = Cardinality(D) + 1 /\ IsFiniteSet(D \cup {j})
    BY <1>0, <2>1, <2>2, FS_AddElement
  <2>5. D' \in SUBSET Jobs /\ U' \in SUBSET (U \cup {j}) /\ D \cup {j} \in SUBSET D'
    BY <1>3, <2>1, <2>3 DEF D, DoneJobs
  <2>6. IsFiniteSet(D') /\ Cardinality(D') \in Nat
    BY <2>5, JobsAssumption, FS_Subset, FS_CardinalityType
  <2>7. /\ Cardinality(U') <= Cardinality(U) + 1 /\ Cardinality(U') \in Nat
        /\ Cardinality(D) + 1 <= Cardinality(D')
    BY <2>4, <2>5, <2>6, FS_Subset, FS_CardinalityType
  <2>8. jobsDone' = jobsDone
    BY <1>7 DEF ResultPut
  <2>9. \A t \in Handlers : h'[t].pc = "bump" => h[t].pc = "bump" /\ h'[t] = h[t]
    BY <1>7, NextPc DEF ResultPut, TypeInv, TypeOK
  <2>10. jobsDone' + Cardinality(U') <= Cardinality(D')
    BY <1>0, <2>6, <2>7, <2>8
  <2>11. ASSUME NEW t \in Handlers, h'[t].pc = "bump"
         PROVE  h'[t].cnt + Cardinality(U') <= Cardinality(D')
    <3>1. h[t].cnt + Cardinality(U) <= Cardinality(D) /\ h[t].cnt \in Nat /\ h'[t] = h[t]
      BY <1>0, <2>9, <2>11
    <3>2. h'[t].cnt = h[t].cnt
      BY <3>1
    <3> QED
      BY <1>0, <2>6, <2>7, <3>1, <3>2
  <2> QED
    BY <2>10, <2>11
<1>8. ASSUME NEW s \in Handlers, CountWrite(s)
      PROVE  /\ jobsDone' + Cardinality(U') <= Cardinality(D')
             /\ \A t \in Handlers : h'[t].pc = "bump" =>
                   h'[t].cnt + Cardinality(U') <= Cardinality(D')
  <2> DEFINE j == h[s].at
  <2>1. h[s].pc = "bump" /\ j \in U
    BY <1>1, <1>8 DEF CountWrite, Uncounted, ToCount
  <2>2. \A t \in Handlers : t # s => h'[t] = h[t]
    BY <1>8 DEF CountWrite, TypeInv, TypeOK
  <2>3. h'[s].pc = "idle" /\ jobsDone' = h[s].cnt + 1 /\ job' = job
    BY <1>8, NextPc DEF CountWrite
  <2>4. ASSUME NEW t \in Handlers, t # s, h[t].pc \in ToCount
        PROVE  h[t].at # j
    <3>1. job[h[t].at].node = t[1] /\ job[j].node = s[1]
      BY <2>1, <2>4 DEF CountInv, ToCount
    <3> QED
      BY <1>2, <2>4, <3>1
  <2>5. U' \subseteq U \ {j}
    <3> SUFFICES ASSUME NEW i \in U' PROVE i \in U \ {j}
      OBVIOUS
    <3>1. PICK t \in Handlers : h'[t].at = i /\ h'[t].pc \in ToCount
      BY DEF Uncounted
    <3>2. t # s
      BY <2>3, <3>1 DEF ToCount
    <3> QED
      BY <1>1, <2>2, <2>4, <3>1, <3>2 DEF Uncounted
  <2>6. D' = D
    BY <2>3 DEF DoneJobs
  <2> HIDE DEF j, U, D
  <2>7. Cardinality(U \ {j}) = Cardinality(U) - 1 /\ IsFiniteSet(U \ {j})
    BY <1>0, <2>1, FS_RemoveElement
  <2>8. Cardinality(U') <= Cardinality(U) - 1 /\ Cardinality(U') \in Nat
    BY <2>5, <2>7, FS_Subset, FS_CardinalityType
  <2>9. jobsDone' + Cardinality(U') <= Cardinality(D')
    BY <1>0, <2>1, <2>3, <2>6, <2>8
  <2>10. ASSUME NEW t \in Handlers, h'[t].pc = "bump"
         PROVE  h'[t].cnt + Cardinality(U') <= Cardinality(D')
    <3>1. t # s
      BY <2>3, <2>10
    <3>2. h'[t] = h[t]
      BY <2>2, <3>1
    <3>3. h[t].cnt + Cardinality(U) <= Cardinality(D) /\ h[t].cnt \in Nat /\ h'[t].cnt = h[t].cnt
      BY <1>0, <2>10, <3>2
    <3> QED
      BY <1>0, <2>6, <2>8, <3>3
  <2> QED
    BY <2>9, <2>10
<1>9. ASSUME \A s \in Handlers : ~ResultPut(s) /\ ~CountWrite(s)
      PROVE  /\ jobsDone' + Cardinality(U') <= Cardinality(D')
             /\ \A t \in Handlers : h'[t].pc = "bump" =>
                   h'[t].cnt + Cardinality(U') <= Cardinality(D')
  <2>1. jobsDone' = jobsDone
    BY <1>9 DEF Next, vars, SubmitStep, SubmitLookup, SubmitBacklog, SubmitRecord,
         SubmitIndex, SubmitIdem, AbortSubmit, PullList, PullStep, PullReply, PullEntry,
         PullJob, PullLease, PullFail, PullDrop, ResultRead, ResultStep, ResultUnindex,
         CountRead, AbortRequest, LeaseLapse
  <2>2. U' \subseteq U
    BY <1>1, <1>5, <1>9 DEF Uncounted
  <2>3. ASSUME NEW t \in Handlers, h'[t].pc = "bump"
        PROVE  h'[t].cnt \in Nat /\ h'[t].cnt + Cardinality(U) <= Cardinality(D)
    <3>1. CASE h'[t] = h[t]
      BY <1>0, <2>3, <3>1
    <3>2. CASE CountRead(t)
      <4>1. h'[t].cnt = jobsDone
        BY <3>2 DEF CountRead, TypeInv, TypeOK, Handler
      <4> QED
        BY <1>0, <4>1
    <3>3. CASE PullJob(t)
      <4>1. h[t].at \in Jobs /\ t[1] \in Nodes
        BY <3>3 DEF PullJob, TypeInv, HandlerOK, HoldsJob, Handlers
      <4>2. job[h[t].at] \in Record /\ Consistent(job[h[t].at])
        BY <4>1 DEF TypeInv, TypeOK
      <4> QED
        BY <2>3, <3>3, <4>1, <4>2, NextPc, Branches
    <3> QED
      BY <1>9, <2>3, <3>1, <3>2, <3>3, Moves, NextPc DEF PullStep, ResultStep
  <2> HIDE DEF U, D
  <2>4. U' \in SUBSET U /\ D \in SUBSET D' /\ D' \in SUBSET Jobs
    BY <1>3, <2>2 DEF D, DoneJobs
  <2>5. IsFiniteSet(D') /\ Cardinality(D') \in Nat
    BY <2>4, JobsAssumption, FS_Subset, FS_CardinalityType
  <2>6. /\ Cardinality(U') <= Cardinality(U) /\ Cardinality(U') \in Nat
        /\ Cardinality(D) <= Cardinality(D')
    BY <1>0, <2>4, <2>5, FS_Subset, FS_CardinalityType
  <2> QED
    BY <1>0, <2>1, <2>3, <2>5, <2>6
<1> QED
  BY <1>6, <1>7, <1>8, <1>9 DEF CountInv

\* With one request per node, the counter never exceeds the jobs that are done,
\* though a bump that read early may land late.
THEOREM JobsDoneIsFloorHolds ==
    ASSUME OneConn
    PROVE  Spec => []JobsDoneIsFloor
<1>1. TypeInv /\ SnapInv /\ CountInv /\ [Next]_vars => CountInv'
  BY StepCountInv
<1>2. TypeInv /\ CountInv => JobsDoneIsFloor
  BY FiniteCounts DEF TypeInv, TypeOK, CountInv, DoneJobs, JobsDoneIsFloor
<1> QED
  BY <1>1, <1>2, InitCountInv, SpecSnapInv, PTL DEF Spec
-------------------------------------------------------------------------------
(***************************************************************************)
(* The counter from below, where one request is served at a time: what it  *)
(* read is still what is stored when it writes, so each result that is not *)
(* counted was put by a request that is counting or was cut short.         *)
(***************************************************************************)

OneRequest == \A s, t \in Handlers : s = t

Counting == {s \in Handlers : h[s].pc \in ToCount}

MissInv ==
    /\ Cardinality(DoneJobs) <= jobsDone + aborts + Cardinality(Counting)
    /\ \A s \in Handlers : h[s].pc = "bump" => h[s].cnt = jobsDone

\* With one handler, nobody or that one is counting.
LEMMA WhoCounts ==
    ASSUME OneRequest, NEW s \in Handlers
    PROVE  /\ Cardinality(Counting) = IF h[s].pc \in ToCount THEN 1 ELSE 0
           /\ Cardinality(Counting') = IF h'[s].pc \in ToCount THEN 1 ELSE 0
<1>1. \A S \in SUBSET Handlers : Cardinality(S) = IF s \in S THEN 1 ELSE 0
  <2> SUFFICES ASSUME NEW S \in SUBSET Handlers
               PROVE  Cardinality(S) = IF s \in S THEN 1 ELSE 0
    OBVIOUS
  <2>1. CASE s \in S
    <3>1. S = {s}
      BY <2>1 DEF OneRequest
    <3> QED
      BY <2>1, <3>1, FS_Singleton
  <2>2. CASE s \notin S
    <3>1. S = {}
      BY <2>2 DEF OneRequest
    <3> QED
      BY <2>2, <3>1, FS_EmptySet
  <2> QED
    BY <2>1, <2>2
<1>2. Counting \in SUBSET Handlers /\ Counting' \in SUBSET Handlers
  BY DEF Counting
<1>3. (s \in Counting <=> h[s].pc \in ToCount) /\ (s \in Counting' <=> h'[s].pc \in ToCount)
  BY DEF Counting
<1> QED
  BY <1>1, <1>2, <1>3

\* A job becomes done by the put of its result.
LEMMA BecomesDone ==
    ASSUME TypeInv, [Next]_vars, NEW j \in DoneJobs', j \notin DoneJobs
    PROVE  \E t \in Handlers : ResultPut(t) /\ h[t].at = j
<1>1. j \in Jobs /\ job'[j].status = "done" /\ job[j].status # "done"
  BY DEF DoneJobs
<1>2. ASSUME NEW i \in Clients, SubmitRecord(i, j)
      PROVE  FALSE
  BY <1>1, <1>2 DEF SubmitRecord, Queued, NoRecord, TypeInv, TypeOK
<1>3. ~LeaseLapse(j)
  BY <1>1 DEF LeaseLapse, TypeInv, TypeOK, Record
<1>4. ASSUME NEW t \in Handlers, PullLease(t) \/ PullFail(t), h[t].at = j
      PROVE  FALSE
  <2>1. h[t].snap \in Record
    BY DEF TypeInv, TypeOK, Handler
  <2>2. Leased(h[t].snap).status = "running" /\ Failed(h[t].snap).status = "failed"
    BY <2>1 DEF Record, Leased, Failed
  <2> QED
    BY <1>1, <1>4, <2>2 DEF PullLease, PullFail, TypeInv, TypeOK
<1> QED
  BY <1>1, <1>2, <1>3, <1>4, WhoWrites DEF Puts

\* What the steps of a request do to the counter, and where they leave it.
LEMMA CounterSteps ==
    ASSUME TypeInv, [Next]_vars, NEW s \in Handlers, OneRequest
    PROVE  \/ CountWrite(s)
           \/ jobsDone' = jobsDone /\ ResultPut(s)
           \/ /\ jobsDone' = jobsDone /\ aborts' = aborts /\ ~ResultPut(s)
              /\ h[s].pc \in ToCount => h'[s].pc \in ToCount
           \/ jobsDone' = jobsDone /\ aborts' = aborts + 1 /\ ~ResultPut(s)
<1>1. ASSUME ~CountWrite(s)
      PROVE  jobsDone' = jobsDone
  BY <1>1 DEF OneRequest, Next, vars, SubmitStep, SubmitLookup, SubmitBacklog, SubmitRecord,
       SubmitIndex, SubmitIdem, AbortSubmit, PullList, PullStep, PullReply, PullEntry,
       PullJob, PullLease, PullFail, PullDrop, ResultRead, ResultStep, ResultPut,
       ResultUnindex, CountRead, AbortRequest, LeaseLapse
<1>2. aborts' = aborts \/ aborts' = aborts + 1
  BY DEF Next, vars, SubmitStep, SubmitLookup, SubmitBacklog, SubmitRecord,
       SubmitIndex, SubmitIdem, AbortSubmit, PullList, PullStep, PullReply, PullEntry,
       PullJob, PullLease, PullFail, PullDrop, ResultRead, ResultStep, ResultPut,
       ResultUnindex, CountRead, CountWrite, AbortRequest, LeaseLapse
<1>3. ASSUME aborts' = aborts, h[s].pc \in ToCount, ~CountWrite(s)
      PROVE  h'[s].pc \in ToCount
  <2>1. CASE h'[s] = h[s]
    BY <1>3, <2>1
  <2>2. CASE h'[s] # h[s]
    <3>1. ~AbortRequest(s)
      BY <1>3 DEF AbortRequest, TypeInv, TypeOK
    <3>2. ResultUnindex(s) \/ CountRead(s)
      BY <1>3, <2>2, <3>1, Moves
         DEF ToCount, PullList, PullStep, PullReply, PullEntry, Walking, PullJob, PullLease,
             PullFail, PullDrop, ResultRead, ResultStep, ResultPut
    <3> QED
      BY <3>2, NextPc DEF ToCount
  <2> QED
    BY <2>1, <2>2
<1> QED
  BY <1>1, <1>2, <1>3

\* What is about to be written is one more than what is stored.
LEMMA StepRead ==
    ASSUME OneRequest, TypeInv, MissInv, [Next]_vars, NEW s \in Handlers, h'[s].pc = "bump"
    PROVE  h'[s].cnt = jobsDone'
<1>1. ~CountWrite(s) /\ ~ResultPut(s)
  BY NextPc
<1>2. jobsDone' = jobsDone
  BY <1>1, CounterSteps
<1>3. CASE h'[s] = h[s]
  BY <1>2, <1>3 DEF MissInv
<1>4. CASE CountRead(s)
  BY <1>2, <1>4 DEF CountRead, TypeInv, TypeOK, Handler
<1>5. CASE PullJob(s)
  <2>1. h[s].at \in Jobs /\ s[1] \in Nodes
    BY <1>5 DEF PullJob, TypeInv, HandlerOK, HoldsJob, Handlers
  <2>2. job[h[s].at] \in Record /\ Consistent(job[h[s].at])
    BY <2>1 DEF TypeInv, TypeOK
  <2> QED
    BY <1>5, <2>1, <2>2, NextPc, Branches
<1> QED
  BY <1>1, <1>3, <1>4, <1>5, Moves, NextPc DEF PullStep, ResultStep

\* Every step of the one handler keeps the count of what is missed.
LEMMA StepMissInv ==
    ASSUME OneRequest, NEW s \in Handlers
    PROVE  TypeInv /\ MissInv /\ [Next]_vars => MissInv'
<1> SUFFICES ASSUME TypeInv, MissInv, [Next]_vars
             PROVE  MissInv'
  OBVIOUS
<1> DEFINE D == DoneJobs
           C == Cardinality(Counting)
<1>1. /\ D \in SUBSET Jobs /\ D' \in SUBSET Jobs
      /\ IsFiniteSet(D) /\ Cardinality(D) \in Nat
      /\ IsFiniteSet(D') /\ Cardinality(D') \in Nat
  <2>1. D \in SUBSET Jobs /\ D' \in SUBSET Jobs
    BY DEF DoneJobs
  <2> QED
    BY <2>1, JobsAssumption, FS_Subset, FS_CardinalityType
<1>2. /\ C = IF h[s].pc \in ToCount THEN 1 ELSE 0
      /\ C' = IF h'[s].pc \in ToCount THEN 1 ELSE 0
  BY WhoCounts
<1>3. jobsDone \in Nat /\ aborts \in Nat /\ Cardinality(D) <= jobsDone + aborts + C
  BY LimitsAssumption DEF TypeInv, TypeOK, MissInv
<1>4. ASSUME ~ResultPut(s)
      PROVE  Cardinality(D') <= Cardinality(D)
  <2>1. D' \in SUBSET D
    BY <1>4, BecomesDone DEF OneRequest
  <2> QED
    BY <1>1, <2>1, FS_Subset
<1>5. Cardinality(D') <= jobsDone' + aborts' + C'
  <2>1. CASE CountWrite(s)
    <3>1. h[s].pc = "bump" /\ h[s].cnt = jobsDone /\ jobsDone' = jobsDone + 1 /\ aborts' = aborts
      BY <2>1 DEF CountWrite, MissInv
    <3>2. h'[s].pc = "idle" /\ ~ResultPut(s)
      BY <2>1, <3>1, NextPc DEF ResultPut
    <3> HIDE DEF D, C
    <3> QED
      BY <1>1, <1>2, <1>3, <1>4, <3>1, <3>2 DEF ToCount
  <2>2. CASE ResultPut(s) /\ jobsDone' = jobsDone
    <3>1. h[s].pc = "put" /\ aborts' = aborts /\ h'[s].pc = "unindex"
      BY <2>2, NextPc DEF ResultPut
    <3>2. D' \in SUBSET (D \cup {h[s].at})
      BY BecomesDone DEF OneRequest
    <3>3. IsFiniteSet(D \cup {h[s].at}) /\ Cardinality(D \cup {h[s].at}) \in Nat
          /\ Cardinality(D \cup {h[s].at}) <= Cardinality(D) + 1
      <4> DEFINE j == h[s].at
      <4> HIDE DEF D, j
      <4>1. /\ IsFiniteSet(D \cup {j})
            /\ Cardinality(D \cup {j}) = IF j \in D THEN Cardinality(D) ELSE Cardinality(D) + 1
        BY <1>1, FS_AddElement
      <4> QED
        BY <1>1, <4>1 DEF j
    <3>4. Cardinality(D') <= Cardinality(D \cup {h[s].at})
      BY <3>2, <3>3, FS_Subset
    <3> HIDE DEF D, C
    <3>5. C = 0 /\ C' = 1
      BY <1>2, <3>1 DEF ToCount
    <3> QED
      BY <1>1, <1>3, <2>2, <3>1, <3>3, <3>4, <3>5
  <2>3. CASE /\ jobsDone' = jobsDone /\ aborts' = aborts /\ ~ResultPut(s)
             /\ h[s].pc \in ToCount => h'[s].pc \in ToCount
    <3> HIDE DEF D, C
    <3> QED
      BY <1>1, <1>2, <1>3, <1>4, <2>3
  <2>4. CASE jobsDone' = jobsDone /\ aborts' = aborts + 1 /\ ~ResultPut(s)
    <3> HIDE DEF D, C
    <3> QED
      BY <1>1, <1>2, <1>3, <1>4, <2>4
  <2> QED
    BY <2>1, <2>2, <2>3, <2>4, CounterSteps
<1> QED
  BY <1>5, StepRead DEF MissInv

\* A coordinator that serves one request at a time counts every job it stores as
\* done, but for one per request cut short: what more it misses, requests that
\* overlap lose.
THEOREM CounterMissesOnlyCutHolds ==
    ASSUME OneRequest, NEW s \in Handlers
    PROVE  Spec => []CounterMissesOnlyCut
<1>1. Init => MissInv
  <2> SUFFICES ASSUME Init
               PROVE  MissInv
    OBVIOUS
  <2>1. DoneJobs = {} /\ jobsDone = 0 /\ aborts = 0 /\ h[s].pc = "idle"
    BY DEF Init, DoneJobs, NoRecord, IdleHandler
  <2>2. Cardinality(DoneJobs) = 0 /\ Cardinality(Counting) = 0
    BY <2>1, WhoCounts, FS_EmptySet DEF ToCount
  <2> QED
    BY <2>1, <2>2 DEF Init, MissInv, IdleHandler
<1>2. TypeInv /\ MissInv /\ [Next]_vars => MissInv'
  BY StepMissInv
<1>3. MissInv => CounterMissesOnlyCut
  BY DEF MissInv, CounterMissesOnlyCut, DoneJobs, Counting, ToCount
<1>4. TypeInv /\ [Next]_vars => TypeInv'
  BY StepTypeInv
<1> QED
  BY <1>1, <1>2, <1>3, <1>4, InitTypeInv, PTL DEF Spec
===============================================================================
