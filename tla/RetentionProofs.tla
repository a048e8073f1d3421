---------------------------- MODULE RetentionProofs ----------------------------
(***************************************************************************)
(* What Retention promises, for every ttl, lease and number of jobs.  The  *)
(* times are proved from where each of them started: created.              *)
(***************************************************************************)
EXTENDS Retention, TLAPS

\* What is known of a job in each status.
JobOK(j) ==
    /\ rec[j].created <= now
    /\ entry[j] <= rec[j].created + QueuedTtl
    /\ rec[j].status = "absent" => /\ rec[j].attempts = 0
                                   /\ entry[j] = 0 /\ rec[j].until = 0
                                   /\ j \notin acked /\ idem.job # j
    /\ rec[j].status = "queued" => /\ rec[j].attempts = 0
                                   /\ entry[j] \in {0, rec[j].created + QueuedTtl}
                                   /\ rec[j].until = rec[j].created + QueuedTtl
                                   /\ j \in acked => entry[j] = rec[j].created + QueuedTtl
                                   /\ idem.job = j => entry[j] = rec[j].created + QueuedTtl
    /\ rec[j].status = "running" => /\ entry[j] = rec[j].created + QueuedTtl
                                    /\ rec[j].until >= rec[j].created + QueuedTtl
                                    /\ rec[j].until < rec[j].created + 2 * QueuedTtl
    /\ rec[j].until < rec[j].created + 2 * QueuedTtl + DoneTtl

\* The key goes with the queue time of the job it names; a job told to a client
\* and no longer named is past its queue time.
KeyOK(j) ==
    /\ idem.job = j => idem.until = rec[j].created + QueuedTtl
    /\ j \in acked /\ idem.job # j => now >= rec[j].created + QueuedTtl

IInv ==
    /\ TypeOK
    /\ idem.job = NoJob => idem.until = 0
    /\ \A j \in Jobs : JobOK(j) /\ KeyOK(j)

\* The empty store satisfies the invariant.
LEMMA InitIInv == Init => IInv
BY RetentionAssumption DEF Init, IInv, TypeOK, JobOK, KeyOK, Record, Statuses

\* A step that writes the record, or the entry, of one job.
LEMMA OneJob ==
  ASSUME IInv, NEW j \in Jobs, NEW r \in Record, NEW e \in Nat,
         rec' = [rec EXCEPT ![j] = r], entry' = [entry EXCEPT ![j] = e],
         UNCHANGED <<now, idem, acked>>, JobOK(j)', KeyOK(j)'
  PROVE  IInv'
<1>1. TypeOK'
  BY DEF IInv, TypeOK
<1>2. ASSUME NEW i \in Jobs, i # j
      PROVE  JobOK(i)' /\ KeyOK(i)'
  <2>1. rec'[i] = rec[i] /\ entry'[i] = entry[i]
    BY <1>2 DEF IInv, TypeOK
  <2>2. JobOK(i) /\ KeyOK(i)
    BY DEF IInv
  <2> QED
    BY <2>1, <2>2 DEF JobOK, KeyOK
<1> QED
  BY <1>1, <1>2 DEF IInv

\* Every step keeps the invariant.
LEMMA StepIInv == IInv /\ [Next]_vars => IInv'
<1> SUFFICES ASSUME IInv, [Next]_vars
             PROVE  IInv'
  OBVIOUS
<1> USE RetentionAssumption
<1>1. ASSUME NEW j \in Jobs, NEW reached \in {"record", "entry", "key", "answer"},
             Submit(j, reached)
      PROVE  IInv'
  <2>0. /\ rec[j] \in Record /\ entry[j] = 0 /\ now \in Nat
        /\ j \notin acked /\ idem.job # j
    BY <1>1 DEF Submit, IInv, TypeOK, JobOK
  <2>1. /\ rec' = [rec EXCEPT ![j] = Fresh]
        /\ entry' \in [Jobs -> Nat]
        /\ \A i \in Jobs \ {j} : entry'[i] = entry[i]
        /\ entry'[j] = IF reached = "record" THEN 0 ELSE now + QueuedTtl
        /\ now' = now
    BY <1>1, <2>0 DEF Submit, EntryUntil, IInv, TypeOK
  <2>2. TypeOK'
    <3>1. Fresh \in Record
      BY <2>0 DEF Fresh, Record, Statuses
    <3>2. rec' \in [Jobs -> Record] /\ now' \in Nat
      BY <2>0, <2>1, <3>1 DEF IInv, TypeOK
    <3>3. idem' \in [job : Jobs \cup {NoJob}, until : Nat] /\ acked' \subseteq Jobs
      BY <1>1, <2>0 DEF Submit, KeyUntil, IInv, TypeOK
    <3> QED
      BY <2>1, <3>2, <3>3 DEF TypeOK
  <2>3. idem'.job = NoJob => idem'.until = 0
    BY <1>1 DEF Submit, KeyUntil, IInv
  <2>4. ASSUME NEW i \in Jobs, i # j
        PROVE  JobOK(i)' /\ KeyOK(i)'
    <3>1. rec'[i] = rec[i] /\ rec[i] \in Record /\ entry'[i] = entry[i]
      BY <2>1, <2>4 DEF IInv, TypeOK
    <3>2. JobOK(i) /\ KeyOK(i)
      BY DEF IInv
    <3>3. (i \in acked' <=> i \in acked) /\ (idem'.job = i => idem' = idem)
      BY <1>1, <2>4 DEF Submit
    <3>4. idem.job = i => now >= rec[i].created + QueuedTtl
      BY <1>1, <3>2 DEF Submit, Keyed, KeyOK, IInv, TypeOK
    <3> QED
      BY <2>0, <2>1, <3>1, <3>2, <3>3, <3>4 DEF JobOK, KeyOK, Record, IInv, TypeOK
  <2>5. JobOK(j)' /\ KeyOK(j)'
    <3>1. rec'[j] = Fresh
      BY <2>1 DEF IInv, TypeOK
    <3>2. /\ j \in acked' => reached = "answer" /\ idem'.job = j
          /\ idem'.job = j => reached \in {"key", "answer"}
          /\ idem'.job = j => idem'.until = now + QueuedTtl
      BY <1>1, <2>0 DEF Submit, KeyUntil
    <3> QED
      BY <2>0, <2>1, <3>1, <3>2 DEF JobOK, KeyOK, Fresh
  <2> QED
    BY <2>2, <2>3, <2>4, <2>5 DEF IInv
<1>2. CASE Duplicate
  <2>1. idem.job \in Jobs
    BY <1>2 DEF Duplicate, Keyed, IInv, TypeOK
  <2>2. TypeOK' /\ (idem'.job = NoJob => idem'.until = 0)
    BY <1>2, <2>1 DEF Duplicate, IInv, TypeOK
  <2>3. ASSUME NEW i \in Jobs
        PROVE  JobOK(i)' /\ KeyOK(i)'
    <3>1. JobOK(i) /\ KeyOK(i)
      BY DEF IInv
    <3> QED
      BY <1>2, <3>1 DEF Duplicate, JobOK, KeyOK
  <2> QED
    BY <2>2, <2>3 DEF IInv
<1>3. ASSUME NEW j \in Jobs, PullDrop(j)
      PROVE  IInv'
  <2>1. rec[j] \in Record /\ JobOK(j) /\ KeyOK(j) /\ now < entry[j]
        /\ now \in Nat /\ entry[j] \in Nat
    BY <1>3 DEF PullDrop, Listed, IInv, TypeOK
  <2>2. /\ rec[j].status # "running"
        /\ ~(rec[j].status = "queued" /\ entry[j] = rec[j].created + QueuedTtl)
    BY <1>3, <2>1 DEF PullDrop, Present, Ended, JobOK, Record
  <2>3. rec' = [rec EXCEPT ![j] = rec[j]] /\ entry' = [entry EXCEPT ![j] = 0]
    BY <1>3 DEF PullDrop, Delete, IInv, TypeOK
  <2>4. rec'[j] = rec[j] /\ entry'[j] = 0
    BY <2>3 DEF IInv, TypeOK
  <2>5. UNCHANGED <<now, idem, acked>>
    BY <1>3 DEF PullDrop
  <2>6. JobOK(j)' /\ KeyOK(j)'
    BY <2>1, <2>2, <2>4, <2>5 DEF JobOK, KeyOK, Record
  <2> QED
    BY <2>1, <2>3, <2>5, <2>6, OneJob
<1>4. ASSUME NEW j \in Jobs, PullFail(j) \/ Result(j)
      PROVE  IInv'
  <2>1. /\ rec[j] \in Record /\ JobOK(j) /\ KeyOK(j) /\ now < rec[j].until
        /\ now \in Nat /\ entry[j] \in Nat /\ rec[j].status = "running"
    BY <1>4 DEF PullFail, Result, Present, Exhausted, IInv, TypeOK
  <2>2. PICK s \in {"done", "failed"} : End(j, s)
    BY <1>4 DEF PullFail, Result
  <2> DEFINE r == [rec[j] EXCEPT !.status = s, !.until = now + DoneTtl]
  <2>3. r \in Record
    <3>1. s \in Statuses /\ now + DoneTtl \in Nat
      BY <2>1 DEF Statuses
    <3> QED
      BY <2>1, <3>1 DEF Record
  <2>4. rec' = [rec EXCEPT ![j] = r]
    BY <2>2 DEF End
  <2>5. PICK e \in {0, entry[j]} : entry' = [entry EXCEPT ![j] = e]
    BY <1>4 DEF PullFail, Result, Delete, IInv, TypeOK
  <2>6. rec'[j] = r /\ entry'[j] = e /\ e \in Nat
    BY <2>1, <2>4, <2>5 DEF IInv, TypeOK
  <2>7. UNCHANGED <<now, idem, acked>>
    BY <1>4 DEF PullFail, Result
  <2>8. JobOK(j)' /\ KeyOK(j)'
    BY <2>1, <2>5, <2>6, <2>7 DEF JobOK, KeyOK, Record
  <2> QED
    BY <2>3, <2>4, <2>5, <2>6, <2>7, <2>8, OneJob
<1>5. ASSUME NEW j \in Jobs, PullLease(j)
      PROVE  IInv'
  <2>1. /\ rec[j] \in Record /\ JobOK(j) /\ KeyOK(j) /\ now < entry[j]
        /\ now < rec[j].until
        /\ now \in Nat /\ entry[j] \in Nat
    BY <1>5 DEF PullLease, Deliverable, Listed, Present, IInv, TypeOK
  <2>2. /\ rec[j].status \in {"queued", "running"}
        /\ rec[j].status = "running" => rec[j].attempts < MaxAttempts
    BY <1>5, <2>1
       DEF PullLease, Deliverable, Ended, Exhausted, Record, Statuses, JobOK
  <2>3. rec' = [rec EXCEPT ![j] = Leased(rec[j])] /\ UNCHANGED <<now, idem, acked>>
    BY <1>5 DEF PullLease
  <2>4. Leased(rec[j]) \in Record
    <3>1. rec[j].attempts + 1 \in 0..MaxAttempts
      BY <2>1, <2>2 DEF JobOK, Record
    <3>2. now + Lease \in Nat /\ now + QueuedTtl \in Nat /\ "running" \in Statuses
      BY <2>1 DEF Statuses
    <3> QED
      BY <2>1, <3>1, <3>2 DEF Leased, Record
  <2>5. entry' = [entry EXCEPT ![j] = entry[j]]
    BY <1>5 DEF PullLease, IInv, TypeOK
  <2>6. rec'[j] = Leased(rec[j]) /\ entry'[j] = entry[j]
    BY <2>3, <2>5 DEF IInv, TypeOK
  <2>7. JobOK(j)' /\ KeyOK(j)'
    BY <2>1, <2>2, <2>3, <2>6 DEF JobOK, KeyOK, Leased, Record
  <2> QED
    BY <2>1, <2>3, <2>4, <2>5, <2>7, OneJob
<1>6. CASE Tick
  <2>1. TypeOK' /\ (idem'.job = NoJob => idem'.until = 0)
    BY <1>6 DEF Tick, IInv, TypeOK
  <2>2. ASSUME NEW i \in Jobs
        PROVE  JobOK(i)' /\ KeyOK(i)'
    <3>1. JobOK(i) /\ KeyOK(i) /\ rec[i] \in Record /\ now \in Nat
      BY DEF IInv, TypeOK
    <3> QED
      BY <1>6, <3>1 DEF Tick, JobOK, KeyOK, Record
  <2> QED
    BY <2>1, <2>2 DEF IInv
<1>7. CASE UNCHANGED vars
  BY <1>7 DEF vars, IInv, TypeOK, JobOK, KeyOK
<1> QED
  BY <1>1, <1>2, <1>3, <1>4, <1>5, <1>6, <1>7 DEF Next

\* The invariant holds throughout.
LEMMA SpecIInv == Spec => []IInv
<1> QED
  BY InitIInv, StepIInv, PTL DEF Spec

\* Every reachable state is well typed: no lease takes attempts past MaxAttempts.
THEOREM RetentionTypeCorrect == Spec => []TypeOK
<1>1. IInv => TypeOK
  BY DEF IInv
<1> QED
  BY <1>1, SpecIInv, PTL

\* An answered job that has not ended is listed for the whole of its queue time.
THEOREM UnfinishedIsListedHolds == Spec => []UnfinishedIsListed
<1>1. IInv => UnfinishedIsListed
  <2> SUFFICES ASSUME IInv, NEW j \in acked, ~Ended(j), now < rec[j].created + QueuedTtl
               PROVE  Listed(j)
    BY DEF UnfinishedIsListed
  <2>1. j \in Jobs /\ JobOK(j) /\ rec[j].status \in {"queued", "running"}
    BY DEF IInv, TypeOK, JobOK, Record, Statuses, Ended
  <2> QED
    BY <2>1 DEF JobOK, Listed
<1> QED
  BY <1>1, SpecIInv, PTL

\* While a job told to a client is deliverable, its key is live and names it.
THEOREM KeyCoversDeliveryHolds == Spec => []KeyCoversDelivery
<1>1. IInv => KeyCoversDelivery
  <2> SUFFICES ASSUME IInv, NEW j \in acked, Deliverable(j)
               PROVE  Keyed /\ idem.job = j
    BY DEF KeyCoversDelivery
  <2>1. j \in Jobs /\ JobOK(j) /\ KeyOK(j) /\ rec[j] \in Record
        /\ now \in Nat /\ entry[j] \in Nat
    BY DEF IInv, TypeOK
  <2>2. now < rec[j].created + QueuedTtl
    BY <2>1, RetentionAssumption DEF Deliverable, Listed, JobOK, Record
  <2>3. idem.job = j
    BY <2>1, <2>2, RetentionAssumption DEF KeyOK, Record
  <2> QED
    BY <2>1, <2>2, <2>3 DEF KeyOK, Keyed
<1> QED
  BY <1>1, SpecIInv, PTL

\* A live key never names a job that was lost, only one that is there or ended.
THEOREM KeyNeverNamesLostJobHolds == Spec => []KeyNeverNamesLostJob
<1>1. IInv => KeyNeverNamesLostJob
  <2> SUFFICES ASSUME IInv, Keyed
               PROVE  Present(idem.job) \/ Ended(idem.job)
    BY DEF KeyNeverNamesLostJob
  <2>1. idem.job \in Jobs /\ now \in Nat
    BY DEF IInv, TypeOK, Keyed
  <2>2. JobOK(idem.job) /\ KeyOK(idem.job) /\ rec[idem.job] \in Record
    BY <2>1 DEF IInv, TypeOK
  <2>3. now < rec[idem.job].created + QueuedTtl
    BY <2>2 DEF KeyOK, Keyed
  <2> QED
    BY <2>1, <2>2, <2>3, RetentionAssumption
       DEF JobOK, Present, Ended, Record, Statuses
<1> QED
  BY <1>1, SpecIInv, PTL

\* No record outlives two queue times and a result time, counted from its submit.
THEOREM LifeBoundedHolds == Spec => []LifeBounded
<1>1. IInv => LifeBounded
  <2> SUFFICES ASSUME IInv, NEW j \in Jobs, Present(j)
               PROVE  now < rec[j].created + 2 * QueuedTtl + DoneTtl
    BY DEF LifeBounded
  <2>1. JobOK(j) /\ rec[j] \in Record /\ now \in Nat
    BY DEF IInv, TypeOK
  <2> QED
    BY <2>1, RetentionAssumption DEF JobOK, Present, Record
<1> QED
  BY <1>1, SpecIInv, PTL
-------------------------------------------------------------------------------
(***************************************************************************)
(* Requests see a mailbox: what expires takes a job out of reach but never *)
(* through a step the mailbox does not have, and never back.               *)
(***************************************************************************)

\* What a step may do to job j.
MailboxStep(j) ==
    \/ Mailbox(j)!Next
    \/ Forgotten(j)
    \/ UNCHANGED <<rec[j], Found(j), Held(j)>>

\* A step that only moves the clock ends a lease, or forgets an old record, and does
\* nothing else to a job.
LEMMA TickLapses ==
    ASSUME IInv, Tick, NEW j \in Jobs
    PROVE  MailboxStep(j)
<1>1. rec' = rec /\ now' = now + 1 /\ now \in Nat /\ rec[j] \in Record /\ JobOK(j)
  BY DEF Tick, IInv, TypeOK
<1>2. Present(j)' => Present(j)
  BY <1>1 DEF Present, Record
<1>3. Waiting(j)' => Waiting(j)
  BY <1>1 DEF Waiting, Record
<1>4. CASE Present(j) /\ ~Present(j)'
  <2>1. Ended(j) \/ now' >= rec[j].created + QueuedTtl
    BY <1>1, <1>4, RetentionAssumption DEF JobOK, Present, Ended, Record, Statuses
  <2> QED
    BY <1>1, <1>4, <2>1 DEF MailboxStep, Forgotten
<1>5. CASE Present(j)' = Present(j)
  <2>1. Found(j)' = Found(j)
    BY <1>1, <1>5 DEF Found
  <2>2. CASE Held(j) /\ ~Held(j)'
    <3>1. Mailbox(j)!Lapse(j)
      BY <1>1, <2>1, <2>2 DEF Mailbox!Lapse
    <3> QED
      BY <3>1 DEF MailboxStep, Mailbox!Next
  <2>3. CASE Held(j)' = Held(j)
    BY <1>1, <2>1, <2>3 DEF MailboxStep
  <2> QED
    BY <1>3, <1>5, <2>2, <2>3 DEF Held, Present, Waiting
<1> QED
  BY <1>2, <1>4, <1>5 DEF Present

\* A step that leaves the clock alone and a record as it was leaves the job alone.
LEMMA Unmoved ==
    ASSUME NEW j \in Jobs, rec'[j] = rec[j], now' = now
    PROVE  MailboxStep(j)
BY DEF MailboxStep, Found, Held, Present, Waiting

\* Each handler takes the job it is about through one step of the mailbox.
LEMMA HandlerSteps ==
    ASSUME IInv, IInv', NEW j \in Jobs,
           \/ \E reached \in {"record", "entry", "key", "answer"} : Submit(j, reached)
           \/ PullFail(j) \/ PullLease(j) \/ Result(j)
    PROVE  Mailbox(j)!Next
<1> USE RetentionAssumption
<1>0. /\ rec[j] \in Record /\ now \in Nat /\ now' = now /\ JobOK(j)
      /\ rec \in [Jobs -> Record] /\ now + DoneTtl > now /\ now + QueuedTtl > now
  BY DEF IInv, TypeOK, Submit, PullFail, PullLease, Result
<1>1. ASSUME NEW reached \in {"record", "entry", "key", "answer"}, Submit(j, reached)
      PROVE  Mailbox(j)!Next
  <2>1. rec[j].status = "absent" /\ rec'[j] = Fresh
    BY <1>0, <1>1 DEF Submit
  <2>2. rec[j].attempts = 0
    BY <1>0, <2>1 DEF JobOK
  <2>3. ~Held(j) /\ Found(j) = "absent"
    BY <2>1 DEF Held, Waiting, Found
  <2>4. ~Held(j)' /\ Found(j)' = "queued" /\ rec'[j].attempts = 0
    BY <1>0, <2>1 DEF Fresh, Held, Waiting, Found, Present
  <2>5. Mailbox(j)!Accept(j)
    BY <2>2, <2>3, <2>4 DEF Mailbox!Accept
  <2> QED
    BY <2>5 DEF Mailbox!Next
<1>2. CASE PullFail(j)
  <2>1. rec'[j] = [rec[j] EXCEPT !.status = "failed", !.until = now + DoneTtl]
    BY <1>0, <1>2 DEF PullFail, End
  <2>2. /\ rec[j].status = "running" /\ rec[j].attempts = MaxAttempts
        /\ ~Waiting(j) /\ Present(j)
    BY <1>0, <1>2 DEF PullFail, Exhausted, Record
  <2>3. rec'[j].status = "failed" /\ rec'[j].attempts = rec[j].attempts /\ Present(j)'
    BY <1>0, <2>1 DEF Record, Present
  <2>4. Found(j) = "running" /\ ~Held(j) /\ Found(j)' = "failed" /\ ~Held(j)'
    BY <2>2, <2>3 DEF Found, Held, Waiting
  <2>5. Mailbox(j)!GiveUp(j)
    BY <2>2, <2>3, <2>4 DEF Mailbox!GiveUp
  <2> QED
    BY <2>5 DEF Mailbox!Next
<1>3. CASE PullLease(j)
  <2>1. rec'[j] = Leased(rec[j])
    BY <1>0, <1>3 DEF PullLease
  <2>2. /\ rec[j].status \in {"queued", "running"} /\ rec[j].attempts < MaxAttempts
        /\ ~Waiting(j) /\ Present(j)
    BY <1>0, <1>3 DEF PullLease, Deliverable, Ended, Exhausted, Record, Statuses, JobOK, Present
  <2>3. /\ rec'[j].status = "running" /\ rec'[j].attempts = rec[j].attempts + 1
        /\ Waiting(j)' /\ Present(j)'
    BY <1>0, <2>1 DEF Leased, Record, Waiting, Present
  <2>4. /\ Found(j) \in {"queued", "running"} /\ ~Held(j)
        /\ Found(j)' = "running" /\ Held(j)'
    BY <2>2, <2>3 DEF Found, Held
  <2>5. Mailbox(j)!Deliver(j)
    BY <2>2, <2>3, <2>4 DEF Mailbox!Deliver
  <2> QED
    BY <2>5 DEF Mailbox!Next
<1>4. CASE Result(j)
  <2>1. rec'[j] = [rec[j] EXCEPT !.status = "done", !.until = now + DoneTtl]
    BY <1>0, <1>4 DEF Result, End
  <2>2. rec[j].status = "running" /\ Present(j)
    BY <1>4 DEF Result
  <2>3. rec'[j].status = "done" /\ rec'[j].attempts = rec[j].attempts /\ Present(j)'
    BY <1>0, <2>1 DEF Record, Present
  <2>4. Found(j) = "running" /\ Found(j)' = "done" /\ ~Held(j)'
    BY <2>2, <2>3 DEF Found, Held, Waiting
  <2>5. Mailbox(j)!Finish(j, "result")
    BY <2>3, <2>4 DEF Mailbox!Finish
  <2> QED
    BY <2>5 DEF Mailbox!Next
<1> QED
  BY <1>1, <1>2, <1>3, <1>4

\* For every ttl and lease, and wherever handlers are cut short, requests see each job
\* take only the steps of JobMailbox until its record goes, which is not before its queue
\* time unless it ended; after that they see no step.
THEOREM MailboxStepsHold == Spec => MailboxSteps
<1>1. Init => \A j \in Jobs : Mailbox(j)!Init
  <2> SUFFICES ASSUME Init, NEW j \in Jobs
               PROVE  Mailbox(j)!Init
    OBVIOUS
  <2>1. rec[j] = [status |-> "absent", attempts |-> 0, lease |-> 0, created |-> 0, until |-> 0]
    BY DEF Init
  <2>2. rec[j].status = "absent" /\ rec[j].attempts = 0
    BY <2>1
  <2> QED
    BY <2>2 DEF Found, Held, Waiting, Mailbox!Init
<1>2. ASSUME IInv, IInv', [Next]_vars, NEW j \in Jobs
      PROVE  MailboxStep(j)
  <2>1. CASE Tick
    BY <1>2, <2>1, TickLapses
  <2>2. CASE Duplicate \/ UNCHANGED vars
    BY <2>2, Unmoved DEF Duplicate, vars
  <2>3. ASSUME NEW i \in Jobs,
               \/ \E reached \in {"record", "entry", "key", "answer"} : Submit(i, reached)
               \/ PullFail(i) \/ PullLease(i) \/ Result(i)
        PROVE  MailboxStep(j)
    <3>1. CASE i = j
      BY <1>2, <2>3, <3>1, HandlerSteps DEF MailboxStep
    <3>2. CASE i # j
      <4>1. rec'[j] = rec[j] /\ now' = now
        BY <1>2, <2>3, <3>2 DEF Submit, PullFail, PullLease, Result, End, IInv, TypeOK
      <4> QED
        BY <4>1, Unmoved
    <3> QED
      BY <3>1, <3>2
  <2>4. ASSUME NEW i \in Jobs, PullDrop(i)
        PROVE  MailboxStep(j)
    BY <2>4, Unmoved DEF PullDrop
  <2> QED
    BY <1>2, <2>1, <2>2, <2>3, <2>4 DEF Next
<1>3. IInv /\ IInv' /\ [Next]_vars =>
         [\A j \in Jobs : MailboxStep(j)]_vars
  BY <1>2
<1> QED
  BY <1>1, <1>3, SpecIInv, PTL DEF Spec, MailboxSteps, MailboxStep
===============================================================================
