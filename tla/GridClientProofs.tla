--------------------------- MODULE GridClientProofs ---------------------------
(***************************************************************************)
(* What a submit and its retries can rely on, for any number of nodes,     *)
(* jobs, keys, submits and processes.                                      *)
(***************************************************************************)
EXTENDS GridClient, FiniteSetTheorems, TLAPS

\* Submit c has asked for a job and was neither served nor forgotten.
Pending(c) == c \in late \/ (pc = "post" /\ c = calls)

CallsOK ==
    /\ \A c \in Calls : (told[c] # NoJob \/ Pending(c)) => c <= calls
    /\ \A c \in Calls : ~(told[c] # NoJob /\ Pending(c))
    /\ pc = "post" => calls \in Calls /\ calls \notin late
    /\ \A c \in 1..calls : /\ asked[c].node \in Nodes
                           /\ asked[c].sealed <= nodes[asked[c].node]

IdemOK ==
    \A n \in Nodes, x \in Keys :
        LET j == idempotency[<<n, x>>] IN
        j # NoJob => /\ jobs[j].status # "absent"
                     /\ jobs[j].to = n
                     /\ asked[jobs[j].reply].key = x

\* A job that exists is the one its first submit asked for.
MadeOK(j) ==
    LET f == jobs[j].reply
        x == asked[f].key
    IN  /\ f \in 1..calls /\ ~Pending(f)
        /\ jobs[j].to = asked[f].node /\ jobs[j].sealed = asked[f].sealed
        /\ jobs[j].receipt \in {0, jobs[j].sealed}
        /\ told[f] \in {NoJob, j}
        /\ x # NoKey => idempotency[<<jobs[j].to, x>>] = j
        /\ told[f] = j /\ f > born => keys[j] = f /\ file[j] \in {0, f}

\* Whoever else was told of it asked the same node under the same key, later.
ToldOK(j) ==
    LET f == jobs[j].reply IN
    \A c \in Calls : told[c] = j =>
        /\ jobs[j].status # "absent"
        /\ jobs[j].to = asked[c].node
        /\ c = f \/ (c > f /\ asked[c].key = asked[f].key /\ asked[f].key # NoKey)

KeptOK(j) ==
    /\ keys[j] # 0 => told[keys[j]] = j
    /\ file[j] # 0 => told[file[j]] = j

OutcomeOK(j) ==
    LET f == jobs[j].reply IN
    /\ outcome[j] # "none" => jobs[j].status \in {"done", "failed"}
    /\ outcome[j] = "unreadable" =>
          /\ told[f] = NoJob \/ f <= born
          /\ \E c \in Calls : c > f /\ told[c] = j
    /\ outcome[j] = "refuted" => nodes[jobs[j].to] > jobs[j].sealed

JobOK(j) ==
    /\ jobs[j].status # "absent" => MadeOK(j)
    /\ jobs[j].status = "absent" => jobs[j] = Absent
    /\ jobs[j].status = "queued" => jobs[j].attempts = 0 /\ jobs[j].lease = "lapsed"
    /\ ToldOK(j)
    /\ KeptOK(j)
    /\ OutcomeOK(j)

IInv == TypeOK /\ CallsOK /\ IdemOK /\ \A j \in Jobs : JobOK(j)

\* The client that has done nothing satisfies the invariant.
LEMMA InitIInv == Init => IInv
<1> SUFFICES ASSUME Init PROVE IInv
  OBVIOUS
<1> USE MockAssumption, ClientAssumption
<1>1. MockTypeOK
  <2>1. Absent \in Job
    BY DEF Absent, Job
  <2> QED
    BY <2>1 DEF Init, MockInit, MockTypeOK
<1>2. TypeOK
  BY <1>1 DEF Init, MockInit, TypeOK, NoAsk, Ask, Calls, Outcomes
<1>3. CallsOK /\ IdemOK
  BY DEF Init, MockInit, CallsOK, IdemOK, Pending
<1>4. ASSUME NEW j \in Jobs PROVE JobOK(j)
  BY DEF Init, MockInit, JobOK, MadeOK, ToldOK, KeptOK, OutcomeOK, Absent
<1> QED
  BY <1>2, <1>3, <1>4 DEF IInv

\* A request that is served makes a job that was absent, or names one under its key.
LEMMA ServeEffect ==
  ASSUME IInv, NEW c \in Calls, NEW j \in Jobs, Pending(c), Serve(c, j)
  PROVE  LET n == asked[c].node
             x == asked[c].key
         IN  /\ n \in Nodes /\ x \in Keys \cup {NoKey} /\ nodes' = nodes /\ jobsDone' = jobsDone
             /\ \/ /\ x \in Keys /\ j = idempotency[<<n, x>>]
                   /\ UNCHANGED <<jobs, idempotency>>
                \/ /\ jobs[j].status = "absent"
                   /\ jobs' = [jobs EXCEPT ![j] = Queued(n, asked[c].sealed, c)]
                   /\ x = NoKey => idempotency' = idempotency
                   /\ x \in Keys => /\ idempotency' = [idempotency EXCEPT ![<<n, x>>] = j]
                                    /\ idempotency[<<n, x>>] = NoJob
<1> DEFINE n == asked[c].node
           x == asked[c].key
<1> USE MockAssumption, ClientAssumption
<1>1. n \in Nodes /\ x \in Keys \cup {NoKey}
  BY DEF IInv, TypeOK, Ask, CallsOK, Calls
<1>2. nodes' = nodes /\ jobsDone' = jobsDone
  BY DEF Serve, CreateJob
<1>3. CASE Known(n, x)
  BY <1>1, <1>2, <1>3 DEF Serve, CreateJob, Known
<1>4. CASE ~Known(n, x)
  <2>1. NextSeq(j)
    BY <1>4 DEF Serve, CreateJob
  <2>2. jobs[j].status = "absent"
    <3>1. ~(j < j)
      BY DEF MockAssumption
    <3> QED
      BY <2>1, <3>1 DEF NextSeq
  <2>3. /\ jobs' = [jobs EXCEPT ![j] = Queued(n, asked[c].sealed, c)]
        /\ idempotency' = Filed(n, x, j)
    BY <1>4 DEF Serve, CreateJob
  <2>4. x = NoKey => idempotency' = idempotency
    BY <2>3 DEF Filed
  <2>5. x \in Keys => /\ idempotency' = [idempotency EXCEPT ![<<n, x>>] = j]
                      /\ idempotency[<<n, x>>] = NoJob
    BY <1>4, <2>3 DEF Filed, Known
  <2> QED
    BY <1>1, <1>2, <2>2, <2>3, <2>4, <2>5
<1> QED
  BY <1>3, <1>4

\* The typing of a served request.
LEMMA ServeTyped ==
  ASSUME IInv, NEW c \in Calls, NEW j \in Jobs, Pending(c), Serve(c, j)
  PROVE  MockTypeOK'
<1> DEFINE n == asked[c].node
           x == asked[c].key
           new == Queued(n, asked[c].sealed, c)
<1> USE MockAssumption, ClientAssumption
<1>1. n \in Nodes /\ x \in Keys \cup {NoKey} /\ nodes' = nodes /\ jobsDone' = jobsDone
  BY ServeEffect
<1>2. asked[c].sealed \in Nat /\ c \in Nat
  BY DEF IInv, TypeOK, Ask, Calls
<1>3. new \in Job
  BY <1>1, <1>2 DEF Job, Queued
<1>4. jobs' \in [Jobs -> Job]
  <2>1. CASE jobs' = jobs
    BY <2>1 DEF IInv, TypeOK, MockTypeOK
  <2>2. CASE jobs' = [jobs EXCEPT ![j] = new]
    BY <2>2, <1>3 DEF IInv, TypeOK, MockTypeOK
  <2> QED
    BY <2>1, <2>2, ServeEffect
<1>5. idempotency' \in [Nodes \X Keys -> Jobs \cup {NoJob}]
  <2>1. CASE idempotency' = idempotency
    BY <2>1 DEF IInv, TypeOK, MockTypeOK
  <2>2. CASE idempotency' = [idempotency EXCEPT ![<<n, x>>] = j]
    BY <2>2 DEF IInv, TypeOK, MockTypeOK
  <2> QED
    BY <1>1, <2>1, <2>2, ServeEffect
<1> QED
  BY <1>1, <1>4, <1>5 DEF IInv, TypeOK, MockTypeOK

\* A request that is served, whether the client hears of it or not.
LEMMA ServeStep ==
  ASSUME IInv, NEW c \in Calls, NEW j \in Jobs, Pending(c), Serve(c, j),
         UNCHANGED <<calls, asked, born, file, outcome>>,
         late' \subseteq late, pc' \in {pc, "idle"},
         \A d \in Calls : Pending(d)' <=> Pending(d) /\ d # c,
         \/ told' = told /\ keys' = keys
         \/ c = calls /\ told' = [told EXCEPT ![c] = j] /\ keys' = Kept(j, c)
  PROVE  IInv'
<1> DEFINE n == asked[c].node
           x == asked[c].key
           new == Queued(n, asked[c].sealed, c)
<1> USE MockAssumption, ClientAssumption
<1>1. /\ n \in Nodes /\ x \in Keys \cup {NoKey} /\ nodes' = nodes /\ jobsDone' = jobsDone
      /\ \/ x \in Keys /\ j = idempotency[<<n, x>>] /\ UNCHANGED <<jobs, idempotency>>
         \/ /\ jobs[j].status = "absent" /\ jobs' = [jobs EXCEPT ![j] = new]
            /\ x = NoKey => idempotency' = idempotency
            /\ x \in Keys => /\ idempotency' = [idempotency EXCEPT ![<<n, x>>] = j]
                             /\ idempotency[<<n, x>>] = NoJob
  BY ServeEffect
<1>2. told[c] = NoJob /\ c <= calls /\ calls \in Nat /\ c \in Nat
  BY DEF IInv, CallsOK, TypeOK, Calls
<1>3. Kept(j, c) \in [Jobs -> 0..MaxCalls]
  BY DEF Kept, IInv, TypeOK, Calls
<1>4. TypeOK'
  <2>1. told' \in [Calls -> Jobs \cup {NoJob}] /\ keys' \in [Jobs -> 0..MaxCalls]
    BY <1>3 DEF IInv, TypeOK
  <2> QED
    BY ServeTyped, <1>1, <2>1 DEF IInv, TypeOK
<1>5. CallsOK'
  <2>1. \A d \in Calls : told'[d] # NoJob => (told[d] # NoJob \/ d = c)
    BY DEF IInv, TypeOK
  <2>2. pc' = "post" => pc = "post"
    OBVIOUS
  <2> QED
    BY <2>1, <2>2, <1>1, <1>2 DEF IInv, CallsOK
<1>6. ASSUME NEW i \in Jobs, jobs[i].status # "absent"
      PROVE  jobs'[i] = jobs[i] /\ jobs[i].reply # c
  <2>1. ~Pending(jobs[i].reply)
    BY <1>6 DEF IInv, JobOK, MadeOK
  <2>2. CASE jobs' = jobs
    BY <2>1, <2>2
  <2>3. CASE jobs[j].status = "absent" /\ jobs' = [jobs EXCEPT ![j] = new]
    BY <2>1, <2>3, <1>6 DEF IInv, TypeOK, MockTypeOK
  <2> QED
    BY <1>1, <2>2, <2>3
<1>7. IdemOK'
  <2> SUFFICES ASSUME NEW m \in Nodes, NEW y \in Keys, idempotency'[<<m, y>>] # NoJob
               PROVE  LET i == idempotency'[<<m, y>>] IN
                      /\ jobs'[i].status # "absent"
                      /\ jobs'[i].to = m
                      /\ asked[jobs'[i].reply].key = y
    BY DEF IdemOK
  <2>1. CASE idempotency'[<<m, y>>] = idempotency[<<m, y>>]
    <3>1. idempotency[<<m, y>>] \in Jobs
      BY <2>1 DEF IInv, TypeOK, MockTypeOK
    <3>2. /\ jobs[idempotency[<<m, y>>]].status # "absent"
          /\ jobs[idempotency[<<m, y>>]].to = m
          /\ asked[jobs[idempotency[<<m, y>>]].reply].key = y
      BY <2>1 DEF IInv, IdemOK
    <3> QED
      BY <2>1, <3>1, <3>2, <1>6
  <2>2. CASE idempotency'[<<m, y>>] # idempotency[<<m, y>>]
    <3>1. m = n /\ y = x /\ idempotency'[<<m, y>>] = j /\ jobs'[j] = new
      BY <1>1, <2>2 DEF IInv, TypeOK, MockTypeOK
    <3> QED
      BY <3>1 DEF Queued
  <2> QED
    BY <2>1, <2>2
<1>8. ASSUME NEW i \in Jobs, jobs[i].status # "absent" PROVE JobOK(i)'
  <2>1. jobs'[i] = jobs[i] /\ jobs[i].reply # c
    BY <1>6, <1>8
  <2>2. JobOK(i) /\ MadeOK(i)
    BY <1>8 DEF IInv, JobOK
  <2>3. jobs[i].reply \in 1..calls /\ jobs[i].reply \in Calls
    BY <2>2, <1>2 DEF MadeOK, IInv, TypeOK, Calls
  <2>4. told'[jobs[i].reply] = told[jobs[i].reply]
    BY <2>1, <2>3 DEF IInv, TypeOK
  <2>5. i = j => told[c] = NoJob /\ (x \in Keys /\ i = idempotency[<<n, x>>])
    BY <1>1, <1>2, <1>8
  <2>6. keys[i] # 0 => keys'[i] = keys[i]
    BY DEF Kept, IInv, TypeOK
  <2>7. MadeOK(i)'
    <3>1. asked[jobs[i].reply].key # NoKey =>
            idempotency'[<<jobs[i].to, asked[jobs[i].reply].key>>] = i
      <4> SUFFICES ASSUME asked[jobs[i].reply].key # NoKey
                   PROVE  idempotency'[<<jobs[i].to, asked[jobs[i].reply].key>>] = i
        OBVIOUS
      <4>1. idempotency[<<jobs[i].to, asked[jobs[i].reply].key>>] = i /\ i # NoJob
        BY <2>2 DEF MadeOK
      <4>2. jobs[i].to \in Nodes /\ asked[jobs[i].reply].key \in Keys
        BY <2>2, <2>3 DEF MadeOK, IInv, CallsOK, TypeOK, Ask
      <4> QED
        BY <1>1, <4>1, <4>2 DEF IInv, TypeOK, MockTypeOK
    <3>2. told[jobs[i].reply] = i /\ jobs[i].reply > born => keys'[i] = keys[i]
      BY <2>2, <2>3, <2>6 DEF MadeOK, Calls
    <3> QED
      BY <2>1, <2>2, <2>3, <2>4, <3>1, <3>2 DEF MadeOK
  <2>8. ToldOK(i)'
    <3> SUFFICES ASSUME NEW d \in Calls, told'[d] = i
                 PROVE  /\ jobs'[i].status # "absent"
                        /\ jobs'[i].to = asked[d].node
                        /\ \/ d = jobs'[i].reply
                           \/ /\ d > jobs'[i].reply
                              /\ asked[d].key = asked[jobs'[i].reply].key
                              /\ asked[jobs'[i].reply].key # NoKey
      BY DEF ToldOK
    <3>1. CASE told[d] = i
      BY <3>1, <2>1, <2>2 DEF JobOK, ToldOK
    <3>2. CASE told[d] # i
      <4>1. d = c /\ i = j /\ c = calls
        BY <3>2 DEF IInv, TypeOK
      <4>3. c > jobs[i].reply
        BY <4>1, <2>1, <2>3, <1>2
      <4>2. jobs[i].to = n /\ asked[jobs[i].reply].key = x /\ x # NoKey
        BY <4>1, <2>5, <1>1, <1>8 DEF IInv, IdemOK
      <4> QED
        BY <4>1, <4>2, <4>3, <2>1, <1>8
    <3> QED
      BY <3>1, <3>2
  <2>9. KeptOK(i)'
    <3>1. keys[i] \in 0..MaxCalls /\ file[i] \in 0..MaxCalls /\ i # NoJob
      BY DEF IInv, TypeOK
    <3>2. ASSUME NEW d \in Calls, told[d] = i PROVE told'[d] = i
      BY <3>1, <3>2, <1>2 DEF IInv, TypeOK
    <3>3. file[i] # 0 => told'[file[i]] = i
      BY <2>2, <3>1, <3>2 DEF JobOK, KeptOK, Calls
    <3>4. CASE keys'[i] = keys[i]
      BY <3>1, <3>2, <3>3, <3>4, <2>2 DEF JobOK, KeptOK, Calls
    <3>5. CASE keys'[i] # keys[i]
      <4>1. i = j /\ keys'[i] = c /\ told' = [told EXCEPT ![c] = j]
        BY <3>5 DEF Kept, IInv, TypeOK
      <4> QED
        BY <4>1, <3>3 DEF KeptOK, IInv, TypeOK
    <3> QED
      BY <3>4, <3>5
  <2>10. OutcomeOK(i)'
    BY <2>1, <2>2, <2>4, <1>1, <1>2 DEF JobOK, OutcomeOK, IInv, TypeOK
  <2> QED
    BY <2>1, <2>2, <1>8, <2>7, <2>8, <2>9, <2>10 DEF JobOK
<1>9. ASSUME NEW i \in Jobs, jobs[i].status = "absent"
      PROVE  (\A d \in Calls : told[d] # i) /\ keys[i] = 0 /\ file[i] = 0 /\ outcome[i] = "none"
  <2>1. \A d \in Calls : told[d] # i
    BY <1>9 DEF IInv, JobOK, ToldOK
  <2> QED
    <3>1. keys[i] \in 0..MaxCalls /\ file[i] \in 0..MaxCalls
      BY DEF IInv, TypeOK
    <3>2. keys[i] = 0 /\ file[i] = 0
      BY <2>1, <3>1 DEF IInv, JobOK, KeptOK, Calls
    <3>3. outcome[i] = "none"
      BY <1>9 DEF IInv, JobOK, OutcomeOK
    <3> QED
      BY <2>1, <3>2, <3>3
<1>10. ASSUME NEW i \in Jobs, jobs[i].status = "absent", jobs'[i] = jobs[i] PROVE JobOK(i)'
  <2>1. i # j
    <3>1. CASE jobs' = [jobs EXCEPT ![j] = new]
      BY <3>1, <1>10 DEF IInv, TypeOK, MockTypeOK, Queued
    <3>2. CASE x \in Keys /\ j = idempotency[<<n, x>>]
      BY <3>2, <1>10, <1>1 DEF IInv, IdemOK
    <3> QED
      BY <3>1, <3>2, <1>1
  <2>2. (\A d \in Calls : told'[d] # i) /\ keys'[i] = 0 /\ file'[i] = 0 /\ outcome'[i] = "none"
    BY <2>1, <1>9, <1>10 DEF IInv, TypeOK, Kept
  <2> QED
    BY <2>2, <1>10 DEF IInv, JobOK, ToldOK, KeptOK, OutcomeOK
<1>11. ASSUME NEW i \in Jobs, jobs[i].status = "absent", jobs'[i] # jobs[i] PROVE JobOK(i)'
  <2>1. i = j /\ jobs' = [jobs EXCEPT ![j] = new]
    BY <1>1, <1>11 DEF IInv, TypeOK, MockTypeOK
  <2>2. jobs'[j] = new
    BY <2>1 DEF IInv, TypeOK, MockTypeOK
  <2>3. /\ new.reply = c /\ new.to = n /\ new.sealed = asked[c].sealed
        /\ new.receipt = 0 /\ new.status = "queued" /\ new.attempts = 0
        /\ new.lease = "lapsed"
    BY DEF Queued
  <2>4. (\A d \in Calls : told[d] # j) /\ keys[j] = 0 /\ file[j] = 0 /\ outcome[j] = "none"
    BY <2>1, <1>9, <1>11
  <2>5. c \in 1..calls /\ ~Pending(c)' /\ j # NoJob
    BY <1>2 DEF Calls
  <2>6. told'[c] \in {NoJob, j} /\ (told'[c] = j => keys'[j] = c)
    BY <2>4, <1>2, <2>5 DEF Kept, IInv, TypeOK
  <2>7. x # NoKey => idempotency'[<<n, x>>] = j
    BY <1>1, <2>1, <1>11 DEF IInv, TypeOK, MockTypeOK, IdemOK
  <2>8. MadeOK(j)'
    BY <2>2, <2>3, <2>4, <2>5, <2>6, <2>7 DEF MadeOK
  <2>9. ToldOK(j)'
    BY <2>2, <2>3, <2>4 DEF ToldOK, IInv, TypeOK
  <2>10. KeptOK(j)'
    BY <2>4, <1>2 DEF KeptOK, Kept, IInv, TypeOK
  <2>11. OutcomeOK(j)'
    BY <2>4 DEF OutcomeOK
  <2> QED
    BY <2>1, <2>2, <2>3, <2>8, <2>9, <2>10, <2>11 DEF JobOK
<1> QED
  BY <1>4, <1>5, <1>7, <1>8, <1>10, <1>11 DEF IInv

\* Picking a node is a submit that nothing was told of yet.
LEMMA PickStep ==
  ASSUME IInv, NEW n \in Nodes, NEW x \in Keys \cup {NoKey}, Pick(n, x)
  PROVE  IInv'
<1> USE MockAssumption, ClientAssumption
<1> DEFINE c == calls + 1
           ask == [node |-> n, key |-> x, sealed |-> nodes[n]]
<1>1. c \in Calls /\ calls' = c /\ pc' = "post" /\ pc = "idle" /\ late' = late /\ calls \in Nat
  BY DEF Pick, IInv, TypeOK, Calls
<1>2. /\ asked' = [asked EXCEPT ![c] = ask]
      /\ UNCHANGED <<nodes, jobs, idempotency, jobsDone, told, born, keys, file, outcome>>
  BY <1>1 DEF Pick, mock
<1>3. told[c] = NoJob /\ c \notin late
  BY <1>1 DEF IInv, CallsOK, Pending
<1>4. \A d \in Calls : Pending(d)' <=> Pending(d) \/ d = c
  BY <1>1, <1>3 DEF Pending
<1>5. nodes[n] \in 0..MaxGeneration /\ ask \in Ask
  BY DEF Ask, IInv, TypeOK
<1>6. TypeOK'
  <2>1. asked' \in [Calls -> Ask]
    BY <1>1, <1>2, <1>5 DEF IInv, TypeOK
  <2>2. MockTypeOK'
    BY <1>2 DEF IInv, TypeOK, MockTypeOK
  <2>3. calls' \in 0..MaxCalls
    BY <1>1 DEF Calls
  <2> QED
    BY <1>1, <1>2, <2>1, <2>2, <2>3 DEF IInv, TypeOK
<1>7. \A d \in 1..calls : asked'[d] = asked[d] /\ d \in Calls /\ d # c
  BY <1>1, <1>2 DEF IInv, TypeOK, Calls
<1>8. CallsOK'
  <2>1. asked'[c] = ask
    BY <1>1, <1>2 DEF IInv, TypeOK
  <2>2. \A d \in Calls : (told'[d] # NoJob \/ Pending(d)') => d <= calls'
    BY <1>1, <1>2, <1>4 DEF IInv, CallsOK, Calls
  <2>3. \A d \in Calls : ~(told'[d] # NoJob /\ Pending(d)')
    BY <1>2, <1>3, <1>4 DEF IInv, CallsOK
  <2>4. \A d \in 1..calls' : asked'[d].node \in Nodes /\ asked'[d].sealed <= nodes'[asked'[d].node]
    <3>1. \A d \in 1..calls' : d \in 1..calls \/ d = c
      BY <1>1
    <3> QED
      BY <3>1, <2>1, <1>2, <1>5, <1>7 DEF IInv, CallsOK
  <2> QED
    BY <2>2, <2>3, <2>4, <1>1, <1>3 DEF CallsOK
<1>9. \A i \in Jobs : jobs[i].status # "absent" =>
        /\ jobs[i].reply \in 1..calls
        /\ asked'[jobs[i].reply] = asked[jobs[i].reply]
        /\ ~Pending(jobs[i].reply)'
  <2> SUFFICES ASSUME NEW i \in Jobs, jobs[i].status # "absent"
               PROVE  /\ jobs[i].reply \in 1..calls
                      /\ asked'[jobs[i].reply] = asked[jobs[i].reply]
                      /\ ~Pending(jobs[i].reply)'
    OBVIOUS
  <2>1. jobs[i].reply \in 1..calls /\ ~Pending(jobs[i].reply)
    BY DEF IInv, JobOK, MadeOK
  <2> QED
    BY <2>1, <1>2, <1>4, <1>7
<1>10. IdemOK'
  <2> SUFFICES ASSUME NEW m \in Nodes, NEW y \in Keys, idempotency[<<m, y>>] # NoJob
               PROVE  LET i == idempotency[<<m, y>>] IN
                      /\ jobs[i].status # "absent"
                      /\ jobs[i].to = m
                      /\ asked'[jobs[i].reply].key = y
    BY <1>2 DEF IdemOK
  <2>1. idempotency[<<m, y>>] \in Jobs
    BY DEF IInv, TypeOK, MockTypeOK
  <2>2. LET i == idempotency[<<m, y>>] IN
        jobs[i].status # "absent" /\ jobs[i].to = m /\ asked[jobs[i].reply].key = y
    BY DEF IInv, IdemOK
  <2> QED
    BY <2>1, <2>2, <1>9
<1>11. ASSUME NEW i \in Jobs PROVE JobOK(i)'
  <2>1. JobOK(i)
    BY DEF IInv
  <2>2. jobs[i].status # "absent" => MadeOK(i)'
    <3> SUFFICES ASSUME jobs[i].status # "absent" PROVE MadeOK(i)'
      OBVIOUS
    <3>1. MadeOK(i)
      BY <2>1 DEF JobOK
    <3>2. /\ jobs[i].reply \in 1..calls' /\ ~Pending(jobs[i].reply)'
          /\ asked'[jobs[i].reply] = asked[jobs[i].reply]
      BY <1>1, <1>9
    <3> QED
      BY <3>1, <3>2, <1>2 DEF MadeOK
  <2>3. ToldOK(i)'
    <3>1. \A d \in Calls : told[d] = i => asked'[d] = asked[d]
      BY <1>7, <1>3, <1>1 DEF IInv, CallsOK, Calls
    <3> QED
      BY <2>1, <3>1, <1>2, <1>9 DEF JobOK, ToldOK
  <2>4. KeptOK(i)' /\ OutcomeOK(i)'
    BY <2>1, <1>2 DEF JobOK, KeptOK, OutcomeOK
  <2> QED
    BY <2>1, <2>2, <2>3, <2>4, <1>2 DEF JobOK
<1> QED
  BY <1>6, <1>8, <1>10, <1>11 DEF IInv

\* Post and LatePost are a request served.
LEMMA PostStep ==
  ASSUME IInv, NEW j \in Jobs,
         Post(j) \/ \E c \in Calls : LatePost(c, j)
  PROVE  IInv'
<1>1. CASE Post(j)
  <2>1. calls \in Calls /\ Pending(calls) /\ calls \notin late
    BY <1>1 DEF Post, IInv, CallsOK, Pending
  <2>2. \A d \in Calls : Pending(d)' <=> Pending(d) /\ d # calls
    BY <1>1, <2>1 DEF Post, Pending
  <2>3. /\ Serve(calls, j) /\ UNCHANGED <<calls, asked, born, file, outcome>>
        /\ late' \subseteq late /\ pc' \in {pc, "idle"}
        /\ told' = [told EXCEPT ![calls] = j] /\ keys' = Kept(j, calls)
    BY <1>1 DEF Post
  <2> QED
    BY <2>1, <2>2, <2>3, ServeStep
<1>2. ASSUME NEW c \in Calls, LatePost(c, j) PROVE IInv'
  <2>1. Pending(c) /\ (pc = "post" => c # calls)
    BY <1>2 DEF LatePost, IInv, CallsOK, Pending
  <2>2. \A d \in Calls : Pending(d)' <=> Pending(d) /\ d # c
    BY <1>2, <2>1 DEF LatePost, Pending
  <2>3. /\ Serve(c, j) /\ UNCHANGED <<calls, asked, born, file, outcome>>
        /\ late' \subseteq late /\ pc' \in {pc, "idle"}
        /\ told' = told /\ keys' = keys
    BY <1>2 DEF LatePost
  <2> QED
    BY <2>1, <2>2, <2>3, ServeStep
<1> QED
  BY <1>1, <1>2

\* A submit refused, given up or cut off by the end of its process leaves what
\* was asked and told.
LEMMA GiveUpStep ==
  ASSUME IInv, PostRefused \/ PostLost \/ NextProcess
  PROVE  IInv'
<1> USE MockAssumption, ClientAssumption
<1>1. /\ UNCHANGED <<nodes, jobs, idempotency, jobsDone, calls, asked, told, file, outcome>>
      /\ pc' = "idle"
      /\ \/ born' = born /\ keys' = keys
         \/ born' = calls /\ keys' = [i \in Jobs |-> 0]
      /\ late' = late \/ (pc = "post" /\ late' = late \cup {calls})
  BY DEF PostRefused, PostLost, NextProcess, mock
<1>2. \A d \in Calls : Pending(d)' => Pending(d)
  BY <1>1 DEF Pending
<1>3. TypeOK'
  BY <1>1 DEF IInv, TypeOK, MockTypeOK, CallsOK
<1>4. CallsOK' /\ IdemOK'
  BY <1>1, <1>2 DEF IInv, CallsOK, IdemOK
<1>5. ASSUME NEW i \in Jobs PROVE JobOK(i)'
  <2>1. JobOK(i)
    BY DEF IInv
  <2>2. jobs[i].status # "absent" => MadeOK(i)'
    <3> SUFFICES ASSUME jobs[i].status # "absent" PROVE MadeOK(i)'
      OBVIOUS
    <3>1. MadeOK(i) /\ jobs[i].reply \in Calls /\ calls \in Nat
      BY <2>1 DEF JobOK, MadeOK, IInv, TypeOK, Calls
    <3>2. ~Pending(jobs[i].reply)'
      BY <3>1, <1>1, <1>2 DEF MadeOK
    <3>3. born' = calls => ~(jobs[i].reply > born')
      BY <3>1 DEF MadeOK
    <3> QED
      BY <3>1, <3>2, <3>3, <1>1 DEF MadeOK
  <2>3. ToldOK(i)' /\ KeptOK(i)'
    BY <2>1, <1>1 DEF JobOK, ToldOK, KeptOK
  <2>4. OutcomeOK(i)'
    <3>1. outcome[i] = "unreadable" => jobs[i].reply \in 1..calls /\ calls \in Nat
      BY <2>1 DEF JobOK, MadeOK, OutcomeOK, IInv, TypeOK
    <3> QED
      BY <2>1, <3>1, <1>1 DEF JobOK, OutcomeOK
  <2> QED
    BY <2>1, <2>2, <2>3, <2>4, <1>1 DEF JobOK
<1> QED
  BY <1>3, <1>4, <1>5 DEF IInv

\* Keypairs move only between the process and the job file, under their own job.
LEMMA KeypairStep ==
  ASSUME IInv, NEW j \in Jobs, WriteJobFile(j) \/ Adopt(j)
  PROVE  IInv'
<1> USE MockAssumption, ClientAssumption
<1>1. /\ UNCHANGED <<nodes, jobs, idempotency, jobsDone, calls, asked, pc, late, told, born, outcome>>
      /\ \/ file' = [file EXCEPT ![j] = keys[j]] /\ keys' = keys /\ keys[j] # 0
         \/ keys' = [keys EXCEPT ![j] = file[j]] /\ file' = file /\ file[j] # 0
  BY DEF WriteJobFile, Adopt, mock
<1>2. \A d \in Calls : Pending(d)' <=> Pending(d)
  BY <1>1 DEF Pending
<1>3. TypeOK'
  BY <1>1 DEF IInv, TypeOK, MockTypeOK
<1>4. CallsOK' /\ IdemOK'
  BY <1>1, <1>2 DEF IInv, CallsOK, IdemOK
<1>5. ASSUME NEW i \in Jobs PROVE JobOK(i)'
  <2>1. JobOK(i)
    BY DEF IInv
  <2>2. keys'[i] \in {keys[i], file[i]} /\ file'[i] \in {keys[i], file[i]}
    BY <1>1 DEF IInv, TypeOK
  <2>3. keys[i] # 0 => keys'[i] # 0
    BY <1>1 DEF IInv, TypeOK
  <2>4. jobs[i].status # "absent" => MadeOK(i)'
    <3> SUFFICES ASSUME jobs[i].status # "absent" PROVE MadeOK(i)'
      OBVIOUS
    <3>1. MadeOK(i) /\ jobs[i].reply \in Calls /\ jobs[i].reply # 0
      BY <2>1 DEF JobOK, MadeOK, IInv, TypeOK, Calls
    <3>2. ~Pending(jobs[i].reply)'
      BY <3>1, <1>1, <1>2 DEF MadeOK
    <3>3. told[jobs[i].reply] = i /\ jobs[i].reply > born =>
            keys'[i] = jobs[i].reply /\ file'[i] \in {0, jobs[i].reply}
      BY <3>1, <2>2, <2>3 DEF MadeOK
    <3> QED
      BY <3>1, <3>2, <3>3, <1>1 DEF MadeOK
  <2>5. KeptOK(i)'
    BY <2>1, <2>2, <1>1 DEF JobOK, KeptOK
  <2>6. ToldOK(i)' /\ OutcomeOK(i)'
    BY <2>1, <1>1 DEF JobOK, ToldOK, OutcomeOK
  <2> QED
    BY <2>1, <2>4, <2>5, <2>6, <1>1 DEF JobOK
<1> QED
  BY <1>3, <1>4, <1>5 DEF IInv

\* What result_with_receipt reports is what the record says.
LEMMA ResultStep ==
  ASSUME IInv, NEW j \in Jobs, NEW listed \in BOOLEAN, ResultWithReceipt(j, listed)
  PROVE  IInv'
<1> USE MockAssumption, ClientAssumption
<1> DEFINE f == jobs[j].reply
<1>1. /\ UNCHANGED <<nodes, jobs, idempotency, jobsDone>>
      /\ UNCHANGED <<calls, asked, pc, late, told, born, keys, file>>
      /\ jobs[j].status \in {"done", "failed"} /\ keys[j] # 0
  BY DEF ResultWithReceipt, mock
<1>2. \A i \in Jobs \ {j} : outcome'[i] = outcome[i]
  BY DEF ResultWithReceipt, IInv, TypeOK
<1>3. /\ Verdict(j, listed) \in Outcomes \ {"unreadable", "failed"}
      /\ Verdict(j, listed) = "refuted" => jobs[j].receipt # 0 /\ ~SignedByRecord(j)
  BY DEF Verdict, Outcomes
<1>4. /\ outcome' \in [Jobs -> Outcomes]
      /\ outcome'[j] = "unreadable" => ~Opens(j)
      /\ outcome'[j] = "refuted" => jobs[j].receipt # 0 /\ ~SignedByRecord(j)
  BY <1>3 DEF ResultWithReceipt, IInv, TypeOK, Outcomes
<1>5. TypeOK' /\ CallsOK' /\ IdemOK'
  <2>1. \A d \in Calls : Pending(d)' <=> Pending(d)
    BY <1>1 DEF Pending
  <2> QED
    BY <1>1, <1>4, <2>1 DEF IInv, TypeOK, MockTypeOK, CallsOK, IdemOK
<1>6. ASSUME NEW i \in Jobs
      PROVE  /\ jobs[i].status # "absent" => MadeOK(i)'
             /\ ToldOK(i)' /\ KeptOK(i)'
  BY <1>1 DEF IInv, JobOK, MadeOK, ToldOK, KeptOK, Pending
<1>7. MadeOK(j) /\ f \in Calls
  <2>1. MadeOK(j)
    BY <1>1 DEF IInv, JobOK
  <2> QED
    BY <2>1 DEF MadeOK, IInv, TypeOK, Calls
<1>8. OutcomeOK(j)'
  <2>1. CASE outcome'[j] = "unreadable"
    <3>1. keys[j] # f /\ told[keys[j]] = j /\ keys[j] \in Calls
      BY <1>1, <1>4, <2>1 DEF Opens, IInv, JobOK, KeptOK, TypeOK, Calls
    <3>2. keys[j] > f
      BY <3>1 DEF IInv, JobOK, ToldOK
    <3>3. told[f] = NoJob \/ f <= born
      BY <1>7, <3>1 DEF MadeOK, IInv, TypeOK, Calls
    <3> QED
      BY <1>1, <2>1, <3>1, <3>2, <3>3 DEF OutcomeOK
  <2>2. CASE outcome'[j] = "refuted"
    <3>1. nodes[jobs[j].to] # jobs[j].sealed
      BY <1>4, <1>7, <2>2 DEF SignedByRecord, MadeOK
    <3>2. asked[f].node \in Nodes /\ asked[f].sealed <= nodes[asked[f].node]
      BY <1>7 DEF IInv, CallsOK, MadeOK
    <3>3. jobs[j].sealed <= nodes[jobs[j].to] /\ jobs[j].sealed \in Nat /\ nodes[jobs[j].to] \in Nat
      BY <1>7, <3>2 DEF MadeOK, IInv, TypeOK, MockTypeOK, Job
    <3> QED
      BY <1>1, <2>2, <3>1, <3>3 DEF OutcomeOK
  <2> QED
    BY <1>1, <2>1, <2>2 DEF OutcomeOK
<1>9. ASSUME NEW i \in Jobs \ {j} PROVE OutcomeOK(i)'
  BY <1>1, <1>2 DEF IInv, JobOK, OutcomeOK
<1> QED
  BY <1>1, <1>5, <1>6, <1>8, <1>9 DEF IInv, JobOK

\* A job's record after a step of the coordinator: who asked for it and for whom
\* never changes, and what has ended stays as it is.
Onward(j) ==
    /\ jobs'[j].to = jobs[j].to /\ jobs'[j].sealed = jobs[j].sealed
    /\ jobs'[j].reply = jobs[j].reply
    /\ jobs[j].status # "absent" => jobs'[j].status # "absent"
    /\ jobs[j].status = "absent" => jobs'[j] = jobs[j]
    /\ jobs[j].status \in {"done", "failed"} =>
          jobs'[j].status = jobs[j].status /\ jobs'[j].receipt = jobs[j].receipt
    /\ jobs'[j].receipt \in {0, jobs[j].receipt, jobs[j].sealed}
    /\ jobs'[j].status = "queued" =>
          /\ jobs[j].status = "queued" /\ jobs'[j].attempts = jobs[j].attempts
          /\ jobs'[j].lease \in {jobs[j].lease, "lapsed"}

LEMMA OnwardStep ==
  ASSUME IInv, jobs' \in [Jobs -> Job], jobsDone' \in Nat,
         UNCHANGED <<nodes, idempotency, client>>,
         \A j \in Jobs : Onward(j)
  PROVE  IInv'
<1> USE MockAssumption, ClientAssumption
<1>1. UNCHANGED <<calls, asked, pc, late, told, born, keys, file, outcome>>
  BY DEF client
<1>2. \A d \in Calls : Pending(d)' <=> Pending(d)
  BY <1>1 DEF Pending
<1>3. TypeOK' /\ CallsOK'
  BY <1>1, <1>2 DEF IInv, TypeOK, MockTypeOK, CallsOK
<1>4. IdemOK'
  <2> SUFFICES ASSUME NEW m \in Nodes, NEW y \in Keys, idempotency[<<m, y>>] # NoJob
               PROVE  LET i == idempotency[<<m, y>>] IN
                      /\ jobs'[i].status # "absent"
                      /\ jobs'[i].to = m
                      /\ asked[jobs'[i].reply].key = y
    BY <1>1 DEF IdemOK
  <2>1. idempotency[<<m, y>>] \in Jobs
    BY DEF IInv, TypeOK, MockTypeOK
  <2> QED
    BY <2>1 DEF IInv, IdemOK, Onward
<1>5. ASSUME NEW i \in Jobs PROVE JobOK(i)'
  <2>1. JobOK(i) /\ Onward(i)
    BY DEF IInv
  <2>2. jobs[i].status # "absent" => MadeOK(i)'
    <3> SUFFICES ASSUME jobs[i].status # "absent" PROVE MadeOK(i)'
      OBVIOUS
    <3>1. MadeOK(i) /\ jobs[i].reply \in Calls
      BY <2>1 DEF JobOK, MadeOK, IInv, TypeOK, Calls
    <3>2. ~Pending(jobs[i].reply)'
      BY <2>1, <3>1, <1>2 DEF MadeOK, Onward
    <3>3. jobs'[i].receipt \in {0, jobs[i].sealed}
      BY <2>1, <3>1 DEF MadeOK, Onward
    <3> QED
      BY <2>1, <3>1, <3>2, <3>3, <1>1 DEF MadeOK, Onward
  <2>3. ToldOK(i)' /\ KeptOK(i)' /\ OutcomeOK(i)'
    BY <2>1, <1>1 DEF JobOK, ToldOK, KeptOK, OutcomeOK, Onward
  <2> QED
    <3>1. /\ jobs'[i].status = "absent" => jobs'[i] = Absent
          /\ jobs'[i].status = "queued" => jobs'[i].attempts = 0 /\ jobs'[i].lease = "lapsed"
      BY <2>1 DEF JobOK, Onward
    <3> QED
      BY <2>1, <2>2, <2>3, <3>1 DEF JobOK, Onward
<1> QED
  BY <1>3, <1>4, <1>5 DEF IInv

\* A pull leaves a job, delivers it or gives it up.
LEMMA PullEffect ==
  ASSUME IInv, NEW n \in Nodes, NodePulls(n), NEW i \in Jobs
  PROVE  \/ jobs'[i] = jobs[i]
         \/ /\ Deliverable(n, i)
            /\ jobs'[i] = [jobs[i] EXCEPT !.status = "running", !.lease = "live",
                                          !.attempts = @ + 1]
         \/ /\ Lapsed(i) /\ ~Deliverable(n, i) /\ jobs[i].to = n
            /\ jobs'[i] = [jobs[i] EXCEPT !.status = "failed"]
BY DEF NodePulls, Pull, AfterPull

\* Nodes that pull and post, and time that passes, move jobs onward.
LEMMA WorkStep ==
  ASSUME IInv,
         \/ \E j \in Jobs : ExpireLease(j) /\ UNCHANGED client
         \/ \E n \in Nodes : NodePulls(n) \/ \E j \in Jobs : NodePosts(n, j)
  PROVE  IInv'
<1> USE MockAssumption, ClientAssumption
<1>1. ASSUME NEW j \in Jobs, ExpireLease(j), UNCHANGED client PROVE IInv'
  <2>1. /\ jobs' = [jobs EXCEPT ![j].lease = "lapsed"]
        /\ UNCHANGED <<nodes, idempotency, jobsDone, client>>
    BY <1>1 DEF ExpireLease
  <2>2. jobs' \in [Jobs -> Job] /\ \A i \in Jobs : Onward(i)
    <3>1. jobs[j].status # "absent"
      BY <1>1 DEF ExpireLease, IInv, JobOK, Absent
    <3>2. ASSUME NEW i \in Jobs PROVE jobs'[i] \in Job /\ Onward(i)
      <4>1. jobs[i] \in Job
        BY DEF IInv, TypeOK, MockTypeOK
      <4>2. CASE i # j
        BY <2>1, <4>1, <4>2 DEF Onward, IInv, TypeOK, MockTypeOK
      <4>3. CASE i = j
        <5>1. jobs'[j] = [jobs[j] EXCEPT !.lease = "lapsed"]
          BY <2>1 DEF IInv, TypeOK, MockTypeOK
        <5> QED
          BY <3>1, <4>1, <4>3, <5>1 DEF Job, Onward
      <4> QED
        BY <4>2, <4>3
    <3>3. jobs' \in [Jobs -> Job]
      BY <2>1, <3>2 DEF IInv, TypeOK, MockTypeOK
    <3> QED
      BY <3>2, <3>3
  <2> QED
    BY <2>1, <2>2, OnwardStep DEF IInv, TypeOK, MockTypeOK
<1>2. ASSUME NEW n \in Nodes, NodePulls(n) PROVE IInv'
  <2>1. jobs' = AfterPull(n) /\ UNCHANGED <<nodes, idempotency, jobsDone, client>>
    BY <1>2 DEF NodePulls, Pull
  <2>2. ASSUME NEW i \in Jobs PROVE jobs'[i] \in Job /\ Onward(i)
    <3>1. jobs[i] \in Job
      BY DEF IInv, TypeOK, MockTypeOK
    <3>2. CASE jobs'[i] = jobs[i]
      BY <3>1, <3>2 DEF Onward
    <3>3. CASE Deliverable(n, i) /\
               jobs'[i] = [jobs[i] EXCEPT !.status = "running", !.lease = "live",
                                          !.attempts = @ + 1]
      <4>1. jobs[i].attempts + 1 \in 0..MaxAttempts
        BY <3>1, <3>3 DEF Deliverable, Lapsed, IInv, JobOK, Job
      <4> QED
        BY <3>1, <3>3, <4>1 DEF Deliverable, Lapsed, Job, Onward
    <3>4. CASE Lapsed(i) /\ jobs'[i] = [jobs[i] EXCEPT !.status = "failed"]
      BY <3>1, <3>4 DEF Lapsed, Job, Onward
    <3> QED
      BY <1>2, <3>2, <3>3, <3>4, PullEffect
  <2>3. jobs' \in [Jobs -> Job]
    BY <2>1, <2>2 DEF AfterPull
  <2> QED
    BY <2>1, <2>2, <2>3, OnwardStep DEF IInv, TypeOK, MockTypeOK
<1>3. ASSUME NEW n \in Nodes, NEW j \in Jobs, NodePosts(n, j) PROVE IInv'
  <2>1. PICK receipt \in {0, jobs[j].sealed} : Result(n, j, receipt)
    BY <1>3 DEF NodePosts
  <2>2. UNCHANGED <<nodes, idempotency, client>>
    BY <1>3, <2>1 DEF NodePosts, Result
  <2>3. CASE jobs[j].status = "running"
    <3>1. /\ jobs' = [jobs EXCEPT ![j] = [@ EXCEPT !.status = "done", !.lease = "lapsed",
                                                   !.receipt = receipt]]
          /\ jobsDone' = jobsDone + 1
      BY <2>1, <2>3 DEF Result
    <3>2. receipt \in Nat
      BY DEF IInv, TypeOK, MockTypeOK, Job
    <3>3. ASSUME NEW i \in Jobs PROVE jobs'[i] \in Job /\ Onward(i)
      <4>1. jobs[i] \in Job
        BY DEF IInv, TypeOK, MockTypeOK
      <4>2. CASE i # j
        BY <3>1, <4>1, <4>2 DEF Onward, IInv, TypeOK, MockTypeOK
      <4>3. CASE i = j
        <5>1. jobs'[j] = [jobs[j] EXCEPT !.status = "done", !.lease = "lapsed",
                                         !.receipt = receipt]
          BY <3>1 DEF IInv, TypeOK, MockTypeOK
        <5> QED
          BY <2>3, <3>2, <4>1, <4>3, <5>1 DEF Job, Onward
      <4> QED
        BY <4>2, <4>3
    <3>4. jobs' \in [Jobs -> Job]
      BY <3>1, <3>3 DEF IInv, TypeOK, MockTypeOK
    <3> QED
      BY <2>2, <3>1, <3>3, <3>4, OnwardStep DEF IInv, TypeOK, MockTypeOK
  <2>4. CASE jobs[j].status # "running"
    <3>1. UNCHANGED <<jobs, jobsDone>>
      BY <2>1, <2>4 DEF Result
    <3>2. \A i \in Jobs : Onward(i)
      BY <3>1 DEF Onward
    <3> QED
      BY <2>2, <3>1, <3>2, OnwardStep DEF IInv, TypeOK, MockTypeOK
  <2> QED
    BY <2>3, <2>4
<1> QED
  BY <1>1, <1>2, <1>3

\* A node set up again has a later keyfile on its record.
LEMMA SetUpStep ==
  ASSUME IInv, NEW n \in Nodes, SetUp(n)
  PROVE  IInv'
<1> USE MockAssumption, ClientAssumption
<1>1. /\ nodes' = [nodes EXCEPT ![n] = @ + 1] /\ nodes[n] < MaxGeneration
      /\ UNCHANGED <<jobs, idempotency, jobsDone>>
      /\ UNCHANGED <<calls, asked, pc, late, told, born, keys, file, outcome>>
  BY DEF SetUp, Register, client, IInv, TypeOK, MockTypeOK
<1>2. \A d \in Calls : Pending(d)' <=> Pending(d)
  BY <1>1 DEF Pending
<1>3. \A m \in Nodes : nodes'[m] \in 0..MaxGeneration /\ nodes'[m] >= nodes[m] /\ nodes[m] \in Nat
  BY <1>1 DEF IInv, TypeOK, MockTypeOK
<1>4. TypeOK'
  <2>1. nodes' \in [Nodes -> 0..MaxGeneration]
    BY <1>1, <1>3 DEF IInv, TypeOK, MockTypeOK
  <2> QED
    BY <1>1, <2>1 DEF IInv, TypeOK, MockTypeOK
<1>5. CallsOK' /\ IdemOK'
  <2>1. \A c \in 1..calls : asked[c].node \in Nodes /\ asked[c].sealed <= nodes'[asked[c].node]
    <3> SUFFICES ASSUME NEW c \in 1..calls
                 PROVE  asked[c].node \in Nodes /\ asked[c].sealed <= nodes'[asked[c].node]
      OBVIOUS
    <3>1. asked[c].sealed \in Nat /\ asked[c].node \in Nodes
                 /\ asked[c].sealed <= nodes[asked[c].node]
      BY DEF IInv, CallsOK, TypeOK, Ask, Calls
    <3> QED
      BY <3>1, <1>3
  <2> QED
    BY <1>1, <1>2, <2>1 DEF IInv, CallsOK, IdemOK
<1>6. ASSUME NEW i \in Jobs PROVE JobOK(i)'
  <2>1. JobOK(i)
    BY DEF IInv
  <2>2. jobs[i].status # "absent" => MadeOK(i)'
    <3> SUFFICES ASSUME jobs[i].status # "absent" PROVE MadeOK(i)'
      OBVIOUS
    <3>1. MadeOK(i)
      BY <2>1 DEF JobOK
    <3>2. ~Pending(jobs[i].reply)'
      BY <1>1, <3>1 DEF MadeOK, Pending
    <3> QED
      BY <1>1, <3>1, <3>2 DEF MadeOK
  <2>3. ToldOK(i)' /\ KeptOK(i)'
    BY <1>1, <2>1 DEF JobOK, ToldOK, KeptOK
  <2>4. OutcomeOK(i)'
    <3>1. outcome[i] = "refuted" => jobs[i].to \in Nodes /\ jobs[i].sealed \in Nat
      <4> SUFFICES ASSUME outcome[i] = "refuted" PROVE jobs[i].to \in Nodes /\ jobs[i].sealed \in Nat
        OBVIOUS
      <4>1. MadeOK(i)
        BY <2>1 DEF JobOK, OutcomeOK
      <4> QED
        BY <4>1 DEF MadeOK, IInv, CallsOK, TypeOK, MockTypeOK, Job
    <3>2. outcome[i] = "refuted" => nodes'[jobs[i].to] > jobs[i].sealed
      BY <2>1, <3>1, <1>3 DEF JobOK, OutcomeOK
    <3> QED
      BY <1>1, <2>1, <3>2 DEF JobOK, OutcomeOK
  <2> QED
    BY <1>1, <2>1, <2>2, <2>3, <2>4 DEF JobOK
<1> QED
  BY <1>4, <1>5, <1>6 DEF IInv

\* Every step preserves the invariant.
LEMMA NextIInv == IInv /\ [Next]_vars => IInv'
<1> SUFFICES ASSUME IInv, [Next]_vars PROVE IInv'
  OBVIOUS
<1>1. CASE \E n \in Nodes, x \in Keys \cup {NoKey} : Pick(n, x)
  BY <1>1, PickStep
<1>2. CASE \E j \in Jobs : Post(j) \/ \E c \in Calls : LatePost(c, j)
  BY <1>2, PostStep
<1>3. CASE PostRefused \/ PostLost \/ NextProcess
  BY <1>3, GiveUpStep
<1>4. CASE \E j \in Jobs : WriteJobFile(j) \/ Adopt(j)
  BY <1>4, KeypairStep
<1>5. CASE \E j \in Jobs, listed \in BOOLEAN : ResultWithReceipt(j, listed)
  BY <1>5, ResultStep
<1>6. CASE \/ \E j \in Jobs : ExpireLease(j) /\ UNCHANGED client
           \/ \E n \in Nodes : NodePulls(n) \/ \E j \in Jobs : NodePosts(n, j)
  BY <1>6, WorkStep
<1>7. CASE \E n \in Nodes : SetUp(n)
  BY <1>7, SetUpStep
<1>8. CASE UNCHANGED vars
  <2>1. UNCHANGED <<mock, nodes, jobs, idempotency, jobsDone, client>>
    BY <1>8 DEF vars, mock
  <2>2. jobs' \in [Jobs -> Job] /\ jobsDone' \in Nat /\ \A j \in Jobs : Onward(j)
    BY <2>1 DEF IInv, TypeOK, MockTypeOK, Onward
  <2> QED
    BY <2>1, <2>2, OnwardStep
<1> QED
  BY <1>1, <1>2, <1>3, <1>4, <1>5, <1>6, <1>7, <1>8 DEF Next

LEMMA InvariantHolds == Spec => []IInv
BY InitIInv, NextIInv, PTL DEF Spec

\* Type correctness: client.py and the records of testkit.py stay in their types.
THEOREM ClientTypeCorrect == Spec => []TypeOK
<1>1. IInv => TypeOK
  BY DEF IInv
<1> QED
  BY <1>1, InvariantHolds, PTL

\* A job whose own submit returned to this process can be read by it (setdefault in
\* submit, adopt_reply_key and the job file of the submit command).
THEOREM AnsweredIsReadableHolds == Spec => []AnsweredIsReadable
<1>1. IInv => AnsweredIsReadable
  <2> SUFFICES ASSUME IInv, NEW c \in Calls, c > born, told[c] # NoJob, jobs[told[c]].reply = c
               PROVE  Opens(told[c])
    BY DEF AnsweredIsReadable
  <2>1. told[c] \in Jobs
    BY DEF IInv, TypeOK
  <2>2. MadeOK(told[c])
    BY <2>1 DEF IInv, JobOK, ToldOK
  <2> QED
    BY <2>1, <2>2 DEF MadeOK, Opens
<1> QED
  BY <1>1, InvariantHolds, PTL

\* What the client cannot open was made by a submit not answered to this process and
\* told of to a retry under the same key.
THEOREM UnreadableIsRetriedHolds == Spec => []UnreadableIsRetried
<1>1. IInv => UnreadableIsRetried
  <2> SUFFICES ASSUME IInv, NEW j \in Jobs, outcome[j] = "unreadable"
               PROVE  LET first == jobs[j].reply IN
                      /\ told[first] = NoJob \/ first <= born
                      /\ \E c \in Calls : /\ c > first /\ told[c] = j
                                          /\ asked[c].key = asked[first].key
                                          /\ asked[c].key # NoKey
    BY DEF UnreadableIsRetried
  <2>1. OutcomeOK(j) /\ ToldOK(j)
    BY DEF IInv, JobOK
  <2>2. PICK c \in Calls : c > jobs[j].reply /\ told[c] = j
    BY <2>1 DEF OutcomeOK
  <2>3. c # jobs[j].reply
    BY <2>2, ClientAssumption DEF Calls, IInv, TypeOK, MockTypeOK, Job
  <2> QED
    BY <2>1, <2>2, <2>3 DEF OutcomeOK, ToldOK
<1> QED
  BY <1>1, InvariantHolds, PTL

\* Two submits under one key are told the same job exactly when they picked the same
\* node (create_job's scope of the key against pick_node's choice).
THEOREM RetryFollowsPickHolds == Spec => []RetryFollowsPick
<1>1. ASSUME IInv, NEW b \in Calls, told[b] # NoJob, asked[b].key # NoKey
      PROVE  /\ told[b] \in Jobs /\ jobs[told[b]].to = asked[b].node
             /\ idempotency[<<asked[b].node, asked[b].key>>] = told[b]
  <2>1. told[b] \in Jobs
    BY <1>1 DEF IInv, TypeOK
  <2>2. MadeOK(told[b]) /\ ToldOK(told[b])
    BY <1>1, <2>1 DEF IInv, JobOK, ToldOK
  <2> QED
    BY <1>1, <2>1, <2>2 DEF MadeOK, ToldOK
<1>2. IInv => RetryFollowsPick
  BY <1>1 DEF RetryFollowsPick
<1> QED
  BY <1>2, InvariantHolds, PTL

\* A receipt checked against a listing that names its node fails only after that node
\* was registered with a later keyfile (client.py verify_receipt).
THEOREM RefutedIsRekeyedHolds == Spec => []RefutedIsRekeyed
<1>1. IInv => RefutedIsRekeyed
  BY DEF IInv, JobOK, OutcomeOK, RefutedIsRekeyed
<1> QED
  BY <1>1, InvariantHolds, PTL

\* jobs_done of testkit.py counts every finished job once.
THEOREM CountIsExactHolds == Spec => []CountIsExact
<1> DEFINE Done == {j \in Jobs : jobs[j].status = "done"}
<1>1. Init => CountIsExact
  <2> SUFFICES ASSUME Init PROVE CountIsExact
    OBVIOUS
  <2>1. Done = {}
    BY DEF Init, MockInit, Absent
  <2> QED
    BY <2>1, FS_EmptySet DEF Init, MockInit, CountIsExact
<1>2. IsFiniteSet(Done) /\ Cardinality(Done) \in Nat
  BY MockAssumption, FS_Subset, FS_CardinalityType
<1>3. ASSUME IInv, [Next]_vars, CountIsExact, jobsDone' = jobsDone,
             \A j \in Jobs : jobs'[j].status = "done" <=> jobs[j].status = "done"
      PROVE  CountIsExact'
  BY <1>3 DEF CountIsExact
<1>4. ASSUME IInv, CountIsExact, NEW j \in Jobs, jobs[j].status # "done",
             jobs' = [jobs EXCEPT ![j] = jobs'[j]], jobs'[j].status = "done",
             jobsDone' = jobsDone + 1
      PROVE  CountIsExact'
  <2>1. Done' = Done \cup {j}
    BY <1>4 DEF IInv, TypeOK, MockTypeOK
  <2>2. Cardinality(Done \cup {j}) = Cardinality(Done) + 1
    BY <1>2, <1>4, FS_AddElement
  <2> QED
    BY <1>4, <2>1, <2>2 DEF CountIsExact
<1>5. ASSUME IInv, [Next]_vars, CountIsExact PROVE CountIsExact'
  <2>1. CASE \E n \in Nodes, j \in Jobs : NodePosts(n, j) /\ jobs[j].status = "running"
    <3>1. PICK n \in Nodes, j \in Jobs : NodePosts(n, j) /\ jobs[j].status = "running"
      BY <2>1
    <3>2. PICK receipt \in {0, jobs[j].sealed} : Result(n, j, receipt)
      BY <3>1 DEF NodePosts
    <3> DEFINE done == [jobs[j] EXCEPT !.status = "done", !.lease = "lapsed",
                                       !.receipt = receipt]
    <3>3. jobs' = [jobs EXCEPT ![j] = done] /\ jobsDone' = jobsDone + 1
      BY <3>1, <3>2 DEF Result
    <3>4. jobs'[j] = done /\ done.status = "done"
      BY <1>5, <3>3 DEF IInv, TypeOK, MockTypeOK, Job
    <3> QED
      BY <3>1, <3>3, <3>4, <1>4, <1>5
  <2>2. CASE \E j \in Jobs, c \in Calls : Pending(c) /\ Serve(c, j)
    <3>1. PICK j \in Jobs, c \in Calls : Pending(c) /\ Serve(c, j)
      BY <2>2
    <3>2. /\ jobsDone' = jobsDone
          /\ \/ jobs' = jobs
             \/ /\ jobs[j].status = "absent"
                /\ jobs' = [jobs EXCEPT ![j] = Queued(asked[c].node, asked[c].sealed, c)]
      BY <1>5, <3>1, ServeEffect
    <3> QED
      <4>1. CASE jobs' = jobs
        BY <1>3, <1>5, <3>2, <4>1
      <4>2. CASE jobs[j].status = "absent" /\
                 jobs' = [jobs EXCEPT ![j] = Queued(asked[c].node, asked[c].sealed, c)]
        <5>1. jobs'[j].status = "queued"
          BY <1>5, <4>2 DEF Queued, IInv, TypeOK, MockTypeOK
        <5>2. \A i \in Jobs \ {j} : jobs'[i] = jobs[i]
          BY <1>5, <4>2 DEF IInv, TypeOK, MockTypeOK
        <5> QED
          BY <1>3, <1>5, <3>2, <4>2, <5>1, <5>2
      <4> QED
        BY <3>2, <4>1, <4>2
  <2>3. CASE \E n \in Nodes : NodePulls(n)
    <3>1. PICK n \in Nodes : NodePulls(n)
      BY <2>3
    <3>2. ASSUME NEW i \in Jobs PROVE jobs'[i].status = "done" <=> jobs[i].status = "done"
      <4>1. jobs[i] \in Job
        BY <1>5 DEF IInv, TypeOK, MockTypeOK
      <4>2. CASE jobs'[i] = jobs[i]
        BY <4>2
      <4>3. CASE /\ Deliverable(n, i)
                 /\ jobs'[i] = [jobs[i] EXCEPT !.status = "running", !.lease = "live",
                                               !.attempts = @ + 1]
        BY <4>1, <4>3 DEF Deliverable, Lapsed, Job
      <4>4. CASE Lapsed(i) /\ jobs'[i] = [jobs[i] EXCEPT !.status = "failed"]
        BY <4>1, <4>4 DEF Lapsed, Job
      <4> QED
        BY <1>5, <3>1, <4>2, <4>3, <4>4, PullEffect
    <3> QED
      BY <1>3, <1>5, <3>1, <3>2 DEF NodePulls, Pull
  <2>4. CASE \E j \in Jobs : ExpireLease(j)
    BY <1>3, <1>5, <2>4 DEF ExpireLease, IInv, TypeOK, MockTypeOK, Job
  <2>5. CASE UNCHANGED <<jobs, jobsDone>>
    BY <1>3, <1>5, <2>5
  <2>6. CASE \E n \in Nodes, j \in Jobs : NodePosts(n, j) /\ jobs[j].status # "running"
    BY <2>5, <2>6 DEF NodePosts, Result
  <2>7. CASE \E j \in Jobs : Post(j)
    BY <1>5, <2>2, <2>7 DEF Post, Pending, IInv, CallsOK
  <2>8. CASE \E j \in Jobs, c \in Calls : LatePost(c, j)
    BY <2>2, <2>8 DEF LatePost, Pending
  <2> QED
    BY <1>5, <2>1, <2>3, <2>4, <2>5, <2>6, <2>7, <2>8
       DEF Next, vars, mock, Pick, PostRefused, PostLost, NextProcess, WriteJobFile,
           Adopt, ResultWithReceipt, SetUp, Register
<1> QED
  BY <1>1, <1>5, InvariantHolds, PTL DEF Spec

\* The cap of MAX_QUEUED_PER_NODE is exact in testkit.py (create_job counts and inserts
\* under one lock, and no other handler makes a finished job unfinished).
THEOREM CapIsExactHolds == Spec => []CapIsExact
<1> USE MockAssumption, ClientAssumption
<1>1. ASSUME NEW n \in Nodes
      PROVE  IsFiniteSet(Unfinished(n)) /\ Cardinality(Unfinished(n)) \in Nat
  BY FS_Subset, FS_CardinalityType DEF Unfinished
<1>2. Init => CapIsExact
  <2> SUFFICES ASSUME Init, NEW n \in Nodes PROVE Cardinality(Unfinished(n)) <= MaxQueued
    BY DEF CapIsExact
  <2>1. Unfinished(n) = {}
    BY DEF Init, MockInit, Absent, Unfinished
  <2> QED
    BY <2>1, FS_EmptySet
<1>3. ASSUME CapIsExact, NEW n \in Nodes, Unfinished(n)' \subseteq Unfinished(n)
      PROVE  Cardinality(Unfinished(n))' <= MaxQueued
  <2>1. /\ Cardinality(Unfinished(n)') <= Cardinality(Unfinished(n))
        /\ Cardinality(Unfinished(n)') \in Nat
    BY <1>1, <1>3, FS_Subset, FS_CardinalityType
  <2>2. Cardinality(Unfinished(n)) <= MaxQueued
    BY <1>3 DEF CapIsExact
  <2> QED
    BY <1>1, <2>1, <2>2
<1>4. ASSUME CapIsExact,
             \A i \in Jobs : \/ jobs'[i].status \notin {"queued", "running"}
                            \/ /\ jobs'[i].to = jobs[i].to
                               /\ jobs[i].status \in {"queued", "running"}
      PROVE  CapIsExact'
  <2>1. \A n \in Nodes : Unfinished(n)' \subseteq Unfinished(n)
    BY <1>4 DEF Unfinished
  <2> QED
    BY <1>3, <1>4, <2>1 DEF CapIsExact
<1>5. ASSUME IInv, CapIsExact, NEW c \in Calls, NEW j \in Jobs, Pending(c), Serve(c, j)
      PROVE  CapIsExact'
  <2> DEFINE new == Queued(asked[c].node, asked[c].sealed, c)
  <2>1. CASE jobs' = jobs
    BY <1>3, <1>5, <2>1 DEF CapIsExact, Unfinished
  <2>2. CASE jobs' # jobs
    <3>1. /\ asked[c].node \in Nodes /\ jobs[j].status = "absent"
          /\ jobs' = [jobs EXCEPT ![j] = new]
      BY <1>5, <2>2, ServeEffect
    <3> PICK m \in Nodes : m = asked[c].node
      BY <3>1
    <3>2. Cardinality(Unfinished(m)) < MaxQueued
      <4>1. ~Full(m)
        BY <1>5, <2>2 DEF Serve, CreateJob
      <4> QED
        BY <1>1, <3>1, <4>1 DEF Full
    <3>3. \A i \in Jobs : jobs'[i] = IF i = j THEN new ELSE jobs[i]
      BY <1>5, <3>1 DEF IInv, TypeOK, MockTypeOK
    <3>4. new.to = m /\ new.status = "queued"
      BY DEF Queued
    <3> HIDE DEF new
    <3>5. ASSUME NEW n \in Nodes, n # m PROVE Unfinished(n)' \subseteq Unfinished(n)
      <4> SUFFICES ASSUME NEW i \in Unfinished(n)' PROVE i \in Unfinished(n)
        OBVIOUS
      <4>1. i \in Jobs /\ jobs'[i].to = n /\ jobs'[i].status \in {"queued", "running"}
        BY DEF Unfinished
      <4>2. jobs'[i] = jobs[i]
        BY <3>3, <3>4, <3>5, <4>1
      <4> QED
        BY <4>1, <4>2 DEF Unfinished
    <3>6. Cardinality(Unfinished(m)') <= MaxQueued
      <4>1. j \notin Unfinished(m)
        BY <3>1 DEF Unfinished
      <4>2. ASSUME NEW i \in Jobs
            PROVE  i \in Unfinished(m)' <=> i \in Unfinished(m) \/ i = j
        <5>1. CASE i = j
          BY <3>3, <3>4, <5>1 DEF Unfinished
        <5>2. CASE i # j
          BY <3>3, <5>2 DEF Unfinished
        <5> QED
          BY <5>1, <5>2
      <4>3. Unfinished(m)' \subseteq Jobs /\ Unfinished(m) \subseteq Jobs
        BY DEF Unfinished
      <4>4. Unfinished(m)' = Unfinished(m) \cup {j}
        BY <4>2, <4>3
      <4>5. Cardinality(Unfinished(m) \cup {j}) = Cardinality(Unfinished(m)) + 1
        BY <1>1, <3>1, <4>1, FS_AddElement
      <4> QED
        BY <1>1, <3>1, <3>2, <4>4, <4>5
    <3>7. ASSUME NEW n \in Nodes PROVE Cardinality(Unfinished(n))' <= MaxQueued
      BY <1>3, <1>5, <3>5, <3>6
    <3> QED
      BY <3>7 DEF CapIsExact
  <2> QED
    BY <2>1, <2>2
<1>6. ASSUME IInv, [Next]_vars, CapIsExact PROVE CapIsExact'
  <2>1. CASE \E j \in Jobs, c \in Calls : Pending(c) /\ Serve(c, j)
    BY <1>5, <1>6, <2>1
  <2>2. CASE \E n \in Nodes : NodePulls(n)
    <3>1. PICK n \in Nodes : NodePulls(n)
      BY <2>2
    <3>2. ASSUME NEW i \in Jobs
          PROVE  \/ jobs'[i].status \notin {"queued", "running"}
                 \/ /\ jobs'[i].to = jobs[i].to
                    /\ jobs[i].status \in {"queued", "running"}
      <4>1. jobs[i] \in Job
        BY <1>6 DEF IInv, TypeOK, MockTypeOK
      <4>2. CASE jobs'[i] = jobs[i]
        BY <4>2
      <4>3. CASE /\ Deliverable(n, i)
                 /\ jobs'[i] = [jobs[i] EXCEPT !.status = "running", !.lease = "live",
                                               !.attempts = @ + 1]
        BY <4>1, <4>3 DEF Deliverable, Lapsed, Job
      <4>4. CASE jobs'[i] = [jobs[i] EXCEPT !.status = "failed"]
        BY <4>1, <4>4 DEF Job
      <4> QED
        BY <1>6, <3>1, <4>2, <4>3, <4>4, PullEffect
    <3> QED
      BY <1>4, <1>6, <3>2
  <2>3. CASE \E n \in Nodes, i \in Jobs : NodePosts(n, i)
    <3>1. PICK n \in Nodes, i \in Jobs : NodePosts(n, i)
      BY <2>3
    <3>2. PICK receipt \in {0, jobs[i].sealed} : Result(n, i, receipt)
      BY <3>1 DEF NodePosts
    <3>3. CASE jobs' = jobs
      BY <1>4, <1>6, <3>3
    <3>4. CASE jobs' = [jobs EXCEPT ![i] = [@ EXCEPT !.status = "done", !.lease = "lapsed",
                                                     !.receipt = receipt]]
      <4>1. ASSUME NEW k \in Jobs
            PROVE  jobs'[k] = jobs[k] \/ jobs'[k].status = "done"
        <5>1. jobs \in [Jobs -> Job]
          BY <1>6 DEF IInv, TypeOK, MockTypeOK
        <5>2. CASE k = i
          BY <3>4, <5>1, <5>2 DEF Job
        <5>3. CASE k # i
          BY <3>4, <5>1, <5>3
        <5> QED
          BY <5>2, <5>3
      <4> QED
        BY <1>4, <1>6, <4>1
    <3> QED
      BY <3>2, <3>3, <3>4 DEF Result
  <2>4. CASE \E j \in Jobs : ExpireLease(j)
    BY <1>4, <1>6, <2>4 DEF ExpireLease, IInv, TypeOK, MockTypeOK, Job
  <2>5. CASE UNCHANGED jobs
    BY <1>6, <2>5 DEF CapIsExact, Unfinished
  <2>6. CASE \E j \in Jobs : Post(j)
    BY <1>6, <2>1, <2>6 DEF Post, Pending, IInv, CallsOK
  <2>7. CASE \E j \in Jobs, c \in Calls : LatePost(c, j)
    BY <2>1, <2>7 DEF LatePost, Pending
  <2> QED
    BY <1>6, <2>2, <2>3, <2>4, <2>5, <2>6, <2>7
       DEF Next, vars, mock, Pick, PostRefused, PostLost, NextProcess, WriteJobFile,
           Adopt, ResultWithReceipt, SetUp, Register
<1> QED
  BY <1>2, <1>6, InvariantHolds, PTL DEF Spec

\* Job by job the handlers of testkit.py take only the steps of JobMailbox.
THEOREM MailboxStepsHold == Spec => MailboxSteps
<1> USE MockAssumption, ClientAssumption
<1>1. Init => \A j \in Jobs : Mailbox(j)!Init
  BY DEF Init, MockInit, Absent, Mailbox!Init
<1>2. ASSUME IInv, [Next]_vars, NEW j \in Jobs, jobs'[j] # jobs[j]
      PROVE  Mailbox(j)!Next
  <2>1. jobs[j] \in Job
    BY <1>2 DEF IInv, TypeOK, MockTypeOK
  <2>2. CASE \E i \in Jobs, c \in Calls : Pending(c) /\ Serve(c, i)
    <3>1. PICK i \in Jobs, c \in Calls : Pending(c) /\ Serve(c, i)
      BY <2>2
    <3>2. /\ jobs[i].status = "absent"
          /\ jobs' = [jobs EXCEPT ![i] = Queued(asked[c].node, asked[c].sealed, c)]
      BY <1>2, <3>1, ServeEffect
    <3>3. i = j /\ jobs'[j] = Queued(asked[c].node, asked[c].sealed, c)
      BY <1>2, <3>2 DEF IInv, TypeOK, MockTypeOK
    <3>4. jobs[j] = Absent
      BY <1>2, <3>2, <3>3 DEF IInv, JobOK
    <3>5. Mailbox(j)!Accept(j)
      BY <3>3, <3>4 DEF Absent, Queued, Mailbox!Accept
    <3> QED
      BY <3>5 DEF Mailbox!Next
  <2>3. CASE \E n \in Nodes : NodePulls(n)
    <3>1. PICK n \in Nodes : NodePulls(n)
      BY <2>3
    <3>2. CASE /\ Deliverable(n, j)
               /\ jobs'[j] = [jobs[j] EXCEPT !.status = "running", !.lease = "live",
                                             !.attempts = @ + 1]
      <4>1. jobs[j].lease = "lapsed" /\ jobs[j].attempts < MaxAttempts
        BY <1>2, <2>1, <3>2 DEF Deliverable, Lapsed, IInv, JobOK, Job
      <4>2. /\ jobs[j].status \in {"queued", "running"} /\ jobs'[j].status = "running"
            /\ jobs'[j].attempts = jobs[j].attempts + 1 /\ jobs'[j].lease = "live"
        BY <2>1, <3>2, <4>1 DEF Deliverable, Lapsed, Job
      <4>3. Mailbox(j)!Deliver(j)
        BY <4>1, <4>2 DEF Mailbox!Deliver
      <4> QED
        BY <4>3 DEF Mailbox!Next
    <3>3. CASE /\ Lapsed(j) /\ ~Deliverable(n, j) /\ jobs[j].to = n
               /\ jobs'[j] = [jobs[j] EXCEPT !.status = "failed"]
      <4>1. Mailbox(j)!GiveUp(j)
        BY <2>1, <3>3 DEF Deliverable, Lapsed, Job, Mailbox!GiveUp
      <4> QED
        BY <4>1 DEF Mailbox!Next
    <3> QED
      BY <1>2, <3>1, <3>2, <3>3, PullEffect
  <2>4. CASE \E i \in Jobs : ExpireLease(i)
    <3>1. jobs[j].lease = "live" /\ jobs'[j] = [jobs[j] EXCEPT !.lease = "lapsed"]
      BY <1>2, <2>4 DEF ExpireLease, IInv, TypeOK, MockTypeOK
    <3>2. Mailbox(j)!Lapse(j)
      BY <2>1, <3>1 DEF Job, Mailbox!Lapse
    <3> QED
      BY <3>2 DEF Mailbox!Next
  <2>5. CASE \E n \in Nodes, i \in Jobs : NodePosts(n, i)
    <3>1. PICK n \in Nodes, i \in Jobs : NodePosts(n, i)
      BY <2>5
    <3>2. PICK receipt \in {0, jobs[i].sealed} : Result(n, i, receipt)
      BY <3>1 DEF NodePosts
    <3>3. /\ i = j /\ jobs[j].status = "running"
          /\ jobs' = [jobs EXCEPT ![j] = [@ EXCEPT !.status = "done", !.lease = "lapsed",
                                                   !.receipt = receipt]]
      BY <1>2, <3>2 DEF Result, IInv, TypeOK, MockTypeOK
    <3>4. jobs'[j] = [jobs[j] EXCEPT !.status = "done", !.lease = "lapsed",
                                     !.receipt = receipt]
      BY <1>2, <3>3 DEF IInv, TypeOK, MockTypeOK
    <3>5. Stored(jobs[j].reply, receipt) \in Results
      <4>1. MadeOK(j)
        BY <1>2, <3>3 DEF IInv, JobOK
      <4>2. jobs[j].reply \in Calls
        <5>1. jobs[j].reply \in 1..calls
          BY <4>1 DEF MadeOK
        <5>2. calls \in 0..MaxCalls
          BY <1>2 DEF IInv, TypeOK
        <5> QED
          BY <5>1, <5>2 DEF Calls
      <4>3. jobs[j].sealed \in 0..MaxGeneration
        BY <4>1, <4>2, <1>2 DEF MadeOK, IInv, TypeOK, Ask
      <4> QED
        BY <3>3, <4>2, <4>3 DEF Stored, Results
    <3>6. jobs[j].status = "running"
      BY <3>3
    <3>7. /\ jobs'[j].status = "done" /\ jobs'[j].lease = "lapsed"
          /\ jobs'[j].attempts = jobs[j].attempts
          /\ jobs'[j].reply = jobs[j].reply /\ jobs'[j].receipt = receipt
      BY <2>1, <3>4 DEF Job
    <3>8. PICK b \in Results : b = Stored(jobs[j].reply, receipt)
      BY <3>5
    <3>9. Mailbox(j)!Finish(j, b)
      BY <3>6, <3>7, <3>8 DEF Mailbox!Finish
    <3> QED
      BY <3>9 DEF Mailbox!Next
  <2>6. CASE \E i \in Jobs : Post(i)
    BY <1>2, <2>2, <2>6 DEF Post, Pending, IInv, CallsOK
  <2>7. CASE \E i \in Jobs, c \in Calls : LatePost(c, i)
    BY <2>2, <2>7 DEF LatePost, Pending
  <2> QED
    BY <1>2, <2>3, <2>4, <2>5, <2>6, <2>7
       DEF Next, vars, mock, Pick, PostRefused, PostLost, NextProcess, WriteJobFile,
           Adopt, ResultWithReceipt, SetUp, Register
<1>3. ASSUME IInv, [Next]_vars
      PROVE  [\A j \in Jobs : Mailbox(j)!Next \/ UNCHANGED jobs[j]]_vars
  BY <1>2, <1>3
<1> QED
  BY <1>1, <1>3, InvariantHolds, PTL DEF Spec, MailboxSteps
===============================================================================
