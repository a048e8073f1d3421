--------------------------- MODULE NodeAgentProofs ---------------------------
(***************************************************************************)
(* A job that is not poison is given up only after MaxAttempts faults, for *)
(* every set of jobs and every bound.  The invariant keeps an account for  *)
(* each job: a delivery made, or a late pull that may still make one, is   *)
(* paid for by a fault, but for the delivery the agent has in hand while   *)
(* the coordinator knows the node.                                         *)
(***************************************************************************)
EXTENDS NodeAgent, FiniteSetTheorems, TLAPS

\* TypeOK but for the two Boolean variables, which the provers want apart.
Rest ==
    /\ job \in [Jobs -> Job]
    /\ pc \in Pcs
    /\ batch \subseteq Jobs
    /\ completed \in Nat
    /\ lateRegisters \in Nat /\ latePulls \in Nat /\ lateResults \subseteq Jobs
    /\ faults \in 0..MaxFaults

BatchInv ==
    /\ pc # "work" => batch = {}
    /\ \A j \in batch : job[j].status \in {"running", "done", "failed"}

InHand(j) == IF j \in batch /\ known /\ job[j].status # "failed" THEN 1 ELSE 0

Paid(j) ==
    job[j].status # "done" => job[j].attempts + latePulls <= faults + InHand(j)

Attempted(j) ==
    /\ job[j].status \in {"absent", "queued"} => job[j].attempts = 0
    /\ job[j].status = "failed" => job[j].attempts >= MaxAttempts

Account ==
    /\ \A j \in Jobs : Attempted(j)
    /\ \A j \in Jobs \ Poison : Paid(j)

IInv == TypeOK /\ BatchInv /\ Account

\* The initial state satisfies the invariant.
LEMMA InitIInv == Init => IInv
<1> SUFFICES ASSUME Init PROVE IInv
  OBVIOUS
<1>1. MaxAttempts \in Nat \ {0} /\ MaxFaults \in Nat
  BY AgentAssumption
<1>2. [status |-> "absent", attempts |-> 0, lease |-> "lapsed"] \in Job
  BY <1>1 DEF Job
<1>3. TypeOK
  <2>1. known \in BOOLEAN /\ registered \in BOOLEAN
    BY DEF Init
  <2>2. Rest
    BY <1>1, <1>2 DEF Init, Rest, Pcs
  <2> QED
    BY <2>1, <2>2 DEF TypeOK, Rest
<1>4. BatchInv
  BY DEF Init, BatchInv
<1>5. Account
  BY DEF Init, Account, Attempted, Paid, InHand
<1> QED
  BY <1>3, <1>4, <1>5 DEF IInv

\* What a pull does to one job: delivers it, gives it up or leaves it alone.
LEMMA PullEffect ==
    ASSUME TypeOK, Account
    PROVE  /\ AfterPull \in [Jobs -> Job]
           /\ Delivered \subseteq Jobs
           /\ \A j \in Jobs :
                 \/ /\ j \in Delivered
                    /\ job[j].status \in {"queued", "running"}
                    /\ AfterPull[j].status = "running"
                    /\ AfterPull[j].attempts = job[j].attempts + 1
                 \/ /\ j \notin Delivered
                    /\ job[j].status = "running"
                    /\ job[j].attempts >= MaxAttempts
                    /\ AfterPull[j].status = "failed"
                    /\ AfterPull[j].attempts = job[j].attempts
                 \/ /\ j \notin Delivered
                    /\ AfterPull[j] = job[j]
<1>1. Delivered \subseteq Jobs
  BY DEF Delivered, Visited
<1>2. \A j \in Jobs : job[j] \in Job
  BY DEF TypeOK
<1>3. ASSUME NEW j \in Jobs, j \in Delivered
      PROVE  /\ job[j].status \in {"queued", "running"}
             /\ AfterPull[j].status = "running"
             /\ AfterPull[j].attempts = job[j].attempts + 1
             /\ AfterPull[j] \in Job
  <2>1. AfterPull[j] = Leased(job[j])
    BY <1>3, <1>2, AgentAssumption
       DEF AfterPull, Delivered, Deliverable, Exhausted, Lapsed, Job
  <2>2. /\ job[j].status \in {"queued", "running"}
        /\ job[j].status = "queued" \/ job[j].attempts < MaxAttempts
    BY <1>3 DEF Delivered, Deliverable, Lapsed
  <2>3. job[j].attempts \in 0..MaxAttempts
    BY <1>2 DEF Job
  <2>4. job[j].status = "queued" => job[j].attempts = 0
    BY DEF Account, Attempted
  <2>5. job[j].attempts + 1 \in 0..MaxAttempts
    BY <2>2, <2>3, <2>4, AgentAssumption
  <2>6. /\ AfterPull[j] \in Job
        /\ AfterPull[j].status = "running"
        /\ AfterPull[j].attempts = job[j].attempts + 1
    BY <1>2, <2>1, <2>5 DEF Job, Leased
  <2> QED
    BY <2>1, <2>2, <2>6
<1>4. ASSUME NEW j \in Jobs, j \notin Delivered, j \in Visited, Exhausted(j)
      PROVE  /\ job[j].status = "running"
             /\ job[j].attempts >= MaxAttempts
             /\ AfterPull[j] = Failed(job[j])
  BY <1>4 DEF Exhausted, Lapsed, AfterPull
<1>5. ASSUME NEW j \in Jobs, j \notin Delivered, ~(j \in Visited /\ Exhausted(j))
      PROVE  AfterPull[j] = job[j]
  BY <1>5 DEF AfterPull
<1>6. ASSUME NEW j \in Jobs
      PROVE  AfterPull[j] \in Job
  <2>1. CASE j \in Delivered
    BY <2>1, <1>3
  <2>2. CASE j \notin Delivered /\ j \in Visited /\ Exhausted(j)
    BY <2>2, <1>2, <1>4 DEF Job, Failed
  <2>3. CASE j \notin Delivered /\ ~(j \in Visited /\ Exhausted(j))
    BY <2>3, <1>2, <1>5
  <2> QED
    BY <2>1, <2>2, <2>3
<1>7. AfterPull \in [Jobs -> Job]
  BY <1>6 DEF AfterPull
<1> QED
  BY <1>1, <1>2, <1>3, <1>4, <1>5, <1>7 DEF Job, Failed

\* A stored result ends a running job and touches no other.
LEMMA FinishEffect ==
    ASSUME TypeOK, NEW j \in Jobs
    PROVE  /\ Finished(j) \in [Jobs -> Job]
           /\ Finished(j)[j].status = "done"
           /\ \A i \in Jobs \ {j} : Finished(j)[i] = job[i]
BY DEF TypeOK, Finished, Job

\* The Boolean variables are only set to constants and to each other.
LEMMA BooleanStep ==
    TypeOK /\ [Next]_vars => known' \in BOOLEAN /\ registered' \in BOOLEAN
<1> SUFFICES ASSUME TypeOK, [Next]_vars
             PROVE  known' \in BOOLEAN /\ registered' \in BOOLEAN
  OBVIOUS
<1> known \in BOOLEAN /\ registered \in BOOLEAN
  BY DEF TypeOK
<1>1. CASE AgentStep
  <2>1. CASE RunOnce \/ Register \/ RegisterLost \/ Heartbeat \/ HeartbeatLost
    BY <2>1, Zenon DEF RunOnce, Register, RegisterLost, Heartbeat, HeartbeatLost,
                Raises, Restarts, coord
  <2>2. CASE Pull \/ PullLost \/ Crash
    BY <2>2, Zenon DEF Pull, PullLost, Raises, Restarts, Crash, coord
  <2>3. CASE PullUnknown
    <3>1. CASE pc = "pull"
      BY <2>3, <3>1, Zenon DEF PullUnknown, coord
    <3>2. CASE pc # "pull"
      BY <2>3, <3>2, Zenon DEF PullUnknown, coord
    <3> QED
      BY <3>1, <3>2
  <2>4. ASSUME NEW j \in Jobs, ProcessRaises(j) \/ Post(j) \/ PostLost(j)
        PROVE  known' \in BOOLEAN /\ registered' \in BOOLEAN
    BY <2>4, Zenon DEF ProcessRaises, Post, PostLost, Leaves, Restarts, coord
  <2> QED
    BY <1>1, <2>1, <2>2, <2>3, <2>4, Zenon DEF AgentStep
<1>2. ASSUME NEW j \in Jobs, Submit(j) \/ Lapse(j) \/ LateResult(j)
      PROVE  known' \in BOOLEAN /\ registered' \in BOOLEAN
  BY <1>2, Zenon DEF Submit, Lapse, LateResult, agent
<1>3. CASE Forget \/ LateRegister \/ LatePull
  BY <1>3, Zenon DEF Forget, LateRegister, LatePull, agent
<1>4. CASE UNCHANGED vars
  BY <1>4, Zenon DEF vars, coord, agent
<1> QED
  BY <1>1, <1>2, <1>3, <1>4, Zenon DEF Next

\* Every step keeps the types.
LEMMA TypeStep == IInv /\ [Next]_vars => TypeOK'
<1> SUFFICES ASSUME IInv, [Next]_vars PROVE TypeOK'
  OBVIOUS
<1> SUFFICES Rest'
  BY BooleanStep DEF IInv, TypeOK, Rest
<1> Rest /\ TypeOK /\ Account /\ MaxFaults \in Nat
  BY AgentAssumption DEF IInv, TypeOK, Rest
<1>1. CASE AgentStep
  <2>1. CASE RunOnce
    BY <2>1 DEF RunOnce, Rest, Pcs, coord, late
  <2>2. CASE Register
    BY <2>2 DEF Register, Rest, Pcs, late
  <2>3. CASE Heartbeat
    BY <2>3 DEF Heartbeat, Rest, Pcs, coord, late
  <2>4. CASE PullUnknown
    BY <2>4 DEF PullUnknown, Rest, Pcs, coord, late
  <2>5. CASE RegisterLost \/ HeartbeatLost \/ PullLost \/ Crash
    BY <2>5 DEF RegisterLost, HeartbeatLost, PullLost, Crash, Fault, Raises,
                Restarts, Rest, Pcs, coord, late
  <2>6. CASE Pull
    BY <2>6, PullEffect DEF Pull, Rest, Pcs, late
  <2>7. ASSUME NEW j \in Jobs, ProcessRaises(j) \/ PostLost(j)
        PROVE  Rest'
    BY <2>7 DEF ProcessRaises, PostLost, Fault, Leaves, Restarts, Rest, Pcs,
                coord, late
  <2>8. ASSUME NEW j \in Jobs, Post(j)
        PROVE  Rest'
    BY <2>8, FinishEffect DEF Post, Leaves, Rest, Pcs, late
  <2> QED
    BY <1>1, <2>1, <2>2, <2>3, <2>4, <2>5, <2>6, <2>7, <2>8 DEF AgentStep
<1>2. ASSUME NEW j \in Jobs, Submit(j) \/ Lapse(j)
      PROVE  Rest'
  BY <1>2 DEF Submit, Lapse, Rest, Job, agent, late
<1>3. ASSUME NEW j \in Jobs, LateResult(j)
      PROVE  Rest'
  BY <1>3, FinishEffect DEF LateResult, Rest, agent
<1>4. CASE Forget \/ LateRegister
  BY <1>4 DEF Forget, LateRegister, Fault, Rest, agent, late
<1>5. CASE LatePull
  BY <1>5, PullEffect DEF LatePull, Rest, agent
<1>6. CASE UNCHANGED vars
  BY <1>6 DEF vars, coord, agent, late, Rest
<1> QED
  BY <1>1, <1>2, <1>3, <1>4, <1>5, <1>6 DEF Next

\* A step that changes no job keeps the account if what it adds in late pulls
\* or takes out of hand it pays for with a fault.
LEMMA QuietStep ==
    ASSUME IInv, TypeOK', UNCHANGED job,
           \A j \in Jobs \ Poison : job[j].status # "done" =>
              latePulls' + InHand(j) + faults <= latePulls + InHand(j)' + faults'
    PROVE  Account'
<1>1. ASSUME NEW j \in Jobs \ Poison, job[j].status # "done"
      PROVE  Paid(j)'
  <2>1. /\ latePulls \in Nat /\ latePulls' \in Nat
        /\ faults \in Nat /\ faults' \in Nat
        /\ job[j].attempts \in Nat
        /\ InHand(j) \in Nat /\ InHand(j)' \in Nat
    BY AgentAssumption DEF IInv, TypeOK, Job, InHand
  <2>2. Paid(j)
    BY DEF IInv, Account
  <2>3. latePulls' + InHand(j) + faults <= latePulls + InHand(j)' + faults'
    BY <1>1
  <2> QED
    BY <2>1, <2>2, <2>3 DEF Paid
<1>2. \A j \in Jobs : Attempted(j)'
  BY DEF IInv, Account, Attempted
<1>3. \A j \in Jobs \ Poison : Paid(j)'
  BY <1>1 DEF Paid
<1> QED
  BY <1>2, <1>3 DEF Account

\* So does a step that only ends one running job.
LEMMA FinishStep ==
    ASSUME IInv, TypeOK', NEW j \in Jobs, job' = Finished(j),
           batch' = batch \/ batch' = batch \ {j},
           UNCHANGED <<known, latePulls, faults>>
    PROVE  Account'
<1>1. \A i \in Jobs : Attempted(i)'
  BY FinishEffect DEF IInv, Account, Attempted
<1>2. \A i \in Jobs \ Poison : Paid(i)'
  BY FinishEffect DEF IInv, Account, Paid, InHand
<1> QED
  BY <1>1, <1>2 DEF Account

\* A pull, served in time or late, keeps the account: in time it puts what it
\* delivers in hand, late it uses up what was paid.
LEMMA PullStep ==
    ASSUME IInv, TypeOK', job' = AfterPull, UNCHANGED <<known, faults>>, known,
           \/ batch = {} /\ batch' = Delivered /\ latePulls' = latePulls
           \/ batch' = batch /\ latePulls' = latePulls - 1
    PROVE  Account'
<1>1. \A i \in Jobs : Attempted(i)'
  BY PullEffect, AgentAssumption DEF IInv, Account, Attempted, TypeOK, Job
<1>2. ASSUME NEW i \in Jobs \ Poison
      PROVE  Paid(i)'
  <2>1. /\ latePulls \in Nat /\ latePulls' \in Nat /\ faults \in Nat
        /\ job[i].attempts \in Nat
    BY AgentAssumption DEF IInv, TypeOK, Job
  <2>2. Paid(i)
    BY DEF IInv, Account
  <2>3. CASE batch = {} /\ batch' = Delivered /\ latePulls' = latePulls
    BY <2>1, <2>2, <2>3, PullEffect DEF IInv, Paid, InHand
  <2>4. CASE batch' = batch /\ latePulls' = latePulls - 1
    BY <2>1, <2>2, <2>4, PullEffect DEF IInv, Paid, InHand, BatchInv
  <2> QED
    BY <2>3, <2>4
<1> QED
  BY <1>1, <1>2 DEF Account

\* A submit and a lease that runs out change no count of attempts, and no
\* status but that of the job submitted.
LEMMA WorldStep ==
  ASSUME job \in [Jobs -> Job], NEW j \in Jobs, Submit(j) \/ Lapse(j)
  PROVE  \A i \in Jobs :
           /\ job'[i].attempts = job[i].attempts
           /\ \/ job'[i].status = job[i].status
              \/ job[i].status = "absent" /\ job'[i].status = "queued"
<1>1. ASSUME NEW i \in Jobs, i # j
      PROVE  job'[i] = job[i]
  BY <1>1 DEF Submit, Lapse
<1>2. CASE Submit(j)
  <2>1. job'[j] = [job[j] EXCEPT !.status = "queued"]
    BY <1>2 DEF Submit
  <2>2. job[j].status = "absent"
    BY <1>2 DEF Submit
  <2>3. job'[j].attempts = job[j].attempts /\ job'[j].status = "queued"
    BY <2>1 DEF Job
  <2> QED
    BY <1>1, <2>2, <2>3
<1>3. CASE Lapse(j)
  <2>1. job'[j] = [job[j] EXCEPT !.lease = "lapsed"]
    BY <1>3 DEF Lapse
  <2>2. job'[j].attempts = job[j].attempts /\ job'[j].status = job[j].status
    BY <2>1 DEF Job
  <2> QED
    BY <1>1, <2>2
<1> QED
  BY <1>2, <1>3

\* Every step keeps the account.
LEMMA AccountStep == IInv /\ [Next]_vars => Account'
<1> SUFFICES ASSUME IInv, [Next]_vars PROVE Account'
  OBVIOUS
<1>0. /\ TypeOK'
      /\ faults \in Nat /\ latePulls \in Nat
      /\ \A j \in Jobs : InHand(j) \in {0, 1} /\ InHand(j)' \in {0, 1}
  BY TypeStep, AgentAssumption DEF IInv, TypeOK, InHand
<1>1. CASE AgentStep
  <2>1. CASE RunOnce \/ Heartbeat \/ PullUnknown
    BY <2>1, <1>0, QuietStep
       DEF RunOnce, Heartbeat, PullUnknown, InHand, coord, late
  <2>2. CASE Register
    <3>1. batch = {}
      BY <2>2 DEF Register, IInv, BatchInv
    <3> QED
      BY <2>2, <3>1, <1>0, QuietStep DEF Register, InHand, late
  <2>3. CASE RegisterLost \/ HeartbeatLost \/ Crash
    BY <2>3, <1>0, QuietStep
       DEF RegisterLost, HeartbeatLost, Crash, Fault, coord, late
  <2>4. CASE PullLost
    <3>1. batch = {} /\ batch' = {}
      BY <2>4 DEF PullLost, Raises, Restarts, IInv, BatchInv
    <3> QED
      BY <2>4, <3>1, <1>0, QuietStep DEF PullLost, Fault, InHand, coord
  <2>5. CASE Pull
    <3>1. batch = {}
      BY <2>5 DEF Pull, IInv, BatchInv
    <3> QED
      BY <2>5, <3>1, <1>0, PullStep DEF Pull, late
  <2>6. ASSUME NEW j \in Jobs, ProcessRaises(j)
        PROVE  Account'
    <3>1. CASE j \in Poison
      <4>1. \A i \in Jobs \ Poison : InHand(i)' = InHand(i)
        BY <2>6, <3>1 DEF ProcessRaises, Leaves, InHand, coord
      <4> QED
        BY <2>6, <3>1, <4>1, <1>0, QuietStep DEF ProcessRaises, coord, late
    <3>2. CASE j \notin Poison
      BY <2>6, <3>2, <1>0, QuietStep DEF ProcessRaises, Fault, coord, late
    <3> QED
      BY <3>1, <3>2
  <2>7. ASSUME NEW j \in Jobs, PostLost(j)
        PROVE  Account'
    BY <2>7, <1>0, QuietStep DEF PostLost, Fault, coord
  <2>8. ASSUME NEW j \in Jobs, Post(j), Accepts(j)
        PROVE  Account'
    BY <2>8, <1>0, FinishStep DEF Post, Leaves, late
  <2>9. ASSUME NEW j \in Jobs, Post(j), ~Accepts(j)
        PROVE  Account'
    <3>1. job[j].status # "done" => InHand(j) = 0
      <4>1. CASE ~known
        BY <4>1 DEF InHand
      <4>2. CASE known
        BY <2>9, <4>2 DEF Accepts, Post, First, IInv, BatchInv, InHand
      <4> QED
        BY <4>1, <4>2
    <3>2. \A i \in Jobs \ {j} : InHand(i)' = InHand(i)
      BY <2>9 DEF Post, Leaves, InHand
    <3> QED
      BY <2>9, <3>1, <3>2, <1>0, QuietStep DEF Post, late
  <2> QED
    BY <1>1, <2>1, <2>2, <2>3, <2>4, <2>5, <2>6, <2>7, <2>8, <2>9 DEF AgentStep
<1>2. ASSUME NEW j \in Jobs, Submit(j) \/ Lapse(j)
      PROVE  Account'
  <2>1. \A i \in Jobs :
           /\ job'[i].attempts = job[i].attempts
           /\ \/ job'[i].status = job[i].status
              \/ job[i].status = "absent" /\ job'[i].status = "queued"
    BY <1>2, WorldStep DEF IInv, TypeOK
  <2>2. UNCHANGED <<known, batch, latePulls, faults>>
    BY <1>2 DEF Submit, Lapse, agent, late
  <2>3. \A i \in Jobs : Attempted(i)'
    BY <2>1 DEF IInv, Account, Attempted
  <2>4. \A i \in Jobs \ Poison : Paid(i)'
    BY <2>1, <2>2 DEF IInv, Account, Paid, InHand
  <2> QED
    BY <2>3, <2>4 DEF Account
<1>3. ASSUME NEW j \in Jobs, LateResult(j)
      PROVE  Account'
  <2>1. CASE Accepts(j)
    BY <1>3, <2>1, <1>0, FinishStep DEF LateResult, agent
  <2>2. CASE ~Accepts(j)
    BY <1>3, <2>2, <1>0, QuietStep DEF LateResult, InHand, agent
  <2> QED
    BY <2>1, <2>2
<1>4. CASE Forget
  BY <1>4, <1>0, QuietStep DEF Forget, Fault, late
<1>5. CASE LateRegister
  BY <1>5, <1>0, QuietStep DEF LateRegister, InHand, agent
<1>6. CASE LatePull
  <2>1. CASE known
    BY <1>6, <2>1, <1>0, PullStep DEF LatePull, agent
  <2>2. CASE ~known
    BY <1>6, <2>2, <1>0, QuietStep DEF LatePull, InHand, agent
  <2> QED
    BY <2>1, <2>2
<1>7. CASE UNCHANGED vars
  BY <1>7, <1>0, QuietStep DEF vars, coord, agent, late, InHand
<1> QED
  BY <1>1, <1>2, <1>3, <1>4, <1>5, <1>6, <1>7 DEF Next

\* Every step keeps the batch in step with the loop, and what is in it has been
\* delivered.
LEMMA BatchStep == IInv /\ [Next]_vars => BatchInv'
<1> SUFFICES ASSUME IInv, [Next]_vars PROVE BatchInv'
  OBVIOUS
<1> USE DEF IInv, BatchInv
<1>1. CASE AgentStep
  <2>1. CASE RunOnce \/ Register \/ Heartbeat \/ PullUnknown
    BY <2>1 DEF RunOnce, Register, Heartbeat, PullUnknown, coord
  <2>2. CASE RegisterLost \/ HeartbeatLost \/ PullLost \/ Crash
    BY <2>2 DEF RegisterLost, HeartbeatLost, PullLost, Crash, Raises, Restarts, coord
  <2>3. CASE Pull
    BY <2>3, PullEffect DEF Pull
  <2>4. ASSUME NEW j \in Jobs, ProcessRaises(j) \/ PostLost(j)
        PROVE  BatchInv'
    BY <2>4 DEF ProcessRaises, PostLost, Leaves, Restarts, coord, First
  <2>5. ASSUME NEW j \in Jobs, Post(j)
        PROVE  BatchInv'
    BY <2>5, FinishEffect DEF Post, Leaves, First, TypeOK
  <2> QED
    BY <1>1, <2>1, <2>2, <2>3, <2>4, <2>5 DEF AgentStep
<1>2. ASSUME NEW j \in Jobs, Submit(j) \/ Lapse(j)
      PROVE  BatchInv'
  BY <1>2 DEF Submit, Lapse, agent, TypeOK, Job
<1>3. ASSUME NEW j \in Jobs, LateResult(j)
      PROVE  BatchInv'
  BY <1>3, FinishEffect DEF LateResult, agent, TypeOK
<1>4. CASE Forget \/ LateRegister
  BY <1>4 DEF Forget, LateRegister, agent
<1>5. CASE LatePull
  BY <1>5, PullEffect DEF LatePull, agent, TypeOK
<1>6. CASE UNCHANGED vars
  BY <1>6 DEF vars, coord, agent
<1> QED
  BY <1>1, <1>2, <1>3, <1>4, <1>5, <1>6 DEF Next

\* The account holds in every reachable state.
LEMMA SpecIInv == Spec => []IInv
<1>1. IInv /\ [Next]_vars => IInv'
  BY TypeStep, BatchStep, AccountStep DEF IInv
<1> QED
  BY <1>1, InitIInv, PTL DEF Spec

\* Every reachable state of the agent and its coordinator is well typed: no job
\* is delivered more often than MaxAttempts, by pulls served late neither.
THEOREM AgentTypeCorrect == Spec => []TypeOK
<1>1. IInv => TypeOK
  BY DEF IInv
<1> QED
  BY <1>1, SpecIInv, PTL

\* However many jobs, whatever the batch size and in whatever order faults and
\* late requests come: a job that is not poison is not given up before
\* MaxAttempts faults have happened.
THEOREM GoodJobFailsOnlyByFaultsHolds == Spec => []GoodJobFailsOnlyByFaults
<1>1. IInv => GoodJobFailsOnlyByFaults
  <2> SUFFICES ASSUME IInv, NEW j \in Jobs \ Poison, job[j].status = "failed"
               PROVE  faults >= MaxAttempts
    BY DEF GoodJobFailsOnlyByFaults
  <2>1. /\ job[j].attempts \in Nat /\ latePulls \in Nat /\ faults \in Nat
        /\ MaxAttempts \in Nat
    BY AgentAssumption DEF IInv, TypeOK, Job
  <2>2. /\ job[j].attempts >= MaxAttempts
        /\ Paid(j)
    BY DEF IInv, Account, Attempted
  <2>3. InHand(j) = 0
    BY DEF InHand
  <2> QED
    BY <2>1, <2>2, <2>3 DEF Paid
<1> QED
  BY <1>1, SpecIInv, PTL
-------------------------------------------------------------------------------
(***************************************************************************)
(* What was counted is done and no more in hand, and only grows: a done    *)
(* job is not delivered again, so it is not counted again.                 *)
(***************************************************************************)

DoneAway == {j \in Jobs : job[j].status = "done" /\ j \notin batch}

CountInv == completed <= Cardinality(DoneAway)

\* The jobs are finitely many.
LEMMA FiniteDone == IsFiniteSet(DoneAway) /\ Cardinality(DoneAway) \in Nat
<1>1. DoneAway \in SUBSET Jobs
  BY DEF DoneAway
<1> QED
  BY <1>1, AgentAssumption, FS_Subset, FS_CardinalityType

\* No step takes a job from those that are done and out of hand.
LEMMA DoneAwayGrows == IInv /\ [Next]_vars => DoneAway \subseteq DoneAway'
<1> SUFFICES ASSUME IInv, [Next]_vars, NEW j \in Jobs, job[j].status = "done", j \notin batch
             PROVE  job'[j].status = "done" /\ j \notin batch'
  BY DEF DoneAway
<1> TypeOK /\ BatchInv /\ Account
  BY DEF IInv
<1>1. CASE AgentStep
  <2>1. CASE RunOnce \/ Register \/ Heartbeat \/ PullUnknown
    BY <2>1 DEF RunOnce, Register, Heartbeat, PullUnknown, coord
  <2>2. CASE RegisterLost \/ HeartbeatLost \/ PullLost \/ Crash
    BY <2>2 DEF RegisterLost, HeartbeatLost, PullLost, Crash, Raises, Restarts, coord
  <2>3. CASE Pull
    BY <2>3, PullEffect DEF Pull
  <2>4. ASSUME NEW i \in Jobs, ProcessRaises(i) \/ PostLost(i)
        PROVE  job'[j].status = "done" /\ j \notin batch'
    BY <2>4 DEF ProcessRaises, PostLost, Leaves, Restarts, coord
  <2>5. ASSUME NEW i \in Jobs, Post(i)
        PROVE  job'[j].status = "done" /\ j \notin batch'
    BY <2>5, FinishEffect DEF Post, Leaves
  <2> QED
    BY <1>1, <2>1, <2>2, <2>3, <2>4, <2>5 DEF AgentStep
<1>2. ASSUME NEW i \in Jobs, Submit(i) \/ Lapse(i)
      PROVE  job'[j].status = "done" /\ j \notin batch'
  <2>1. batch' = batch
    BY <1>2 DEF Submit, Lapse, agent
  <2> QED
    BY <1>2, <2>1, WorldStep DEF TypeOK
<1>3. ASSUME NEW i \in Jobs, LateResult(i)
      PROVE  job'[j].status = "done" /\ j \notin batch'
  BY <1>3, FinishEffect DEF LateResult, agent
<1>4. CASE Forget \/ LateRegister
  BY <1>4 DEF Forget, LateRegister, agent
<1>5. CASE LatePull
  BY <1>5, PullEffect DEF LatePull, agent
<1>6. CASE UNCHANGED vars
  BY <1>6 DEF vars, coord, agent
<1> QED
  BY <1>1, <1>2, <1>3, <1>4, <1>5, <1>6 DEF Next

\* The agent counts one job at a time: one that the answer to its post shows done,
\* and that was in hand until then.
LEMMA Counts ==
    ASSUME IInv, [Next]_vars, completed' # completed
    PROVE  /\ completed' = completed + 1
           /\ \E j \in Jobs : j \notin DoneAway /\ j \in DoneAway'
<1>1. PICK j \in Jobs : Post(j)
  BY DEF Next, AgentStep, RunOnce, Register, RegisterLost, Heartbeat, HeartbeatLost, Pull,
         PullUnknown, PullLost, ProcessRaises, PostLost, Crash, Raises, Restarts, Leaves,
         Submit, Lapse, LateResult, Forget, LateRegister, LatePull, vars, coord, agent, late
<1>2. completed' = completed + 1 /\ job'[j].status = "done"
  BY <1>1 DEF Post
<1>3. j \in batch /\ j \notin batch'
  BY <1>1 DEF Post, First, Leaves
<1> QED
  BY <1>2, <1>3 DEF DoneAway

\* Every step keeps the count.
LEMMA CountStep == IInv /\ CountInv /\ [Next]_vars => CountInv'
<1> SUFFICES ASSUME IInv, CountInv, [Next]_vars PROVE CountInv'
  OBVIOUS
<1> DEFINE D == DoneAway
<1>1. D \subseteq D' /\ D' \in SUBSET Jobs
  BY DoneAwayGrows DEF DoneAway
<1>2. /\ IsFiniteSet(D) /\ Cardinality(D) \in Nat /\ completed \in Nat
      /\ completed <= Cardinality(D)
  BY FiniteDone DEF IInv, TypeOK, CountInv
<1>3. IsFiniteSet(D') /\ Cardinality(D') \in Nat
  BY <1>1, AgentAssumption, FS_Subset, FS_CardinalityType
<1>4. Cardinality(D) <= Cardinality(D')
  BY <1>1, <1>3, FS_Subset
<1>5. ASSUME NEW j \in Jobs, j \notin D, j \in D'
      PROVE  Cardinality(D) + 1 <= Cardinality(D')
  <2>1. Cardinality(D \cup {j}) = Cardinality(D) + 1 /\ D \cup {j} \in SUBSET D'
    BY <1>1, <1>2, <1>5, FS_AddElement
  <2> QED
    BY <1>3, <2>1, FS_Subset
<1>6. completed' <= Cardinality(D')
  BY <1>2, <1>3, <1>4, <1>5, Counts
<1> QED
  BY <1>6 DEF CountInv

\* Whatever is lost, late or crashes, the agent's count is one of jobs that are
\* done, each once.
THEOREM CompletedIsDoneHolds == Spec => []CompletedIsDone
<1>1. Init => CountInv
  <2>1. Init => completed = 0
    BY DEF Init
  <2> QED
    BY <2>1, FiniteDone DEF CountInv
<1>2. IInv /\ CountInv => CompletedIsDone
  <2> SUFFICES ASSUME IInv, CountInv PROVE CompletedIsDone
    OBVIOUS
  <2> DEFINE E == {j \in Jobs : job[j].status = "done"}
  <2>1. E \in SUBSET Jobs /\ DoneAway \in SUBSET E
    BY DEF DoneAway
  <2>2. IsFiniteSet(E) /\ Cardinality(E) \in Nat
    BY <2>1, AgentAssumption, FS_Subset, FS_CardinalityType
  <2>3. Cardinality(DoneAway) <= Cardinality(E)
    BY <2>1, <2>2, FS_Subset
  <2> HIDE DEF E
  <2>4. completed <= Cardinality(E)
    BY <2>2, <2>3, FiniteDone DEF IInv, TypeOK, CountInv
  <2> QED
    BY <2>4 DEF E, CompletedIsDone
<1> QED
  BY <1>1, <1>2, CountStep, SpecIInv, PTL DEF Spec
-------------------------------------------------------------------------------
(***************************************************************************)
(* The agent and its coordinator implement JobMailbox, job by job.  What a *)
(* step does to one record is named first; that a job not under lease is   *)
(* not marked as one is all the invariant adds.                            *)
(***************************************************************************)

\* The five things that befall a record, and nothing.
Moves(j) ==
    \/ job[j].status = "absent" /\ job'[j] = [job[j] EXCEPT !.status = "queued"]
    \/ Deliverable(j) /\ job'[j] = Leased(job[j])
    \/ Exhausted(j) /\ job'[j] = Failed(job[j])
    \/ job[j].lease = "live" /\ job'[j] = [job[j] EXCEPT !.lease = "lapsed"]
    \/ /\ job[j].status = "running"
       /\ job'[j] = [job[j] EXCEPT !.status = "done", !.lease = "lapsed"]
    \/ job'[j] = job[j]

\* A job waiting to be delivered has no lease running.
LeaseInv == \A j \in Jobs : job[j].status \in {"absent", "queued"} => job[j].lease = "lapsed"

\* Every step, for every job, is one of the moves.
LEMMA StepMoves ==
    ASSUME IInv, [Next]_vars, NEW j \in Jobs
    PROVE  Moves(j)
<1> TypeOK /\ job \in [Jobs -> Job]
  BY DEF IInv, TypeOK
<1>1. ASSUME job' = AfterPull
      PROVE  Moves(j)
  <2>1. CASE j \in Delivered
    BY <1>1, <2>1 DEF AfterPull, Delivered, Moves
  <2>2. CASE j \notin Delivered /\ j \in Visited /\ Exhausted(j)
    BY <1>1, <2>2 DEF AfterPull, Moves
  <2>3. CASE j \notin Delivered /\ ~(j \in Visited /\ Exhausted(j))
    BY <1>1, <2>3 DEF AfterPull, Moves
  <2> QED
    BY <2>1, <2>2, <2>3
<1>2. ASSUME NEW i \in Jobs, Accepts(i), job' = Finished(i)
      PROVE  Moves(j)
  BY <1>2 DEF Accepts, Finished, Moves
<1>3. ASSUME NEW i \in Jobs, Submit(i) \/ Lapse(i)
      PROVE  Moves(j)
  BY <1>3 DEF Submit, Lapse, Moves
<1>4. ASSUME UNCHANGED job
      PROVE  Moves(j)
  BY <1>4 DEF Moves
<1>5. CASE AgentStep
  <2>1. ASSUME NEW i \in Jobs, Post(i)
        PROVE  Moves(j)
    BY <1>2, <1>4, <2>1 DEF Post
  <2>2. CASE Pull
    BY <1>1, <2>2 DEF Pull
  <2>3. CASE UNCHANGED job
    BY <1>4, <2>3
  <2> QED
    BY <1>5, <2>1, <2>2, <2>3
       DEF AgentStep, RunOnce, Register, RegisterLost, Heartbeat, HeartbeatLost,
           PullUnknown, PullLost, ProcessRaises, PostLost, Crash, coord
<1>6. ASSUME NEW i \in Jobs, LateResult(i)
      PROVE  Moves(j)
  BY <1>2, <1>4, <1>6 DEF LateResult
<1>7. CASE LatePull
  BY <1>1, <1>4, <1>7 DEF LatePull
<1>8. CASE Forget \/ LateRegister \/ UNCHANGED vars
  BY <1>4, <1>8 DEF Forget, LateRegister, vars, coord
<1> QED
  BY <1>3, <1>5, <1>6, <1>7, <1>8 DEF Next

\* A lease runs only while its job does.
LEMMA SpecLease == Spec => []LeaseInv
<1>1. Init => LeaseInv
  BY DEF Init, LeaseInv
<1>2. IInv /\ LeaseInv /\ [Next]_vars => LeaseInv'
  <2> SUFFICES ASSUME IInv, LeaseInv, [Next]_vars, NEW j \in Jobs,
                      job'[j].status \in {"absent", "queued"}
               PROVE  job'[j].lease = "lapsed"
    BY DEF LeaseInv
  <2>1. job[j] \in Job
    BY DEF IInv, TypeOK
  <2>2. Moves(j)
    BY StepMoves
  <2> QED
    BY <2>1, <2>2 DEF Moves, Leased, Failed, Job, LeaseInv
<1> QED
  BY <1>1, <1>2, SpecIInv, PTL DEF Spec

\* Job by job, whatever is lost, late or restarted, the agent and the
\* coordinator it polls take only the steps of JobMailbox.
THEOREM MailboxStepsHold == Spec => MailboxSteps
<1> USE AgentAssumption
<1>1. Init => \A j \in Jobs : Mailbox(j)!Init
  BY DEF Init, Mailbox!Init
<1>2. ASSUME IInv, LeaseInv, [Next]_vars, NEW j \in Jobs, job'[j] # job[j]
      PROVE  Mailbox(j)!Next
  <2>1. job[j] \in Job /\ LeaseInv
    BY <1>2 DEF IInv, TypeOK
  <2>2. CASE job[j].status = "absent" /\ job'[j] = [job[j] EXCEPT !.status = "queued"]
    <3>1. Mailbox(j)!Accept(j)
      BY <2>1, <2>2 DEF Job, Mailbox!Accept
    <3> QED
      BY <3>1 DEF Mailbox!Next
  <2>3. CASE Deliverable(j) /\ job'[j] = Leased(job[j])
    <3>1. /\ job[j].status \in {"queued", "running"} /\ job[j].lease = "lapsed"
          /\ job[j].attempts < MaxAttempts
      BY <1>2, <2>1, <2>3 DEF Deliverable, Lapsed, LeaseInv, IInv, Account, Attempted
    <3>2. /\ job'[j].status = "running" /\ job'[j].lease = "live"
          /\ job'[j].attempts = job[j].attempts + 1
      BY <2>1, <2>3 DEF Leased, Job
    <3>3. Mailbox(j)!Deliver(j)
      BY <3>1, <3>2 DEF Mailbox!Deliver
    <3> QED
      BY <3>3 DEF Mailbox!Next
  <2>4. CASE Exhausted(j) /\ job'[j] = Failed(job[j])
    <3>1. Mailbox(j)!GiveUp(j)
      BY <2>1, <2>4 DEF Exhausted, Lapsed, Failed, Job, Mailbox!GiveUp
    <3> QED
      BY <3>1 DEF Mailbox!Next
  <2>5. CASE job[j].lease = "live" /\ job'[j] = [job[j] EXCEPT !.lease = "lapsed"]
    <3>1. Mailbox(j)!Lapse(j)
      BY <2>1, <2>5 DEF Job, Mailbox!Lapse
    <3> QED
      BY <3>1 DEF Mailbox!Next
  <2>6. CASE /\ job[j].status = "running"
             /\ job'[j] = [job[j] EXCEPT !.status = "done", !.lease = "lapsed"]
    <3>1. Mailbox(j)!Finish(j, "result")
      BY <2>1, <2>6 DEF Job, Mailbox!Finish
    <3> QED
      BY <3>1 DEF Mailbox!Next
  <2>7. Moves(j)
    BY <1>2, StepMoves
  <2> QED
    BY <1>2, <2>2, <2>3, <2>4, <2>5, <2>6, <2>7 DEF Moves
<1>3. IInv /\ LeaseInv /\ [Next]_vars =>
         [\A j \in Jobs : Mailbox(j)!Next \/ UNCHANGED job[j]]_vars
  BY <1>2
<1> QED
  BY <1>1, <1>3, SpecIInv, SpecLease, PTL DEF Spec, MailboxSteps
===============================================================================
