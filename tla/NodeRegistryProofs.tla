-------------------------- MODULE NodeRegistryProofs --------------------------
(***************************************************************************)
(* The registry for any number of keys and of requests that overlap: when  *)
(* its node is on file, and who may change the stored key.                 *)
(***************************************************************************)
EXTENDS NodeRegistry, TLAPS

\* What a put was made of: nobody is seen before now, and a record stays a ttl
\* from when its node was seen.
TimeInv ==
    /\ node.seen <= now
    /\ node.key # NoKey => node.until >= node.seen + Ttl

\* What request q has read is still the stored key, if that is still on file and
\* no other put came in between.
ReadOK(q) ==
    /\ h[q].pc = "register" /\ Present /\ q \notin overtaken => h[q].signer = node.key
    /\ h[q].pc = "beat" /\ Present /\ q \notin overtaken => h[q].key = node.key

ReadInv == \A q \in Requests : ReadOK(q)

\* The empty registry satisfies the invariant.
LEMMA InitInv == Init => TypeOK /\ TimeInv
BY RegistryAssumption DEF Init, TypeOK, TimeInv, Record, Request, Idle

\* Every step keeps the type invariant.
LEMMA StepTypeOK == TypeOK /\ [Next]_vars => TypeOK'
<1> SUFFICES ASSUME TypeOK, [Next]_vars
             PROVE  TypeOK'
  OBVIOUS
<1> USE RegistryAssumption DEF TypeOK
<1>1. ASSUME NEW q \in Requests, NEW signer \in Keys, NEW key \in Keys,
             RegisterRead(q, signer, key)
      PROVE  TypeOK'
  BY <1>1 DEF RegisterRead, Entitled, InFlight, Request, Idle
<1>2. ASSUME NEW q \in Requests, NEW signer \in Keys, BeatRead(q, signer)
      PROVE  TypeOK'
  BY <1>2 DEF BeatRead, Request
<1>3. ASSUME NEW q \in Requests, RegisterPut(q) \/ BeatPut(q)
      PROVE  TypeOK'
  <2>1. h[q].key \in Keys
    BY <1>3 DEF RegisterPut, BeatPut, Request, Idle
  <2> QED
    BY <1>3, <2>1 DEF RegisterPut, BeatPut, Stored, Record, Request, Overtaking
<1>4. ASSUME NEW q \in Requests, Abort(q)
      PROVE  TypeOK'
  BY <1>4 DEF Abort, Request
<1>5. CASE Tick
  BY <1>5 DEF Tick
<1>6. CASE UNCHANGED vars
  BY <1>6 DEF vars
<1> QED
  BY <1>1, <1>2, <1>3, <1>4, <1>5, <1>6 DEF Next

\* Every step keeps the times in order.
LEMMA StepTimeInv == TypeOK /\ TimeInv /\ [Next]_vars => TimeInv'
<1> SUFFICES ASSUME TypeOK, TimeInv, [Next]_vars
             PROVE  TimeInv'
  OBVIOUS
<1> USE RegistryAssumption DEF TypeOK, TimeInv
<1>1. ASSUME NEW q \in Requests, NEW signer \in Keys, NEW key \in Keys,
             RegisterRead(q, signer, key)
      PROVE  TimeInv'
  BY <1>1 DEF RegisterRead, Record
<1>2. ASSUME NEW q \in Requests, NEW signer \in Keys, BeatRead(q, signer)
      PROVE  TimeInv'
  BY <1>2 DEF BeatRead, Record
<1>3. ASSUME NEW q \in Requests, RegisterPut(q) \/ BeatPut(q)
      PROVE  TimeInv'
  BY <1>3 DEF RegisterPut, BeatPut, Stored
<1>4. ASSUME NEW q \in Requests, Abort(q)
      PROVE  TimeInv'
  BY <1>4 DEF Abort, Idle, Record
<1>5. CASE Tick
  BY <1>5 DEF Tick, Record
<1>6. CASE UNCHANGED vars
  BY <1>6 DEF vars
<1> QED
  BY <1>1, <1>2, <1>3, <1>4, <1>5, <1>6 DEF Next

\* Both invariants hold throughout.
LEMMA SpecInv == Spec => [](TypeOK /\ TimeInv)
<1>1. TypeOK /\ TimeInv /\ [Next]_vars => (TypeOK /\ TimeInv)'
  BY StepTypeOK, StepTimeInv
<1> QED
  BY InitInv, <1>1, PTL DEF Spec

\* Every reachable state is well typed: no request puts a record it has not read.
THEOREM RegistryTypeCorrect == Spec => []TypeOK
BY SpecInv, PTL

\* However requests overlap, a node seen within the staleness window is on file.
THEOREM SeenIsOnFileHolds == Spec => []SeenIsOnFile
<1>1. TypeOK /\ TimeInv => SeenIsOnFile
  BY RegistryAssumption DEF TypeOK, TimeInv, SeenIsOnFile, Present, Record
<1> QED
  BY <1>1, SpecInv, PTL

\* What a request has read stays true until its put or that of another.
LEMMA StepReadInv == TypeOK /\ ReadInv /\ [Next]_vars => ReadInv'
<1> SUFFICES ASSUME TypeOK, ReadInv, [Next]_vars, NEW r \in Requests
             PROVE  ReadOK(r)'
  BY DEF ReadInv
<1> USE DEF TypeOK, ReadInv, ReadOK
<1>1. ASSUME NEW q \in Requests, NEW signer \in Keys, NEW key \in Keys,
             RegisterRead(q, signer, key)
      PROVE  ReadOK(r)'
  BY <1>1 DEF RegisterRead, Verified, Present
<1>2. ASSUME NEW q \in Requests, NEW signer \in Keys, BeatRead(q, signer)
      PROVE  ReadOK(r)'
  BY <1>2 DEF BeatRead, Present
<1>3. ASSUME NEW q \in Requests, RegisterPut(q) \/ BeatPut(q)
      PROVE  ReadOK(r)'
  <2>1. h' = [h EXCEPT ![q] = Idle] /\ Overtaking(q)
    BY <1>3 DEF RegisterPut, BeatPut
  <2>2. CASE q = r
    BY <2>1, <2>2 DEF Idle
  <2>3. CASE q # r
    BY <2>1, <2>3 DEF Overtaking
  <2> QED
    BY <2>2, <2>3
<1>4. ASSUME NEW q \in Requests, Abort(q)
      PROVE  ReadOK(r)'
  BY <1>4 DEF Abort, Idle, Present
<1>5. CASE Tick
  BY <1>5, RegistryAssumption DEF Tick, Present, Record
<1>6. CASE UNCHANGED vars
  BY <1>6 DEF vars, Present
<1> QED
  BY <1>1, <1>2, <1>3, <1>4, <1>5, <1>6 DEF Next

\* Every request that no other put came before puts what it read.
LEMMA SpecReadInv == Spec => [](TypeOK /\ ReadInv)
<1>1. Init => ReadInv
  BY DEF Init, ReadInv, ReadOK, Idle
<1> QED
  BY <1>1, StepReadInv, RegistryTypeCorrect, PTL DEF Spec

\* A stored key gives way only to a register signed with it or to a request that
\* another put came before.
THEOREM OwnerOnlyHolds == Spec => OwnerOnly
<1>1. TypeOK /\ ReadInv /\ [Next]_vars
         => [Present /\ node'.key # node.key
                => \E q \in Requests : MayChangeKey(q)]_vars
  <2> SUFFICES ASSUME TypeOK, ReadInv, [Next]_vars, Present, node'.key # node.key
               PROVE  \E q \in Requests : MayChangeKey(q)
    OBVIOUS
  <2>1. PICK q \in Requests : RegisterPut(q) \/ BeatPut(q)
    BY DEF Next, vars, RegisterRead, BeatRead, Abort, Tick
  <2>2. ReadOK(q)
    BY DEF ReadInv
  <2>3. CASE RegisterPut(q)
    <3>1. h[q].pc = "register"
      BY <2>3 DEF RegisterPut
    <3> QED
      BY <2>2, <2>3, <3>1 DEF ReadOK, MayChangeKey
  <2>4. CASE BeatPut(q)
    <3>1. h[q].pc = "beat" /\ node'.key = h[q].key
      BY <2>4 DEF BeatPut, Stored
    <3> QED
      BY <2>2, <2>4, <3>1 DEF ReadOK, MayChangeKey
  <2> QED
    BY <2>1, <2>3, <2>4
<1> QED
  BY <1>1, SpecReadInv, PTL DEF Spec, OwnerOnly

-------------------------------------------------------------------------------
(***************************************************************************)
(* How far the overlap reaches: everything on file, and everything about   *)
(* to be, is entitled.                                                     *)
(***************************************************************************)

EntitledInv ==
    /\ Present => node.key \in entitled
    /\ \A q \in Requests : h[q].pc # "idle" => h[q].key \in entitled

\* A put leaves its own key and those in flight entitled; a read brings in no key but
\* by a claim on the free id or by the word of one that is in.
LEMMA StepEntitledInv == TypeOK /\ EntitledInv /\ [Next]_vars => EntitledInv'
<1> SUFFICES ASSUME TypeOK, EntitledInv, [Next]_vars
             PROVE  EntitledInv'
  OBVIOUS
<1> USE DEF TypeOK, EntitledInv
<1>1. ASSUME NEW q \in Requests, NEW signer \in Keys, NEW key \in Keys,
             RegisterRead(q, signer, key)
      PROVE  EntitledInv'
  <2>1. h' = [h EXCEPT ![q] = [pc |-> "register", signer |-> signer, key |-> key]]
        /\ entitled' = Entitled(signer, key) /\ UNCHANGED <<now, node>>
    BY <1>1 DEF RegisterRead
  <2>2. CASE Present
    <3>1. signer = node.key
      BY <1>1, <2>2 DEF RegisterRead, Verified
    <3>2. entitled' = entitled \cup {key}
      BY <2>1, <2>2, <3>1 DEF Entitled
    <3> QED
      BY <2>1, <2>2, <3>2 DEF Present
  <2>3. CASE ~Present
    <3>1. entitled' = {key} \cup InFlight(Requests) /\ ~Present'
      BY <2>1, <2>3 DEF Entitled, Present
    <3>2. \A r \in Requests : h[r].pc # "idle" => h[r].key \in InFlight(Requests)
      BY DEF InFlight
    <3> QED
      BY <2>1, <3>1, <3>2
  <2> QED
    BY <2>2, <2>3
<1>2. ASSUME NEW q \in Requests, NEW signer \in Keys, BeatRead(q, signer)
      PROVE  EntitledInv'
  BY <1>2 DEF BeatRead, Present
<1>3. ASSUME NEW q \in Requests, RegisterPut(q) \/ BeatPut(q)
      PROVE  EntitledInv'
  <2>1. /\ h[q].pc # "idle" /\ h' = [h EXCEPT ![q] = Idle]
        /\ node'.key = h[q].key /\ entitled' = entitled \cap InFlight(Requests)
    BY <1>3 DEF RegisterPut, BeatPut, Stored, Overtaking
  <2>2. \A r \in Requests : h[r].pc # "idle" => h[r].key \in entitled'
    BY <2>1 DEF InFlight
  <2> QED
    BY <2>1, <2>2 DEF Idle
<1>4. ASSUME NEW q \in Requests, Abort(q)
      PROVE  EntitledInv'
  BY <1>4 DEF Abort, Idle, Present
<1>5. CASE Tick
  BY <1>5, RegistryAssumption DEF Tick, Present, Record
<1>6. CASE UNCHANGED vars
  BY <1>6 DEF vars, Present
<1> QED
  BY <1>1, <1>2, <1>3, <1>4, <1>5, <1>6 DEF Next

\* However many requests overlap, no key is filed that did not claim the free id and was
\* not named by a key that was in; a replaced key is out once the requests that were in
\* flight at its replacement are over (logic.js handleRegister, handleHeartbeat).
THEOREM OutsidersStayOutHolds == Spec => []OutsidersStayOut
<1>1. Init => EntitledInv
  BY RegistryAssumption DEF Init, EntitledInv, Present, Idle
<1>2. EntitledInv => OutsidersStayOut
  BY DEF EntitledInv, OutsidersStayOut
<1> QED
  BY <1>1, <1>2, StepEntitledInv, RegistryTypeCorrect, PTL DEF Spec
===============================================================================
