------------------------- MODULE SignedRequestProofs -------------------------
(***************************************************************************)
(* What window and nonce promise for any number of deliveries of a request *)
(* and any skew, nonce time and resolution of the clock.                   *)
(***************************************************************************)
EXTENDS SignedRequest, TLAPS

\* Who was let through the window, and what the store knows of who was accepted.
DeliveryOK(d) ==
    /\ at[d] \in {"verified", "fresh", "accepted"} => InWindow(read[d]) /\ d \in Genuine
    /\ at[d] = "accepted" => put[d] <= clock /\ put[d] + NonceTTL * Scale <= until
    /\ at[d] = "replay" => until # 0

IInv ==
    /\ TypeOK
    /\ \A d \in Deliveries : DeliveryOK(d)
    /\ until # 0 => Accepted # {}

\* Whoever arrived after an acceptance and found no nonce was late enough, and
\* puts it no earlier.
ApartInv ==
    /\ \A d \in Deliveries : read[d] <= clock
    /\ \A d \in Accepted : read[d] <= put[d]
    /\ \A d \in Accepted, e \in Deliveries :
          at[e] = "fresh" /\ read[e] > put[d] => put[d] + NonceTTL * Scale <= clock
    /\ AcceptsAreApart

\* A clock within the window lies in the seconds around the timestamp.
LEMMA WindowBounds ==
  ASSUME NEW t \in Nat, InWindow(t)
  PROVE  (Stamp - Skew) * Scale <= t /\ t < (Stamp + Skew + 1) * Scale
<1> DEFINE q == t \div Scale
<1>1. q \in Nat /\ Scale * q <= t /\ t < Scale * (q + 1)
  BY RequestAssumption
<1>2. q - Stamp <= Skew /\ Stamp - q <= Skew
  BY DEF InWindow
<1> HIDE DEF q
<1>3. Stamp - Skew \in Int /\ Stamp - Skew <= q /\ q + 1 <= Stamp + Skew + 1
  BY <1>1, <1>2, RequestAssumption
<1>4. (Stamp - Skew) * Scale <= Scale * q /\ Scale * (q + 1) <= (Stamp + Skew + 1) * Scale
  BY <1>1, <1>3, RequestAssumption
<1> QED
  BY <1>1, <1>3, <1>4, RequestAssumption

\* A nonce is kept for a positive time.
LEMMA KeptTime == NonceTTL * Scale \in Nat /\ NonceTTL * Scale > 0
BY RequestAssumption

LEMMA InitIInv == Init => IInv
BY RequestAssumption, KeptTime DEF Init, IInv, TypeOK, DeliveryOK

\* Every step keeps the invariant.
LEMMA StepIInv == IInv /\ [Next]_vars => IInv'
<1> SUFFICES ASSUME IInv, [Next]_vars
             PROVE  IInv'
  OBVIOUS
<1>0. /\ clock \in Nat /\ until \in Nat /\ MaxClock \in Nat
      /\ NonceTTL * Scale \in Nat /\ NonceTTL * Scale > 0
  BY RequestAssumption, KeptTime DEF IInv, TypeOK
<1>1. ASSUME NEW d \in Deliveries, Arrive(d)
      PROVE  IInv'
  <2>1. TypeOK'
    BY <1>1 DEF Arrive, IInv, TypeOK
  <2>2. \A e \in Deliveries : DeliveryOK(e)'
    BY <1>1 DEF Arrive, IInv, TypeOK, DeliveryOK
  <2>3. (until # 0 => Accepted # {})'
    BY <1>1 DEF Arrive, IInv, TypeOK, Accepted
  <2> QED
    BY <2>1, <2>2, <2>3 DEF IInv
<1>2. ASSUME NEW d \in Deliveries, Look(d)
      PROVE  IInv'
  <2>1. TypeOK'
    BY <1>2 DEF Look, IInv, TypeOK
  <2>2. \A e \in Deliveries : DeliveryOK(e)'
    BY <1>0, <1>2 DEF Look, IInv, TypeOK, DeliveryOK
  <2>3. (until # 0 => Accepted # {})'
    BY <1>2 DEF Look, IInv, TypeOK, Accepted
  <2> QED
    BY <2>1, <2>2, <2>3 DEF IInv
<1>3. ASSUME NEW d \in Deliveries, Keep(d)
      PROVE  IInv'
  <2> DEFINE ttl == NonceTTL * Scale
  <2>0. ttl \in Nat /\ ttl > 0 /\ clock \in 0..MaxClock /\ until' = clock + ttl
        /\ clock' = clock
    BY <1>0, <1>3 DEF Keep, IInv, TypeOK
  <2> HIDE DEF ttl
  <2>1. TypeOK'
    <3>1. until' \in 0..(MaxClock + NonceTTL * Scale)
      BY <1>0, <2>0 DEF ttl
    <3> QED
      BY <1>3, <3>1 DEF Keep, IInv, TypeOK
  <2>2. ASSUME NEW e \in Deliveries
        PROVE  DeliveryOK(e)'
    <3>1. at'[e] = "accepted" => put'[e] \in Nat /\ put'[e] <= clock
      BY <1>3, <1>0 DEF Keep, IInv, TypeOK, DeliveryOK
    <3>2. at'[e] = "accepted" => put'[e] + ttl <= until'
      BY <2>0, <3>1
    <3>3. at'[e] \in {"verified", "fresh", "accepted"} => InWindow(read'[e]) /\ e \in Genuine
      BY <1>3 DEF Keep, IInv, TypeOK, DeliveryOK
    <3>4. at'[e] = "replay" => until' # 0
      BY <1>0, <2>0
    <3> QED
      BY <2>0, <3>1, <3>2, <3>3, <3>4 DEF DeliveryOK, ttl
  <2>3. (until # 0 => Accepted # {})'
    BY <1>3 DEF Keep, IInv, TypeOK, Accepted
  <2> QED
    BY <2>1, <2>2, <2>3 DEF IInv
<1>4. ASSUME NEW d \in Deliveries, Abort(d)
      PROVE  IInv'
  <2>1. TypeOK'
    BY <1>4 DEF Abort, IInv, TypeOK
  <2>2. \A e \in Deliveries : DeliveryOK(e)'
    BY <1>4 DEF Abort, IInv, TypeOK, DeliveryOK
  <2>3. (until # 0 => Accepted # {})'
    BY <1>4 DEF Abort, InFlight, IInv, TypeOK, Accepted
  <2> QED
    BY <2>1, <2>2, <2>3 DEF IInv
<1>5. CASE Tick
  <2>1. TypeOK'
    BY <1>0, <1>5 DEF Tick, IInv, TypeOK
  <2>2. ASSUME NEW e \in Deliveries
        PROVE  DeliveryOK(e)'
    <3>1. put[e] \in Nat /\ clock' = clock + 1 /\ UNCHANGED <<until, at, read, put>>
      BY <1>5 DEF Tick, IInv, TypeOK
    <3> QED
      BY <1>0, <3>1 DEF IInv, DeliveryOK
  <2>3. (until # 0 => Accepted # {})'
    BY <1>5 DEF Tick, IInv, Accepted
  <2> QED
    BY <2>1, <2>2, <2>3 DEF IInv
<1>6. CASE UNCHANGED vars
  BY <1>6 DEF vars, IInv, TypeOK, DeliveryOK, Accepted
<1> QED
  BY <1>1, <1>2, <1>3, <1>4, <1>5, <1>6 DEF Next

\* Every step keeps acceptances apart whose handlers do not overlap.
LEMMA StepApartInv == IInv /\ ApartInv /\ [Next]_vars => ApartInv'
<1> SUFFICES ASSUME IInv, ApartInv, [Next]_vars
             PROVE  ApartInv'
  OBVIOUS
<1> DEFINE ttl == NonceTTL * Scale
<1>0. /\ clock \in Nat /\ until \in Nat /\ ttl \in Nat
      /\ \A d \in Deliveries : read[d] \in Nat /\ put[d] \in Nat /\ read[d] <= clock
      /\ \A d \in Accepted : d \in Deliveries /\ put[d] <= clock /\ put[d] + ttl <= until
  BY RequestAssumption, KeptTime DEF IInv, TypeOK, DeliveryOK, ApartInv, Accepted
<1> HIDE DEF ttl
<1>a. /\ \A d \in Accepted, e \in Deliveries :
            at[e] = "fresh" /\ read[e] > put[d] => put[d] + ttl <= clock
      /\ \A d, e \in Accepted : read[e] > put[d] => put[e] >= put[d] + ttl
      /\ \A d \in Accepted : read[d] <= put[d]
  BY DEF ApartInv, AcceptsAreApart, ttl
<1>1. ASSUME NEW c \in Deliveries, Arrive(c)
      PROVE  ApartInv'
  <2>1. /\ Accepted' = Accepted /\ c \notin Accepted /\ UNCHANGED <<clock, put>>
        /\ \A e \in Deliveries : e # c => at'[e] = at[e] /\ read'[e] = read[e]
        /\ read'[c] = clock /\ at'[c] # "fresh"
    BY <1>1 DEF Arrive, Accepted, IInv, TypeOK
  <2> QED
    BY <1>0, <1>a, <2>1 DEF ApartInv, AcceptsAreApart, ttl
<1>2. ASSUME NEW c \in Deliveries, Look(c)
      PROVE  ApartInv'
  <2>1. /\ Accepted' = Accepted /\ UNCHANGED <<clock, read, put>>
        /\ \A e \in Deliveries : e # c => at'[e] = at[e]
        /\ at'[c] = "fresh" => until <= clock
    BY <1>0, <1>2 DEF Look, Accepted, IInv, TypeOK
  <2>2. \A d \in Accepted, e \in Deliveries :
           at'[e] = "fresh" /\ read[e] > put[d] => put[d] + ttl <= clock
    BY <1>0, <1>a, <2>1
  <2> QED
    BY <1>0, <1>a, <2>1, <2>2 DEF ApartInv, AcceptsAreApart, ttl
<1>3. ASSUME NEW c \in Deliveries, Keep(c)
      PROVE  ApartInv'
  <2>1. /\ Accepted' = Accepted \cup {c} /\ c \notin Accepted /\ at[c] = "fresh"
        /\ \A e \in Deliveries : e # c => at'[e] = at[e] /\ put'[e] = put[e]
        /\ at'[c] # "fresh" /\ put'[c] = clock /\ UNCHANGED <<clock, read>>
    BY <1>3 DEF Keep, Accepted, IInv, TypeOK
  <2>2. \A d \in Accepted', e \in Deliveries :
           at'[e] = "fresh" /\ read[e] > put'[d] => put'[d] + ttl <= clock
    BY <1>0, <1>a, <2>1
  <2>3. \A d, e \in Accepted' : read[e] > put'[d] => put'[e] >= put'[d] + ttl
    BY <1>0, <1>a, <2>1
  <2> QED
    BY <1>0, <2>1, <2>2, <2>3 DEF ApartInv, AcceptsAreApart, ttl
<1>4. ASSUME NEW c \in Deliveries, Abort(c)
      PROVE  ApartInv'
  <2>1. /\ Accepted' = Accepted /\ UNCHANGED <<clock, read, put>>
        /\ \A e \in Deliveries : at'[e] = "fresh" => at[e] = "fresh"
    BY <1>4 DEF Abort, InFlight, Accepted, IInv, TypeOK
  <2> QED
    BY <1>0, <1>a, <2>1 DEF ApartInv, AcceptsAreApart, ttl
<1>5. CASE Tick
  <2>1. Accepted' = Accepted /\ clock' = clock + 1 /\ UNCHANGED <<at, read, put>>
    BY <1>5 DEF Tick, Accepted
  <2> QED
    BY <1>0, <1>a, <2>1 DEF ApartInv, AcceptsAreApart, ttl
<1>6. CASE UNCHANGED vars
  BY <1>6 DEF vars, ApartInv, AcceptsAreApart, Accepted
<1> QED
  BY <1>1, <1>2, <1>3, <1>4, <1>5, <1>6 DEF Next

\* Every reachable state is well typed.
THEOREM RequestTypeCorrect == Spec => []TypeOK
<1>1. IInv => TypeOK
  BY DEF IInv
<1> QED
  BY <1>1, InitIInv, StepIInv, PTL DEF Spec

\* Acceptances of one request compared its timestamp with clocks less than twice
\* the skew and one second apart, however many handlers overlap.
THEOREM ReuseBoundedHolds == Spec => []ReuseBounded
<1>1. ASSUME IInv
      PROVE  ReuseBounded
  <2> SUFFICES ASSUME NEW d \in Accepted, NEW e \in Accepted
               PROVE  read[d] - read[e] < (2 * Skew + 1) * Scale
    BY DEF ReuseBounded
  <2>1. read[d] \in Nat /\ read[e] \in Nat /\ InWindow(read[d]) /\ InWindow(read[e])
    BY <1>1 DEF IInv, TypeOK, DeliveryOK, Accepted
  <2> DEFINE lo == (Stamp - Skew) * Scale
             hi == (Stamp + Skew + 1) * Scale
  <2>2. read[d] < hi /\ lo <= read[e]
    BY <2>1, WindowBounds
  <2>3. hi - lo = (2 * Skew + 1) * Scale /\ lo \in Int /\ hi \in Int
    BY RequestAssumption
  <2> HIDE DEF lo, hi
  <2> QED
    BY <2>1, <2>2, <2>3
<1> QED
  BY <1>1, InitIInv, StepIInv, PTL DEF Spec

\* A request is refused as a replay only after a delivery of it was accepted.
THEOREM NoFalseReplayHolds == Spec => []NoFalseReplay
<1>1. IInv => NoFalseReplay
  BY DEF IInv, DeliveryOK, NoFalseReplay
<1> QED
  BY <1>1, InitIInv, StepIInv, PTL DEF Spec

\* A request that arrives after an acceptance is not accepted again while its
\* nonce is kept, for any number of deliveries and overlaps.
THEOREM AcceptsAreApartHolds == Spec => []AcceptsAreApart
<1>1. Init => ApartInv
  BY DEF Init, ApartInv, AcceptsAreApart, Accepted
<1>2. ApartInv => AcceptsAreApart
  BY DEF ApartInv
<1> QED
  BY <1>1, <1>2, InitIInv, StepIInv, StepApartInv, PTL DEF Spec

\* A nonce kept for more than half the window, as the 600 s of NONCE_TTL_S are for
\* the 601 s in which MAX_SKEW_S lets a timestamp pass, leaves room for three
\* acceptances of a request one after another and for no fourth.
THEOREM AtMostThreeInTurnHolds ==
    ASSUME 2 * NonceTTL >= 2 * Skew + 1
    PROVE  Spec => []AtMostThreeInTurn
<1>1. ASSUME IInv, ApartInv, NEW d \in Accepted, NEW e \in Accepted, NEW f \in Accepted,
             NEW g \in Accepted, read[e] > put[d], read[f] > put[e], read[g] > put[f]
      PROVE  FALSE
  <2> DEFINE ttl == NonceTTL * Scale
             lo == (Stamp - Skew) * Scale
             hi == (Stamp + Skew + 1) * Scale
  <2>1. /\ read[d] \in Nat /\ read[g] \in Nat
        /\ put[d] \in Nat /\ put[e] \in Nat /\ put[f] \in Nat
        /\ InWindow(read[d]) /\ InWindow(read[g])
    BY <1>1 DEF IInv, TypeOK, DeliveryOK, Accepted
  <2>2. lo <= read[d] /\ read[g] < hi
    BY <2>1, WindowBounds
  <2>3. read[d] <= put[d] /\ put[e] >= put[d] + ttl /\ put[f] >= put[e] + ttl
    BY <1>1 DEF ApartInv, AcceptsAreApart
  <2>4. ttl \in Nat /\ lo \in Int /\ hi \in Int
    BY RequestAssumption, KeptTime
  <2>5. hi - lo <= 2 * ttl
    <3>1. hi - lo = (2 * Skew + 1) * Scale /\ 2 * ttl = (2 * NonceTTL) * Scale
      BY RequestAssumption
    <3>2. (2 * Skew + 1) * Scale <= (2 * NonceTTL) * Scale
      BY RequestAssumption
    <3> QED
      BY <3>1, <3>2
  <2> HIDE DEF ttl, lo, hi
  <2>6. read[g] > read[d] + 2 * ttl
    BY <1>1, <2>1, <2>3, <2>4
  <2> QED
    BY <2>1, <2>2, <2>4, <2>5, <2>6
<1>2. IInv /\ ApartInv => AtMostThreeInTurn
  BY <1>1 DEF AtMostThreeInTurn
<1>3. Init => ApartInv
  BY DEF Init, ApartInv, AcceptsAreApart, Accepted
<1> QED
  BY <1>2, <1>3, InitIInv, StepIInv, StepApartInv, PTL DEF Spec
===============================================================================
