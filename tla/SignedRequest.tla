----------------------------- MODULE SignedRequest -----------------------------
(***************************************************************************)
(* checkSignature and checkMemberSignature of coordinator/src/logic.js,    *)
(* for the deliveries of one signed request: the same bytes, timestamp and *)
(* nonce arrive once or more often, and other requests arrive under the    *)
(* same nonce whose signature does not verify.  The two functions differ   *)
(* in header names and in the namespace of their nonces only.              *)
(*                                                                         *)
(* Abstractions.  A signature verifies or does not.  The store is read     *)
(* where it is written.  Requests with headers missing or malformed are    *)
(* refused before anything here happens.                                   *)
(***************************************************************************)
EXTENDS Integers

CONSTANTS
    Deliveries,  \* arrivals of a request under the nonce
    Genuine,     \* those whose signature verifies
    Scale,       \* units of the clock in a second of the timestamp
    Skew,        \* MAX_SKEW_S
    NonceTTL,    \* NONCE_TTL_S
    Stamp,       \* the timestamp header
    MaxClock     \* bound on the clock, for the checker only

ASSUME RequestAssumption ==
    /\ Genuine \subseteq Deliveries
    /\ Scale \in Nat \ {0} /\ Skew \in Nat /\ NonceTTL \in Nat \ {0}
    /\ Stamp \in Nat /\ MaxClock \in Nat

VARIABLES
    clock,  \* env.now()
    until,  \* when the nonce is gone from the store, 0 before it was put
    at,     \* at[d], how far delivery d has come
    read,   \* read[d], the clock its timestamp was compared with
    put     \* put[d], when it put the nonce

vars == <<clock, until, at, read, put>>

InFlight == {d \in Deliveries : at[d] \in {"verified", "fresh"}}

TypeOK ==
    /\ clock \in 0..MaxClock
    /\ until \in 0..(MaxClock + NonceTTL * Scale)
    /\ at \in [Deliveries -> {"away", "verified", "fresh", "accepted",
                              "outside", "unsigned", "replay", "aborted"}]
    /\ read \in [Deliveries -> 0..MaxClock]
    /\ put \in [Deliveries -> 0..MaxClock]

Init ==
    /\ clock = 0
    /\ until = 0
    /\ at = [d \in Deliveries |-> "away"]
    /\ read = [d \in Deliveries |-> 0]
    /\ put = [d \in Deliveries |-> 0]
-------------------------------------------------------------------------------
\* Mutated form: a timestamp of the future always passes.
NotOld(t) == (t \div Scale) - Stamp <= Skew

\* The clock in whole seconds is compared with the timestamp.
InWindow(t) ==
    /\ (t \div Scale) - Stamp <= Skew
    /\ Stamp - (t \div Scale) <= Skew

\* Mutated form: a signature that fails leaves its nonce in the store.
ArriveStoring(d) ==
    /\ at[d] = "away"
    /\ read' = [read EXCEPT ![d] = clock]
    /\ at' = [at EXCEPT ![d] = CASE ~InWindow(clock) -> "outside"
                                 [] InWindow(clock) /\ d \notin Genuine -> "unsigned"
                                 [] OTHER -> "verified"]
    /\ until' = IF at'[d] = "unsigned" THEN clock + NonceTTL * Scale ELSE until
    /\ UNCHANGED <<clock, put>>

\* Timestamp, then signature; nothing is stored for a request that fails.
Arrive(d) ==
    /\ at[d] = "away"
    /\ read' = [read EXCEPT ![d] = clock]
    /\ at' = [at EXCEPT ![d] = CASE ~InWindow(clock) -> "outside"
                                 [] InWindow(clock) /\ d \notin Genuine -> "unsigned"
                                 [] OTHER -> "verified"]
    /\ UNCHANGED <<clock, until, put>>

\* get of the nonce, once the verifier has answered.
Look(d) ==
    /\ at[d] = "verified"
    /\ at' = [at EXCEPT ![d] = IF clock < until THEN "replay" ELSE "fresh"]
    /\ UNCHANGED <<clock, until, read, put>>

\* Mutated form: the nonce is kept for the skew alone.
KeepForSkew(d) ==
    /\ at[d] = "fresh"
    /\ at' = [at EXCEPT ![d] = "accepted"]
    /\ until' = clock + Skew * Scale
    /\ put' = [put EXCEPT ![d] = clock]
    /\ UNCHANGED <<clock, read>>

\* put of the nonce; the request goes on to its handler.
Keep(d) ==
    /\ at[d] = "fresh"
    /\ at' = [at EXCEPT ![d] = "accepted"]
    /\ until' = clock + NonceTTL * Scale
    /\ put' = [put EXCEPT ![d] = clock]
    /\ UNCHANGED <<clock, read>>

\* The invocation ends early.
Abort(d) ==
    /\ d \in InFlight
    /\ at' = [at EXCEPT ![d] = "aborted"]
    /\ UNCHANGED <<clock, until, read, put>>

Tick ==
    /\ clock < MaxClock
    /\ clock' = clock + 1
    /\ UNCHANGED <<until, at, read, put>>

Next ==
    \/ \E d \in Deliveries : Arrive(d) \/ Look(d) \/ Keep(d) \/ Abort(d)
    \/ Tick

Spec == Init /\ [][Next]_vars
-------------------------------------------------------------------------------
Accepted == {d \in Deliveries : at[d] = "accepted"}

\* However many requests are handled at once and however slowly, two acceptances
\* of one request compared its timestamp with clocks less than twice the skew and
\* one second apart ("hard bound on signature reuse", logic.js:20).
ReuseBounded ==
    \A d, e \in Accepted : read[d] - read[e] < (2 * Skew + 1) * Scale

\* A request is refused as a replay only after a delivery of it was accepted:
\* arrivals that do not verify never use the nonce up (logic.js:225-227).
NoFalseReplay ==
    \A d \in Deliveries : at[d] = "replay" => Accepted # {}

\* A delivery that arrives after another was accepted is itself accepted only
\* when the nonce has been kept for its time: reuse within that time takes two
\* handlers that overlap.  The window is open for longer than that time, which
\* coordinator/README.md:93-94 ("a nonce already seen inside that window is
\* rejected") does not say.
AcceptsAreApart ==
    \A d, e \in Accepted : read[e] > put[d] => put[e] >= put[d] + NonceTTL * Scale

\* No four acceptances follow each other, each of a delivery that arrived when the
\* one before was through: the window closes while nonces are kept.
AtMostThreeInTurn ==
    \A d, e, f, g \in Accepted :
        ~(read[e] > put[d] /\ read[f] > put[e] /\ read[g] > put[f])
===============================================================================
