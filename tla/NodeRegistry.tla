----------------------------- MODULE NodeRegistry -----------------------------
(***************************************************************************)
(* One node id in the worker coordinator's registry (coordinator/src/      *)
(* logic.js): register and heartbeat, each a get of the record, the check  *)
(* of the signature against it, and a put of the whole record later on.    *)
(*                                                                         *)
(* Abstractions.  A key stands for the two public keys a register carries  *)
(* and for whoever holds their private halves.  A refused request changes  *)
(* nothing and has no action; watts and the neighborhood ride along.  The  *)
(* clock counts a unit in which the staleness window and the ttl are whole.*)
(***************************************************************************)
EXTENDS Integers

CONSTANTS
    Keys,       \* the keys of members that use this node id
    NoKey,      \* no record
    Requests,   \* requests that may be in flight at once
    Stale,      \* STALE_MS
    Ttl,        \* NODE_TTL_S
    MaxClock    \* bound on the clock, for the checker only

ASSUME RegistryAssumption ==
    /\ NoKey \notin Keys
    /\ {Stale, Ttl} \subseteq Nat /\ Stale < Ttl
    /\ MaxClock \in Nat

VARIABLES
    now,
    node,     \* the record under node:<node_id>, gone at .until
    h,        \* h[q], what request q has read and is about to put
    overtaken, \* history: requests in flight that read before the last put
    entitled   \* history: the keys that the record may be filed under

vars == <<now, node, h, overtaken, entitled>>

Record == [key : Keys \cup {NoKey}, seen : Nat, until : Nat]

Idle == [pc |-> "idle", signer |-> NoKey, key |-> NoKey]

\* signer: the key the request was signed with; key: the one it will put
Request == {Idle} \cup [pc : {"register", "beat"}, signer : Keys, key : Keys]

TypeOK ==
    /\ now \in Nat
    /\ node \in Record
    /\ h \in [Requests -> Request]
    /\ overtaken \subseteq Requests
    /\ entitled \subseteq Keys

Init ==
    /\ now = 0
    /\ node = [key |-> NoKey, seen |-> 0, until |-> 0]
    /\ h = [q \in Requests |-> Idle]
    /\ overtaken = {}
    /\ entitled = {}

Present == now < node.until

\* What the requests R are about to put.
InFlight(R) == {h[r].key : r \in {q \in R : h[q].pc # "idle"}}
-------------------------------------------------------------------------------
\* Mutated form: the key in the body is the one that counts.
VerifiedByBody(signer, key) == signer = key

\* The key the signature is checked against: the stored one, if there is one.
Verified(signer, key) == signer = IF Present THEN node.key ELSE key

\* A key comes in by claiming a free id, and those in flight may have claimed it too, or
\* by the word of one that is in.
Entitled(signer, key) ==
    IF ~Present THEN {key} \cup InFlight(Requests)
    ELSE IF signer \in entitled THEN entitled \cup {key}
    ELSE entitled

RegisterRead(q, signer, key) ==
    /\ h[q].pc = "idle"
    /\ Verified(signer, key)
    /\ h' = [h EXCEPT ![q] = [pc |-> "register", signer |-> signer, key |-> key]]
    /\ entitled' = Entitled(signer, key)
    /\ UNCHANGED <<now, node, overtaken>>

\* Mutated form: a beat files the record under the key of its sender.
BeatReadUnchecked(q, signer) ==
    /\ h[q].pc = "idle"
    /\ Present
    /\ h' = [h EXCEPT ![q] = [pc |-> "beat", signer |-> signer, key |-> signer]]
    /\ UNCHANGED <<now, node, overtaken, entitled>>

BeatRead(q, signer) ==
    /\ h[q].pc = "idle"
    /\ Present /\ node.key = signer
    /\ h' = [h EXCEPT ![q] = [pc |-> "beat", signer |-> signer, key |-> node.key]]
    /\ UNCHANGED <<now, node, overtaken, entitled>>

\* Mutated form: only a register pushes the expiry out.
StoredOnce(r) ==
    [key |-> r.key, seen |-> now, until |-> IF r.pc = "beat" THEN node.until ELSE now + Ttl]

\* last_seen is the clock at the put, after the signature and the nonce.
Stored(r) == [key |-> r.key, seen |-> now, until |-> now + Ttl]

\* Every other request in flight now holds an older record than the one on file, and
\* their keys and the one just put are all there is.
Overtaking(q) ==
    /\ overtaken' = {r \in Requests \ {q} : h[r].pc # "idle"}
    /\ entitled' = entitled \cap InFlight(Requests)

RegisterPut(q) ==
    /\ h[q].pc = "register"
    /\ node' = Stored(h[q])
    /\ h' = [h EXCEPT ![q] = Idle]
    /\ Overtaking(q)
    /\ UNCHANGED now

BeatPut(q) ==
    /\ h[q].pc = "beat"
    /\ node' = Stored(h[q])
    /\ h' = [h EXCEPT ![q] = Idle]
    /\ Overtaking(q)
    /\ UNCHANGED now

\* A store operation throws or the isolate goes before the put.
Abort(q) ==
    /\ h[q].pc # "idle"
    /\ h' = [h EXCEPT ![q] = Idle]
    /\ overtaken' = overtaken \ {q}
    /\ UNCHANGED <<now, node, entitled>>

Tick ==
    /\ now < MaxClock
    /\ now' = now + 1
    /\ UNCHANGED <<node, h, overtaken, entitled>>

Next ==
    \/ \E q \in Requests :
          \/ \E signer, key \in Keys : RegisterRead(q, signer, key)
          \/ \E signer \in Keys : BeatRead(q, signer)
          \/ RegisterPut(q) \/ BeatPut(q) \/ Abort(q)
    \/ Tick

Spec == Init /\ [][Next]_vars
-------------------------------------------------------------------------------
(* What the registry promises its members. *)

\* A stored key gives way only to a register signed with it, or to a request that
\* read before another put.  The exception is what the lack of compare-and-swap
\* takes from "nobody can overwrite another member's pubkey" (coordinator/src/
\* logic.js:486).
MayChangeKey(q) ==
    /\ RegisterPut(q) \/ BeatPut(q)
    /\ \/ h[q].pc = "register" /\ h[q].signer = node.key
       \/ q \in overtaken

OwnerOnly ==
    [][Present /\ node'.key # node.key => \E q \in Requests : MayChangeKey(q)]_vars

\* How far the overlap reaches.  A put overwrites whatever came between, so an old key
\* can come back after a rotation, but only through a request that was in flight when
\* the new one was put; once those are over it is out, unless a key that is in names it.
\* An outsider's key, in no claim on the free id, is never filed, whatever overlaps.
OutsidersStayOut == Present => node.key \in entitled

\* A record lapses only when its node has not counted as alive for long: whoever
\* was seen within the staleness window is still on file, whatever interleaves.
SeenIsOnFile ==
    node.key # NoKey /\ now - node.seen <= Stale => Present
===============================================================================
