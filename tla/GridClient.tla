------------------------------ MODULE GridClient ------------------------------
(***************************************************************************)
(* A process using pygrid/client.py against the test kit's coordinator and *)
(* the nodes behind it: which node a submit picks, the reply keypair each  *)
(* submit makes and the client keeps, retries under a key, the job file    *)
(* that hands a keypair to a later process, and what result makes of the   *)
(* answer and its receipt.                                                 *)
(*                                                                         *)
(* Abstractions.  A reply keypair is the number of the submit that made    *)
(* it.  Which alive node is cheapest is left open, since nodes advertise   *)
(* what they like, and a caller may name any: a submit may pick any node   *)
(* registered.  Listing the nodes is one step (NodeListing is where it is  *)
(* not); the one before a pick is there, the one for a receipt may fail.   *)
(* Polling is not a step: a result is looked at once it is there, and a    *)
(* deadline that passes before changes nothing.                            *)
(***************************************************************************)
EXTENDS MockCoordinator

CONSTANTS
    MaxCalls,      \* bound on submits
    MaxGeneration  \* bound on the keyfiles a node is set up with

ASSUME ClientAssumption == MaxCalls \in Nat /\ MaxGeneration \in Nat \ {0}

VARIABLES
    calls,    \* submits begun so far
    asked,    \* asked[c], what submit c picked and sealed to
    pc,       \* "idle", or "post" when submit number calls has picked its node
    late,     \* submits given up by the client that may yet be served
    told,     \* told[c], the job id submit c returned
    born,     \* calls at the start of this process
    keys,     \* _reply_keys: keys[j], 0 for none
    file,     \* file[j], the reply keypair in the job file of j, 0 for none
    outcome   \* outcome[j], what result_with_receipt last returned or raised for j

client == <<calls, asked, pc, late, told, born, keys, file, outcome>>
vars == <<mock, client>>

Calls == 1..MaxCalls
Ask == [node : Nodes \cup {NoNode}, key : Keys \cup {NoKey}, sealed : 0..MaxGeneration]
NoAsk == [node |-> NoNode, key |-> NoKey, sealed |-> 0]

\* All but the last two come with the text.  Of what verify_receipt said the caller is
\* told True for "verified" and False for "refuted", "unlisted" and "bare" alike.
Outcomes == {"none", "verified", "refuted", "unlisted", "bare", "unreadable", "failed"}

TypeOK ==
    /\ MockTypeOK
    /\ nodes \in [Nodes -> 0..MaxGeneration]
    /\ calls \in 0..MaxCalls
    /\ asked \in [Calls -> Ask]
    /\ pc \in {"idle", "post"}
    /\ late \subseteq Calls
    /\ told \in [Calls -> Jobs \cup {NoJob}]
    /\ born \in 0..MaxCalls
    /\ keys \in [Jobs -> 0..MaxCalls]
    /\ file \in [Jobs -> 0..MaxCalls]
    /\ outcome \in [Jobs -> Outcomes]

Init ==
    /\ MockInit
    /\ calls = 0
    /\ asked = [c \in Calls |-> NoAsk]
    /\ pc = "idle"
    /\ late = {}
    /\ told = [c \in Calls |-> NoJob]
    /\ born = 0
    /\ keys = [j \in Jobs |-> 0]
    /\ file = [j \in Jobs |-> 0]
    /\ outcome = [j \in Jobs |-> "none"]
-------------------------------------------------------------------------------
(* submit. *)

\* The node is named or picked, and the job sealed to the key on its record.
Pick(n, x) ==
    /\ pc = "idle" /\ calls < MaxCalls
    /\ Registered(n)
    /\ pc' = "post"
    /\ calls' = calls + 1
    /\ asked' = [asked EXCEPT ![calls'] =
                   [node |-> n, key |-> x, sealed |-> nodes[n]]]
    /\ UNCHANGED <<mock, late, told, born, keys, file, outcome>>

\* POST /v1/jobs of submit c is served, and the answer names j.
Serve(c, j) == CreateJob(asked[c].node, asked[c].key, asked[c].sealed, c, j)

\* Mutated form: the keypair of the latest submit is kept.
Replaced(j, c) == [keys EXCEPT ![j] = c]

\* setdefault: the first keypair kept for a job stays.
Kept(j, c) == IF keys[j] = 0 THEN [keys EXCEPT ![j] = c] ELSE keys

Post(j) ==
    /\ pc = "post" /\ pc' = "idle"
    /\ Serve(calls, j)
    /\ told' = [told EXCEPT ![calls] = j]
    /\ keys' = Kept(j, calls)
    /\ UNCHANGED <<calls, asked, late, born, file, outcome>>

\* 404 or 429: submit raises.
PostRefused ==
    /\ pc = "post" /\ pc' = "idle"
    /\ Refused(asked[calls].node, asked[calls].key)
    /\ UNCHANGED <<mock, calls, asked, late, told, born, keys, file, outcome>>

\* The answer is lost, or not waited for: submit raises, and its keypair is gone.
\* What was asked may have been served, may be later, or never is.
PostLost ==
    /\ pc = "post" /\ pc' = "idle"
    /\ late' = late \cup {calls}
    /\ UNCHANGED <<mock, calls, asked, told, born, keys, file, outcome>>

LatePost(c, j) ==
    /\ c \in late
    /\ late' = late \ {c}
    /\ Serve(c, j)
    /\ UNCHANGED <<calls, asked, pc, told, born, keys, file, outcome>>
-------------------------------------------------------------------------------
(* The process and its job file. *)

\* The submit command writes the keypair of the job it was told.
WriteJobFile(j) ==
    /\ pc = "idle" /\ keys[j] # 0
    /\ file' = [file EXCEPT ![j] = keys[j]]
    /\ UNCHANGED <<mock, calls, asked, pc, late, told, born, keys, outcome>>

\* The process ends, perhaps with a submit in flight, and another begins.
NextProcess ==
    /\ born' = calls
    /\ keys' = [j \in Jobs |-> 0]
    /\ late' = IF pc = "post" THEN late \cup {calls} ELSE late
    /\ pc' = "idle"
    /\ UNCHANGED <<mock, calls, asked, told, file, outcome>>

\* The result command: adopt_reply_key.
Adopt(j) ==
    /\ pc = "idle" /\ file[j] # 0
    /\ keys' = [keys EXCEPT ![j] = file[j]]
    /\ UNCHANGED <<mock, calls, asked, pc, late, told, born, file, outcome>>
-------------------------------------------------------------------------------
(* result_with_receipt. *)

\* The result is sealed to the reply_pubkey of the record.
Opens(j) == keys[j] = jobs[j].reply

\* Mutated form: against the node of the latest submit.
SignedByLastPick(j) == nodes[asked[calls].node] = jobs[j].receipt

\* Against the verify key that the node's record has by now.
SignedByRecord(j) == nodes[jobs[j].to] = jobs[j].receipt

\* verify_receipt.  A listing that raises, times out or lacks the node is False, as a
\* wrong signature is.
Verdict(j, listed) ==
    CASE jobs[j].receipt = 0 -> "bare"
      [] jobs[j].receipt # 0 /\ ~listed -> "unlisted"
      [] jobs[j].receipt # 0 /\ listed /\ SignedByRecord(j) -> "verified"
      [] jobs[j].receipt # 0 /\ listed /\ ~SignedByRecord(j) -> "refuted"

\* listed: GET /v1/nodes was answered, and the node of the receipt is in it.
ResultWithReceipt(j, listed) ==
    /\ pc = "idle" /\ keys[j] # 0
    /\ jobs[j].status \in {"done", "failed"}
    /\ outcome' = [outcome EXCEPT ![j] =
                     IF jobs[j].status = "failed" THEN "failed"
                     ELSE IF ~Opens(j) THEN "unreadable"
                     ELSE Verdict(j, listed)]
    /\ UNCHANGED <<mock, calls, asked, pc, late, told, born, keys, file>>
-------------------------------------------------------------------------------
(* The nodes behind the coordinator. *)

\* A node is set up under its id, the first time or again, with a new keyfile.
\* Registering the same one again changes nothing.
SetUp(n) ==
    /\ nodes[n] < MaxGeneration
    /\ Register(n, nodes[n] + 1)
    /\ UNCHANGED client

NodePulls(n) == Pull(n) /\ UNCHANGED client

\* Whoever has the keys a job is sealed to can answer it once it was delivered,
\* also after the node moved on to other keys; a v1 node sends no receipt.
NodePosts(n, j) ==
    /\ jobs[j].attempts > 0
    /\ \E receipt \in {0, jobs[j].sealed} : Result(n, j, receipt)
    /\ UNCHANGED client
-------------------------------------------------------------------------------
Next ==
    \/ \E n \in Nodes, x \in Keys \cup {NoKey} : Pick(n, x)
    \/ \E j \in Jobs :
          \/ Post(j) \/ \E c \in Calls : LatePost(c, j)
          \/ WriteJobFile(j) \/ Adopt(j)
          \/ \E listed \in BOOLEAN : ResultWithReceipt(j, listed)
          \/ ExpireLease(j) /\ UNCHANGED client
    \/ PostRefused \/ PostLost
    \/ NextProcess
    \/ \E n \in Nodes :
          \/ SetUp(n) \/ NodePulls(n)
          \/ \E j \in Jobs : NodePosts(n, j)

Spec == Init /\ [][Next]_vars
-------------------------------------------------------------------------------
(* What client and coordinator owe the caller. *)

\* A job whose own submit returned to this process can be read by it, whatever
\* retries of its key, other nodes, processes and job files came in between.
AnsweredIsReadable ==
    \A c \in Calls : c > born /\ told[c] # NoJob /\ jobs[told[c]].reply = c => Opens(told[c])

\* A result that cannot be opened came under a key that a later submit used again:
\* that retry was told the job and its keypair was kept (client.py:251-253), while
\* the submit that made the job was not answered to this process.
UnreadableIsRetried ==
    \A j \in Jobs : outcome[j] = "unreadable" =>
        LET first == jobs[j].reply IN
        /\ told[first] = NoJob \/ first <= born
        /\ \E c \in Calls : /\ c > first /\ told[c] = j
                            /\ asked[c].key = asked[first].key /\ asked[c].key # NoKey

\* A retry under a key is told the job of the first submit exactly when it picked
\* the same node again; picking another makes a second job (client.py:226).
RetryFollowsPick ==
    \A b, c \in Calls :
        told[b] # NoJob /\ told[c] # NoJob /\ asked[b].key = asked[c].key
            /\ asked[b].key # NoKey
        => (told[b] = told[c] <=> asked[b].node = asked[c].node)

\* A receipt checked against a listing that names its node fails only once that node is
\* set up under other keys.  The caller cannot tell that from a listing that failed or
\* lacked the node: "true only for a receipt that this job's node really signed"
\* (client.py:316) has no converse.
RefutedIsRekeyed ==
    \A j \in Jobs : outcome[j] = "refuted" => nodes[jobs[j].to] > jobs[j].sealed

\* A node never has more unfinished jobs than the cap: a submit counts them and makes
\* its own under one lock, which the worker's handlers do not have.
CapIsExact == \A n \in Nodes : Cardinality(Unfinished(n)) <= MaxQueued

\* Every job that is done is counted, once, duplicates and redeliveries or not.
CountIsExact == jobsDone = Cardinality({j \in Jobs : jobs[j].status = "done"})

\* The stored result: whom it is sealed to, and the receipt it came with.
Stored(reply, receipt) == <<reply, receipt>>
Results == Calls \X (0..MaxGeneration)

\* Job by job the kit takes only the steps of JobMailbox, which are the worker's
\* when a node has one request in flight.
Mailbox(j) == INSTANCE JobMailbox WITH
    Jobs     <- {j},
    Blobs    <- Results,
    NoBlob   <- Stored(0, 0),
    status   <- [i \in {j} |-> jobs[i].status],
    attempts <- [i \in {j} |-> jobs[i].attempts],
    lease    <- [i \in {j} |-> jobs[i].lease],
    result   <- [i \in {j} |-> IF jobs[i].status = "done"
                                 THEN Stored(jobs[i].reply, jobs[i].receipt)
                                 ELSE Stored(0, 0)]

MailboxSteps ==
    /\ \A j \in Jobs : Mailbox(j)!Init
    /\ [][\A j \in Jobs : Mailbox(j)!Next \/ UNCHANGED jobs[j]]_vars
===============================================================================
