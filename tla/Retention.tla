------------------------------ MODULE Retention -------------------------------
(***************************************************************************)
(* How long the worker coordinator (coordinator/src/logic.js) keeps what   *)
(* belongs to a job: its record, its queue entry and its idempotency key   *)
(* each expire on their own, and a put of the record restarts only the     *)
(* record's time.                                                          *)
(*                                                                         *)
(* Abstractions.  The clock counts a unit in which ttls and the lease are  *)
(* whole.  A handler is quick against all of them, so it is one step, but  *)
(* one cut short keeps a prefix of its puts.  All submits are for one node *)
(* with one key; a pull is taken entry by entry.                           *)
(***************************************************************************)
EXTENDS Integers

CONSTANTS
    Jobs,         \* job ids
    NoJob,        \* null
    QueuedTtl,    \* QUEUED_TTL_S
    DoneTtl,      \* DONE_TTL_S
    Lease,        \* LEASE_MS
    MaxAttempts,  \* MAX_ATTEMPTS
    Horizon       \* bound on the clock, for the checker only

ASSUME RetentionAssumption ==
    /\ {QueuedTtl, DoneTtl, Lease, MaxAttempts} \subseteq Nat \ {0}
    /\ Horizon \in Nat
    /\ NoJob \notin Jobs

VARIABLES
    now,    \* the clock
    rec,    \* rec[j], the record under job:<j> as last put, gone at .until
    entry,  \* entry[j], when the queue entry of j goes; 0 before it is put
    idem,   \* what the idempotency key maps to, and until when
    acked   \* jobs some submit with the key was answered with

vars == <<now, rec, entry, idem, acked>>

Statuses == {"absent", "queued", "running", "done", "failed"}

Record == [status : Statuses, attempts : 0..MaxAttempts, lease : Nat,
           created : Nat, until : Nat]

TypeOK ==
    /\ now \in Nat
    /\ rec \in [Jobs -> Record]
    /\ entry \in [Jobs -> Nat]
    /\ idem \in [job : Jobs \cup {NoJob}, until : Nat]
    /\ acked \subseteq Jobs

Init ==
    /\ now = 0
    /\ rec = [j \in Jobs |-> [status |-> "absent", attempts |-> 0, lease |-> 0,
                              created |-> 0, until |-> 0]]
    /\ entry = [j \in Jobs |-> 0]
    /\ idem = [job |-> NoJob, until |-> 0]
    /\ acked = {}

Present(j) == now < rec[j].until
Listed(j) == now < entry[j]
Keyed == now < idem.until
-------------------------------------------------------------------------------
(* Submit. *)

Fresh == [status |-> "queued", attempts |-> 0, lease |-> 0,
          created |-> now, until |-> now + QueuedTtl]

\* Mutated forms: the entry, or the key, is kept as long as a result.
EntryAsResult == now + DoneTtl
KeyAsResult == now + DoneTtl

EntryUntil == now + QueuedTtl
KeyUntil == now + QueuedTtl

\* The puts of a new job, up to where the handler got: the record, the queue
\* entry, the key, and then the answer.
Submit(j, reached) ==
    /\ ~Keyed
    /\ rec[j].status = "absent"
    /\ rec' = [rec EXCEPT ![j] = Fresh]
    /\ entry' = IF reached = "record" THEN entry ELSE [entry EXCEPT ![j] = EntryUntil]
    /\ idem' = IF reached \in {"record", "entry"} THEN idem
               ELSE [job |-> j, until |-> KeyUntil]
    /\ acked' = IF reached = "answer" THEN acked \cup {j} ELSE acked
    /\ UNCHANGED now

\* The key is known: the answer is its job, without a look at that job.
Duplicate ==
    /\ Keyed
    /\ acked' = acked \cup {idem.job}
    /\ UNCHANGED <<now, rec, entry, idem>>
-------------------------------------------------------------------------------
(* Pull, for one listed entry, and result. *)

Ended(j) == rec[j].status \in {"done", "failed"}

Waiting(j) == rec[j].status = "running" /\ rec[j].lease > now

Exhausted(j) == rec[j].status = "running" /\ rec[j].attempts >= MaxAttempts

Delete(j) == entry' = [entry EXCEPT ![j] = 0]

PullDrop(j) ==
    /\ Listed(j)
    /\ ~Present(j) \/ Ended(j)
    /\ Delete(j)
    /\ UNCHANGED <<now, rec, idem, acked>>

End(j, status) ==
    rec' = [rec EXCEPT ![j] = [@ EXCEPT !.status = status, !.until = now + DoneTtl]]

\* The delete may not be reached.
PullFail(j) ==
    /\ Listed(j) /\ Present(j)
    /\ ~Ended(j) /\ ~Waiting(j) /\ Exhausted(j)
    /\ End(j, "failed")
    /\ Delete(j) \/ UNCHANGED entry
    /\ UNCHANGED <<now, idem, acked>>

Deliverable(j) ==
    Listed(j) /\ Present(j) /\ ~Ended(j) /\ ~Waiting(j) /\ ~Exhausted(j)

Leased(r) ==
    [r EXCEPT !.status = "running", !.attempts = @ + 1, !.lease = now + Lease,
              !.until = now + QueuedTtl]

\* Mutated forms: the lease keeps the record as long as a result; it renews the
\* entry too.
PullLeaseShort(j) ==
    /\ Deliverable(j)
    /\ rec' = [rec EXCEPT ![j] = [Leased(@) EXCEPT !.until = now + DoneTtl]]
    /\ UNCHANGED <<now, entry, idem, acked>>
PullLeaseRenewing(j) ==
    /\ Deliverable(j)
    /\ rec' = [rec EXCEPT ![j] = Leased(@)]
    /\ entry' = [entry EXCEPT ![j] = EntryUntil]
    /\ UNCHANGED <<now, idem, acked>>

\* The record's time starts again, the entry's does not.
PullLease(j) ==
    /\ Deliverable(j)
    /\ rec' = [rec EXCEPT ![j] = Leased(@)]
    /\ UNCHANGED <<now, entry, idem, acked>>

\* Mutated form: a result is stored without a look whether the record is still there.
ResultForGone(j) ==
    /\ rec[j].status = "running"
    /\ End(j, "done")
    /\ Delete(j) \/ UNCHANGED entry
    /\ UNCHANGED <<now, idem, acked>>

Result(j) ==
    /\ Present(j) /\ rec[j].status = "running"
    /\ End(j, "done")
    /\ Delete(j) \/ UNCHANGED entry
    /\ UNCHANGED <<now, idem, acked>>
-------------------------------------------------------------------------------
Tick ==
    /\ now < Horizon
    /\ now' = now + 1
    /\ UNCHANGED <<rec, entry, idem, acked>>

Next ==
    \/ \E j \in Jobs :
          \/ \E reached \in {"record", "entry", "key", "answer"} : Submit(j, reached)
          \/ PullDrop(j) \/ PullFail(j) \/ PullLease(j) \/ Result(j)
    \/ Duplicate
    \/ Tick

Spec == Init /\ [][Next]_vars
-------------------------------------------------------------------------------
(* What the lifetimes must be to each other. *)

\* An answered job that has not ended is listed for the whole of its queue time,
\* however often it was leased meanwhile.  Past it the record of a leased job may
\* live on, lapsed and with attempts left, where no pull finds it: "a lease that
\* expires makes the job deliverable again" (README.md:275) ends there.
UnfinishedIsListed ==
    \A j \in acked : ~Ended(j) /\ now < rec[j].created + QueuedTtl => Listed(j)

\* While a job told to a client can still be delivered, a retry with its key is
\* told the same job and starts no second one.
KeyCoversDelivery ==
    \A j \in acked : Deliverable(j) => Keyed /\ idem.job = j

\* A key names a record that is gone only if the job had ended.
KeyNeverNamesLostJob ==
    Keyed => Present(idem.job) \/ Ended(idem.job)

\* However often it is leased again, no record outlives two queue times and a
\* result time: the namespace does not grow for ever.
LifeBounded ==
    \A j \in Jobs : Present(j) => now < rec[j].created + 2 * QueuedTtl + DoneTtl

\* What a request finds of job j: an expired record is not there, and its lease with
\* it.
Found(j) == IF rec[j].status = "absent" \/ Present(j) THEN rec[j].status ELSE "gone"
Held(j) == Present(j) /\ Waiting(j)

Mailbox(j) == INSTANCE JobMailbox WITH
    Jobs     <- {j},
    Blobs    <- {"result"},
    NoBlob   <- "none",
    status   <- [i \in {j} |-> Found(i)],
    attempts <- [i \in {j} |-> rec[i].attempts],
    lease    <- [i \in {j} |-> IF Held(i) THEN "live" ELSE "lapsed"],
    result   <- [i \in {j} |-> IF Found(i) = "done" THEN "result" ELSE "none"]

\* The step the mailbox does not have.  A job that has not ended goes no earlier than
\* its queue time.
Forgotten(j) ==
    /\ Present(j) /\ ~Present(j)'
    /\ Ended(j) \/ now' >= rec[j].created + QueuedTtl
    /\ UNCHANGED rec[j]

\* The mailbox is what requests see of the store that forgets.  Until its record goes,
\* a job takes the steps of JobMailbox and no others; once it is gone no step is left:
\* no pull delivers it, no late result or submit brings it back, its lease ends with it.
MailboxSteps ==
    /\ \A j \in Jobs : Mailbox(j)!Init
    /\ [][\A j \in Jobs :
             \/ Mailbox(j)!Next
             \/ Forgotten(j)
             \/ UNCHANGED <<rec[j], Found(j), Held(j)>>]_vars
===============================================================================
