# A verification of nycc-grid

nycc-grid lets members of a cycling club donate the computer their pedalling
powers: a client seals a prompt for one node, a coordinator keeps it until that
node asks for work, and the sealed result goes back the same way. The coordinator
exists twice, as a worker over a key-value store (`coordinator/src/logic.js`) and
as a mock with one lock (`pygrid/testkit.py`). Paths in this file are those of the
repository, modules and cfgs are in this directory.

What makes the system hard is that the worker's store has `get`, `put` with a time
to live, `delete` and `list`, and no compare-and-swap and no transaction: every
handler reads, decides and writes records that other requests write meanwhile, may
be cut short between any two of its writes, and every key vanishes on its own.

## 1. Inventory

| component | code | state it keeps | operations |
|---|---|---|---|
| job queue | `logic.js` 191-198, 584-600, 662-842 | job records, a queue key per job, idempotency keys, the public counter | submit, pull, result |
| job retention, status | `logic.js` 39-41, 703-841 | a ttl on each of those keys | expiry; status is a read |
| node registry | `logic.js` 453-546 | one record per node: two public keys, `last_seen`, a ttl | register, heartbeat |
| node listing and stats | `logic.js` 548-660, `client.py` 169-186 | none of its own: cursors and budgets | nodes, stats, the client's loop over pages |
| signed requests | `logic.js` 228-276, 387-430 | nonces, each with a ttl | checkSignature, checkMemberSignature |
| member card gate | `logic.js` 278-385, 432-451, `club.py` 76-225, `testkit.py` `_member_gate` | none: a document and a club key | two gates, each a verdict on the card and then the member signature |
| worker adapter | `worker.js` | the store binding | get, put, delete, list |
| node agent | `node.py` | keys, `registered`, the batch in hand | register, heartbeat, run_once, run_forever |
| grid client | `client.py` | the reply keypairs it keeps, job files | nodes, submit, result, adopting a keypair from a job file |
| mock coordinator | `testkit.py` | dictionaries under one lock | the same endpoints, and a hook that ends a lease |
| wire types | `protocol.py` | none | parsing |
| club command line | `club.py` 292-529 | three files in a directory: club key, card, member's keypair | init, issue, show |
| crypto primitives | `crypto.py` | none | seal, sign, canonical json |
| watt meters | `watts.py` | a driver handle | read |

How they interact. Clients and nodes call the coordinator over HTTP and it never
calls them: a node learns of work by polling, a client of a result by polling. All
coordinator state is the store. Two requests meet only there, and two components
only in the records: registration decides whose signature a heartbeat, pull or
result needs, the card decides who may submit, and the queue key, the record and
the idempotency key of one job are three writes that can part ways.

What is hard, and what must hold there:

- **Job queue.** A pull holds a snapshot of a record across an await while a result
  stores it as done; two posts of one result; a submit, a result or a pull that
  stops between its writes; a key looked up by two submits; a listing with a limit
  in front of which stale entries pile up. A finished job must stay finished, the
  first result must stay, an accepted job must stay reachable until it ends and must
  end, and a key must name one job.
- **Node agent.** Answers that never come to requests that were, or will yet be,
  served; a poison job in a batch; a registration the coordinator has lost; a crash
  with a batch in hand. A good job must not pay for any of it with an attempt it did
  not waste, and must get done; a poison job must be given up.
- **Retention.** Record, queue entry and key are given their times at different
  moments. What was promised to a client must be findable for its queue time.
- **Registry.** A heartbeat and a register both write the whole record. Nobody may
  take over another's id, and who was just seen must be on file.
- **Client.** The private half of the key a result is sealed to exists only in the
  client, and a retry picks its node again. What it was answered for it must be able
  to read; what it cannot read must have a cause it can be told, and a checked receipt
  must fail only for a node that changed keys.
- **Signed requests.** Window and nonce are checked in separate steps, in whole
  seconds, against a clock that moves. One signature must have bounded use.
- **Listing.** Names come and go between two pages. Nobody twice, nobody missed who
  was there all along, unless the answer shows that it is short.
- **Cards.** Two functions in two languages judge one document, and the command line
  writes the document and the key it names one after the other. No key may be lost
  that a card needs, and a good card must get in.

## 2. Modules

| module | what it is |
|---|---|
| `JobQueue` | submit, pull and result, one step per store operation |
| `JobMailbox` | what the queue promises, one lock around each operation |
| `JobQueueProofs` | theorems for any interleaving; then for one request per node, with the refinement |
| `NodeAgent`, `NodeAgentProofs` | the polling loop against atomic handlers, with faults |
| `Retention`, `RetentionProofs` | the times to live of what belongs to a job |
| `NodeRegistry`, `NodeRegistryProofs` | register and heartbeat of one id, get and put apart |
| `MockCoordinator` | the test kit's coordinator, one action per handler |
| `GridClient`, `GridClientProofs` | a client process, and the nodes, against `MockCoordinator` |
| `SignedRequest`, `SignedRequestProofs` | window and nonce for the deliveries of one request |
| `NodeListing`, `NodeListingProofs` | paging clients and budgeted stats while nodes come and go |
| `CardGate` | one card from whoever signs it to the verdicts of the two gates |
| `ClubDesk`, `ClubDeskProofs` | the club command line, with `CardGate` behind it |
| `MC*` | the symmetry of a module and its instances for TLC |

`JobQueue` is the centre. Around it each other module looks at one dimension that
`JobQueue` leaves out, with the rest atomic: time in `Retention`, the network and
the other side of the wire in `NodeAgent`, who may speak in `NodeRegistry`,
`SignedRequest` and `CardGate`, reads that span many keys in `NodeListing`. Two
compositions go from one end to the other: `GridClient` runs client, mock coordinator
and nodes together, `ClubDesk` the command line, the client and the two gates.
`JobMailbox` is what all models of the coordinator have in common: `JobQueue` is shown to
implement it, and so are the mock and the coordinators that `NodeAgent` and `Retention`
put behind the wire and under the clock, so these three stand in for one thing.

### JobQueue and JobMailbox

Every await on the store is a step, and what a handler computes up to its next
await belongs to the step of the first.

| code | action |
|---|---|
| handleSubmit: get of the key; list of the backlog; puts of record, queue entry, key | `SubmitLookup`, `SubmitBacklog`, `SubmitRecord`, `SubmitIndex`, `SubmitIdem`; the 200 is `Acknowledge` in the last of them |
| handlePull: list; end of the walk; get of each record; put of a lease; put of a failure; delete of a stale entry | `PullList`, `PullReply`, `PullEntry` with `PullJob`, `PullLease`, `PullFail`, `PullDrop` |
| handleResult: get; put; delete; the counter's get and put | `ResultRead`, `ResultPut`, `ResultUnindex`, `CountRead`, `CountWrite` |
| the runtime ends a request early | `AbortRequest`, `AbortSubmit` |
| `lease_until` passes | `LeaseLapse` |

`h[n, k]` is what request `k` of node `n` has reached and the record it has read
(`snap`); a put writes what was computed from `snap`, whatever the store holds by
then. `Conns` says how many requests a node may have in flight. `PullBranch` is
the body of the loop over entries, branch by branch. Replies that change nothing
are stuttering steps. A pull takes its clock before the listing; the model takes
the lease when the record is read, which only differs in entries that pull would
have skipped as still leased.

`JobMailbox` has `Accept`, `Deliver`, `Lapse`, `Finish` and `GiveUp` on the status,
attempts, lease and result of each job. Its shape is that of the mock's handlers
under their lock. `MailboxSpec` is `JobMailbox` under the mapping that reads
those four from the record of each job.

### NodeAgent

`pc` is where `run_forever` stands, `batch` the envelopes of the last pull not yet
worked off. `RunOnce`, `Register`, `Heartbeat`, `Pull`, `PullUnknown` (the 404 that
clears `registered`, after which the agent registers and pulls once more),
`ProcessRaises` and `Post` follow `node.py`. Each request also has a lost form, in
which the agent sees an exception and the coordinator may serve the request at any
later moment (`LateRegister`, `LatePull`, `LateResult`) or never. `Crash` forgets
everything the process held; `Forget` is the coordinator losing the node. Each
fault counts against `MaxFaults`. The coordinator's side is the same lease and
attempt arithmetic as in `JobQueue`, atomic; `MailboxSteps` maps each of its jobs to a
`JobMailbox` of one job.

### Retention

`rec[j]`, `entry[j]` and `idem` each carry the time they vanish. `Submit(j, reached)`
performs the puts up to where the handler got, `PullDrop`, `PullFail`, `PullLease`
and `Result` are the branches of pull and result; `PullLease` restarts the time of
the record and not that of the entry, as the code does. `MailboxSteps` maps what a
request finds of a job to a `JobMailbox`: `Found` is its status, "gone" once the record
has expired, and `Held` its lease, over when the clock or the end of the record says so.
The mailbox does not forget, the store does: `Forgotten` is that one step, allowed to a
job that has ended or is past its queue time. From "gone" the mailbox has no step, so a
pull, a late result or a submit that brought the job back would be a violation.

### NodeRegistry

`RegisterRead` and `BeatRead` are the get with the signature check, `RegisterPut` and
`BeatPut` the clock (`last_seen`) and the put of the whole record. Two variables are
history. `overtaken`: the requests in flight that read before the last put. `entitled`:
the keys the record may be filed under. On a free id it is every key that claims it, with
a record it grows by the keys that a key already in it names, and a put shrinks it to the
key just put and those of the requests still in flight.

### MockCoordinator and GridClient

`MockCoordinator` has one action for each handler that writes: `Register`,
`CreateJob`, `Pull`, `Result`, and `ExpireLease` for the hook and for the passing of
time. They differ from the worker's where the code does: a register verifies nothing,
a result needs no registered node, `Full` counts unfinished jobs where the worker
counts queue keys, there is no limit on a scan, and nothing expires. Its heartbeats
and `last_seen` (which its pull and result refresh, and the worker's do not) are left
out.

`GridClient` extends it. A reply keypair is the number of the submit that made it, the
keypairs of a node the number of its keyfile.

| code | action |
|---|---|
| `submit` picks a node and seals to its key | `Pick` |
| its POST: answered; 404 or 429; answer lost or not waited for, and perhaps served later | `Post` with `Kept`, the `setdefault` of `client.py:253`; `PostRefused`; `PostLost` and `LatePost` |
| the submit command writes a job file; a process ends; the result command adopts the keypair | `WriteJobFile`, `NextProcess`, `Adopt` |
| `result_with_receipt` on a job that ended | `ResultWithReceipt`: failed, unreadable, or the text with the `Verdict` of `verify_receipt`: verified, refuted, unlisted (the listing raised or lacks the node), bare (no receipt). The caller is told True for the first and False for the others |
| a node set up under its id with a new keyfile; its pull; its result | `SetUp`, `NodePulls`, `NodePosts` |

`MailboxSteps` maps each job of the mock to a `JobMailbox` of one job.

### SignedRequest

`Arrive` compares the timestamp with the clock and verifies the signature, `Look`
is the get of the nonce, `Keep` its put. `checkSignature` and
`checkMemberSignature` differ in header names and in the prefix of the nonce, and
are both this module. The clock has `Scale` units to a second, since the code
compares the whole seconds of a clock that counts milliseconds.

### NodeListing

`NodesList`, `NodesRead` and `NodesTurn` are the client following cursors, one get
per name; `StatsList`, `StatsRead`, `StatsStop` and `StatsTurn` are `handleStats`
with its budget of gets and pages. `Beat` and `Expire` change the registry
underneath. `stayed` and `alive` are history: who was there from the start on.

### CardGate and ClubDesk

`WorkerGate` and `ToolGate` are the card's verdict (`WorkerVerdict`, `ToolVerdict`) and
then the member signature by the key the card names. Fields are classes of values:
those the two functions or their two encoders treat differently, among them a date of 64
characters and more UTF-16 units, NaN and Infinity (python's json reads and writes them,
`JSON.parse` refuses the whole text), numbers past 2^53 and past the doubles, and base64
without its padding or with padding to spare. The last is what `b64decode(validate=True)`
of the python releases seen so far takes; one that refused it would make the tool agree
with the worker there. `Issue` is
`club.py`'s issue called by a program, `SignLater` a later version of it that adds a
field, `Edit` and `EditSig` whatever happens to a file, `SendByClient` and
`SendByOther` how the document gets into a header and who signs the submit. `held`
are the keypairs the holder of the card has.

`ClubDesk` puts the command line before it. One directory holds `club.keys.json`, the
card and `member.keys.json`; one command runs at a time, and `CutShort` ends it at any
of its writes, where opening a file truncates it and a later step fills it:
`OpenClubKeys`, `WriteClubKeys`; `OpenCard` (from `IssueForKey` or `IssueWithKeygen`),
`WriteCard`, `OpenKeyfile`, `WriteKeyfile`. `ClearTorn` and `MoveKeyfile` are what
people do with the files between commands, `HandOut` gives the card to the member.

## 3. What is checked

Each run has the cfg of its name. "pass" runs explore every state of the instance.

| run | properties | what it shows |
|---|---|---|
| QueueConcurrent | TypeOK, QueuedStaysIndexed, NeverRequeued | what is left when two requests of one node overlap: attempts stay within the limit, an accepted job not yet delivered keeps its queue entry, a delivered one never looks undelivered again |
| QueueOneConnection | MailboxSpec, TerminalIsForever, AcceptedStaysDeliverable, JobsDoneIsFloor, IdempotentAck | two nodes with one request in flight each, one client that retries with a key: the queue is the mailbox, finished is finished, unfinished jobs are listed, the counter invents nothing, one key is one job per node |
| QueueEnds | QueueOvershootBounded, CounterMissesOnlyCut, EveryAcceptedJobEnds | submits racing at the cap overshoot it by at most their number; every accepted job ends, also behind a leased one that fills the listing of a pull; with requests one at a time the counter misses only results whose request was cut short |
| AgentFaults | GoodJobFailsOnlyByFaults, CompletedIsDone, GoodJobsGetDone, PoisonIsGivenUp, MailboxSteps | lost and late requests, crashes, a forgotten node: a good job is given up only when as many faults happened as it had attempts, and is done otherwise; poison ends; the coordinator behind it is the mailbox |
| Lifetimes | UnfinishedIsListed, KeyCoversDelivery, KeyNeverNamesLostJob, LifeBounded, MailboxSteps | for its queue time an accepted job is listed and its key names it; nothing is kept for ever; a job goes no earlier than promised and takes no step once it is gone |
| RegistryRaces | SeenIsOnFile, OwnerOnly, OutsidersStayOut | a recently seen node is on file; a key gives way to its owner, or to a request that read before another put; an overlap brings an old key back only while a request in flight carries it, and files no key that neither claimed the free id nor was named by one on file |
| ClientRetries | AnsweredIsReadable, UnreadableIsRetried, RetryFollowsPick, RefutedIsRekeyed, MailboxSteps | every job whose own submit was answered can be read; what cannot be read was never answered and came under a key used again; a retry is told the first job exactly when it picks the same node; a receipt checked against a listing with its node in it fails only after the node changed keys; the mock is the mailbox |
| DeliveredTwice | ReuseBounded, NoFalseReplay, AcceptsAreApart | acceptances of one request fall in one window; those whose handlers do not overlap are a nonce time apart; a replay verdict follows an acceptance |
| ListingAll | ListedOnce, CompleteListHasAll, UnmarkedStatsCountAll | nobody twice; nobody missed who was there all along, unless a cursor is left or the stats say partial |
| CardVerdicts | AdmittedWasSigned, ToolKnowsAdmitted, SameCode, CardHasItsKey, HolderIsAdmitted | what the worker admits was signed as it stands, for a holder of its key; the two gates give one code where they read the text alike; no command, cut short or not, takes a member's only key; a card whose issue succeeded gets its holder in |
| StalePull | TerminalIsForever, violated | a pull that read the record before a result puts a done job back to running |
| CardTwoMinds | PassesHerePassesThere, violated | a card the tool passes and the worker refuses |

Mutants: for every property of every passing run `PROJECT.json` names a mutated form
of a definition (they stand before the original in the module, under a comment
"Mutated form") with which the same run finds the property violated.

### Bounds, and why they are enough

All of them are constants of a module or a cfg.

- `JobQueue`: `MaxAborts` bounds requests cut short. One meets every position of the
  cut against every position of the other requests, and the theorems hold for any
  number. `MaxAttempts` is 2, so that a job is
  delivered, delivered again and given up. `PullMax` and `PullScan` are 1 or 2 and
  smaller than the queue, so that replies fill and listings end early. `QueueCap` is
  1 in QueueEnds, below the number of submits in flight. Two requests per node,
  because each hazard is a pair: one that read, one that wrote.
- `NodeAgent`: `MaxFaults` is above `MaxAttempts`, so that jobs can be lost to faults;
  one poison job sits between two good ones and `PullMax` is 2, so that it is in a
  batch with each of them.
- `Retention`: `QueuedTtl` 4, `DoneTtl` 2, `Lease` 1 keep the order of a week, a day
  and ten minutes; `Horizon` is the end of every life, two queue times and a result
  time.
- `NodeRegistry`: `Stale` 1 and `Ttl` 3, again the order of the code; `MaxClock` lets a
  record lapse and be filed again, twice. Three keys and three requests: an owner's
  rotation, a request that it overtakes, and an outsider.
- `GridClient`: two nodes, two jobs, one key and two submits (`MaxCalls`): a submit and
  its retry, with the same node or another, answered in either order. `MaxGeneration`
  2: a node changes keys once. `MaxQueued` and `PullMax` 1, `MaxAttempts` 2: refusals,
  full replies, redelivery and giving up all happen.
- `SignedRequest`: `Skew` 1, `NonceTTL` 2 keep the code's ratio of 300 to 600, `Scale`
  2 is the least that tells a second from its parts; `MaxClock` is past the window.
- `NodeListing`: four names, pages of two that the store may cut short, `StatsMaxGets`
  3 and two stats pages, so that the budget and the page cap each bite;
  `MaxChanges` is two changes during the scans.
- `CardGate` is bounded by its classes; two names, one of which an edit puts in place
  of the other. `ClubDesk` has two club keys and three keypairs to generate besides the
  one a member brings: a command can be repeated after it was cut short, and again.

`CHECK_DEADLOCK FALSE` is in the cfgs of Retention, NodeRegistry, GridClient,
SignedRequest, NodeListing and ClubDesk, where the end of the bounded clock, of the
calls, of two scans that run once or of the one card is the end of the behaviour.
The queue and the agent never stop and are checked for deadlock. Symmetry is used
only for sets of model values no definition orders, and in no run with liveness.

### Fairness, and why the code justifies it

`JobQueue!Fairness`: a node keeps pulling (`run_forever` has no exit but a signal), a
request that has started gets on (weak fairness on its steps; it may still be cut
short), and a lease runs out, because time passes. Nothing is assumed of submits, of
results being posted or of the order of requests. `NodeAgent!FairSpec`: the loop goes
on and leases run out; the bound on faults says that faults end. Late requests are
under no fairness: they may never be served.

### Where the code and its documents part

StalePull and CardTwoMinds are runs, and findings in `PROJECT.json`. Others are the
exceptions that the passing properties had to be given. TLC finds a counterexample
to each when the exception is dropped:

- Two results of one job that both read `running` both store (`logic.js:830-839`),
  where `coordinator/README.md:207` has the first post never overwritten; and a
  stale pull next to a result leaves a running job without a queue entry, wedged
  until its record expires. FirstResultWins (a theorem without a run of its own) and
  AcceptedStaysDeliverable hold with one request per node. The agent sends one at a
  time, but a request that timed out at the agent can still be running at the worker
  when the next arrives.
- Two submits with one key that both miss the lookup, or one cut short between queue
  entry and key, make two jobs (`logic.js:696-720`; `coordinator/README.md:316`).
  IdempotentAck is for a client that waits for one submit to end before the next. The
  other half, that no job is told for two keys, needs no such client: KeysDoNotShareJobs.
- The counter can fall (`logic.js:594-600`; `coordinator/README.md:275` says it never
  decreases): a bump that read early lands late. JobsDoneIsFloor only bounds it above;
  CounterMissesOnlyCut bounds it below, where requests do not overlap.
- A job leased just before its queue entry expires is listed no more when that lease
  lapses, while its record lives for another week (`logic.js:719`, `780`).
  UnfinishedIsListed ends with the queue time.
- Two first registers of one id are both answered 200 and the second key stays; a
  heartbeat that read before a rotation puts the old key back (`logic.js:484-494`,
  `543`). This is `overtaken` in OwnerOnly; OutsidersStayOut says how far it goes.
- A submit whose answer is lost takes its keypair along; the retry is told the old
  job and keeps a keypair that does not open it (`client.py:251-253`). This is
  UnreadableIsRetried.
- A key is scoped to a node and a submit without `to_node` picks its node anew
  (`client.py:226`), so a retry can make a second job at another node. This is
  RetryFollowsPick.
- "True only for a receipt that this job's node really signed" (`client.py:316`) has no
  converse. A receipt is verified against the record the node has by then
  (`client.py:331`), so an honest one fails after the node was set up again, and a listing
  that raises, times out or lacks the node (`client.py:332`, `337`) is the same False.
  RefutedIsRekeyed is about the receipts that were checked.
- Worker and tool read some texts differently, apart from fields added later: a date's
  length (`logic.js:365` in UTF-16 units, `club.py:211` in characters), its digits,
  base64 padding, and NaN, which is `card_malformed` for `JSON.parse` (`logic.js:337`) and
  `card_invalid` in a field the tool knows and passes in another (`club.py:205-219`). `ReadAlike` names them;
  SameCode is for the rest, in all four fields and the signature.
- The window is closed on both sides and counted in whole seconds, so it is up to a
  second longer than the nonce is kept, and a slow handler can look its nonce up
  later still (`logic.js:241`, `265`; `coordinator/README.md:93`). ReuseBounded has the
  true bound, AcceptsAreApart what the nonce adds, and AtMostThreeInTurn how often that
  leaves a signature good when handlers do not overlap.
- A client that runs out of pages returns a short list that looks like a whole one
  (`client.py:171-186`). CompleteListHasAll is for lists that reached the last cursor.

## 4. What is proved

TLAPS proves the theorems for all values of the constants that the named assumptions
of the modules allow. Each is `Init => Inv`, `Inv /\ [Next]_vars => Inv'`, and
`Inv => property`, or for an action property the same invariant on both sides of the
step.

- **JobQueueProofs**, for any number of nodes, concurrent requests, submits and jobs.
  `TypeInv` adds to TypeOK that a record is consistent (a queued one has no attempts
  and is not leased) and that a handler holds a snapshot its step may write: the
  bound on attempts does not follow from the types, since a lease writes the
  snapshot's attempts plus one. TypeCorrect, NeverRequeuedHolds. `ReachInv` says that
  who is about to delete an entry deletes that of a delivered job, which no
  interleaving makes undelivered: QueuedStaysIndexedHolds. `CapInv` counts: queue
  entries and submits past their check are together at most the cap and one less than
  the clients, because the check is made on a listing that is the whole queue when it
  is shorter than its limit: QueueOvershootBoundedHolds. `OwnInv`: the record
  that a request is about to write is of the request's node: OwnNodeOnlyHolds.
  `ShareInv`: no two keys name one job, an answer and a key that name one job are of one
  node and key, and no key, answer or other submit knows the job that a submit is still
  writing: KeysDoNotShareJobsHolds. IdempotentAckHolds adds `KeyInv` under `OneClient` (a
  client waits for a submit to end before the next), which makes the converse true.

  Then under `OneConn`, one request per node in flight. `SnapInv`: the snapshot of a
  handler about to write is still what is stored, but for a lease that lapsed
  meanwhile. `EntryInv`: only entries of ended jobs are about to be deleted, and running
  jobs are listed. From these TerminalIsForeverHolds, FirstResultWinsHolds,
  AcceptedStaysDeliverableHolds, and QueueImplementsMailbox: the initial states map to
  initial states and every step of a handler to a step of `JobMailbox` on one job or to
  a stutter. `CountInv`: what the counter says, or any bump has read of it, and the
  finished jobs not yet counted are at most the jobs done: JobsDoneIsFloorHolds.
  `OneConn` is needed: StalePull is the counterexample without it.

  Under `OneRequest`, one request of all nodes at a time, `MissInv` keeps what a bump has
  read equal to what is stored, so a job done and not counted is one being counted or one
  cut short: CounterMissesOnlyCutHolds. With JobsDoneIsFloorHolds the counter is then
  exact but for aborts.
- **NodeAgentProofs**: `Account` is the argument. For a job that is not poison and not
  done, attempts and pulls still to be served late are at most the faults so far plus
  one if the job is in hand; so attempts reach the limit only with as many faults.
  AgentTypeCorrect, GoodJobFailsOnlyByFaultsHolds. `CountInv`: `completed` is at most the
  number of done jobs the agent no longer has in hand. CompletedIsDoneHolds. `LeaseInv`
  (a job not yet delivered has no lease) makes every move of a job one of `JobMailbox`, also when
  a request is served late or a batch is delivered twice: MailboxStepsHold.
- **RetentionProofs**: every time is tied to `created`: the entry of a queued or running
  job is gone at `created + QueuedTtl` or was never put, the key with the job it names,
  the record of a leased job before twice that. RetentionTypeCorrect,
  UnfinishedIsListedHolds, KeyCoversDeliveryHolds, KeyNeverNamesLostJobHolds,
  LifeBoundedHolds, for any ttls. MailboxStepsHold follows from the same invariant: a
  record whose job has not ended stays until its queue time at least, and every handler
  that writes over a record has found it there.
- **NodeRegistryProofs**: `TimeInv` (a record stays a ttl from when its node was seen),
  `ReadInv` (what a request read is still stored, unless it was overtaken).
  RegistryTypeCorrect, SeenIsOnFileHolds for every ttl longer than the staleness window,
  OwnerOnlyHolds. OutsidersStayOutHolds adds that while a record is on file its key is
  entitled, and so is what each request in flight will put.
- **GridClientProofs**: `IInv` says of each job where its record came from (`MadeOK`: the
  submit whose keypair is its reply key, with the node and key that one asked for), who
  was told it (`ToldOK`: its own submit, or a later one of the same node and key), which
  keypair is kept for it or lies in its file (`KeptOK`) and what a result may have been
  (`OutcomeOK`). ClientTypeCorrect, AnsweredIsReadableHolds, UnreadableIsRetriedHolds,
  RetryFollowsPickHolds, RefutedIsRekeyedHolds, CountIsExactHolds, CapIsExactHolds, and
  MailboxStepsHold, the refinement of `JobMailbox` by the mock. CountIsExact and CapIsExact
  are what the mock's lock gives and the worker's store does not: there the counter only
  has a floor and the cap an overshoot.
- **ClubDeskProofs**: `DeskInv` ties the command in hand to the files it has written so
  far (`CmdOK`) and a card to the club key it was signed under (`DocOK`); `WayOK` what was
  sent to what was signed, and the verdicts to the gates (`SentOK`, `AnsweredOK`,
  `SignedOK`). DeskTypeCorrect, CardHasItsKeyHolds, AdmittedWasSignedHolds,
  ToolKnowsAdmittedHolds, SameCodeHolds, HolderIsAdmittedHolds, for any names, keys and
  order of commands.
- **SignedRequestProofs**: `WindowBounds` turns the comparison of whole seconds into
  bounds on the clock, `ApartInv` carries from lookup to put that an earlier acceptance
  is over. RequestTypeCorrect, ReuseBoundedHolds, NoFalseReplayHolds,
  AcceptsAreApartHolds, for any skew, nonce time and clock resolution;
  AtMostThreeInTurnHolds where `2 * NonceTTL >= 2 * Skew + 1`, which the code's 600 s and
  300 s meet: two nonce times no longer fit in the window.
- **NodeListingProofs**: `PageEffect` says what a page leaves out, `ListOK` and `ScanOK`
  that whoever stayed and is behind the cursor was read. ListingTypeCorrect,
  ListedOnceHolds, CompleteListHasAllHolds, UnmarkedStatsCountAllHolds, for any number of
  nodes, page sizes and budgets.

Only model-checked: liveness (EveryAcceptedJobEnds, GoodJobsGetDone, PoisonIsGivenUp),
which with fairness and ENABLED is out of the prover's reach. Every other property of a
passing run is a theorem. The other way round, these are theorems of properties that no
run lists: the type invariants but the queue's, FirstResultWins, OwnNodeOnly,
KeysDoNotShareJobs, CountIsExact, CapIsExact and AtMostThreeInTurn. TLC agrees with each on
small instances, the last three on those of ClientRetries and, with a fourth delivery,
DeliveredTwice; as runs they would add minutes and nothing that the theorems do not say.

## 5. What is not modelled, and why

- The bytes of signed messages, seals and receipts: Ed25519 and the sealed box are
  libraries, taken as perfect. Of canonical json only what numbers do is modelled, in
  CardGate.
- Request parsing and its 400s: they change nothing and come before anything here.
- A read at one edge of the store that does not see a write at another. The modules
  read what was written last; the worker's documents allow up to a minute of delay.
  For records that exist a stale read adds to what StalePull shows for overlapping
  requests. One case goes further: a pull that sees the queue entry and not yet the
  record takes the entry for a stale one and deletes it (`logic.js:754`), and an accepted
  job is never delivered.
- How long a batch takes. The agent heartbeats between batches only (`node.py:276`), so
  one that works off ten slow jobs looks dead to clients meanwhile.
- Sums of watts, grouping by neighborhood, response caching: arithmetic on one reading.
- The client's polling deadline, printing and command line; the agent's key files
  and command line; `show` and the club's drawings: sequential I/O.
- The mock's heartbeats, `last_seen`, stats and engine. Its presence window hides nodes
  from listings and has no other effect.
- The watt meters: drivers, and arithmetic on one reading.

## 6. Plan

Done, in this order:

1. `JobQueue` with `JobMailbox` and their theorems: the centre, and every promise of
   `coordinator/README.md` about job status.
2. `NodeAgent` and its theorems: what a job may lose to faults.
3. `Retention` and `NodeRegistry`: expiry, and the other record that two requests write.
4. `SignedRequest`, `NodeListing`, `CardGate`: the edges of the system.
5. `MockCoordinator` and `GridClient`: the mock implements `JobMailbox`, composed with a
   client that picks anew for a retry and hands keypairs on.
6. `ClubDesk`: the command line in front of the gates.
7. Theorems for every invariant and action property of the runs.
8. Every model of the coordinator implements `JobMailbox`; what of keys, ownership and
   counting survives any interleaving.

Left:

9. `EdgeQueue`: the store of `JobQueue` with reads that may be behind, at `logic.js:754`;
   which properties of QueueOneConnection survive that.
10. `TimedAgent`: the agent with a clock and the registry behind it, for the presence of a
   node and the leases of its batch while it works (`node.py:276`).
11. The mock's heartbeats and `last_seen`, against `NodeRegistry`.
