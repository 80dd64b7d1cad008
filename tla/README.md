# toolsenabled-engine in TLA+

The engine hosts a tree of AI agents. It starts and stops their programs,
carries messages between them, runs their tool calls, queues durable work for
them and writes an audit record of what they do. This directory holds
specifications of the parts in which several things happen at once, the TLC
runs that check them, and TLAPS proofs. Paths below are relative to
`src/src/lib/` unless they start with `src/`.

- `DispatchScheduler`, `OrderedDispatch`, `DispatchSchedulerProofs`: how tool calls are run
- `ToolApproval`: what an outward tool call has to show before it starts
- `ClaimLock`, `ClaimLockProofs`: the lock file between processes
- `AgentHost`, `AgentHostProofs`: one worker of the tree, its courier, its tool-call
  boundaries
- `LedgerContinuation`: turns that a worker is sent for the owner's tasks
- `EventBackpressure`: events of a provider on their way to the host
- `Broker`, `MailboxQueues`, `BrokerProofs`: messages between agents, in one state
  file of all processes
- `AuditAdmission`: group commit of audit records over a worker thread
- `AuditLedger`: the ledger that takes them, with its anchor, archive, projections and spool
- `AuditProofs`: the proofs about both
- `TaskQueue`, `TaskQueueProofs`: the durable tasks
- `CaptureSpool`: the owner's words and suggestions, as files
- `ByteAuthority`: sessions that read and change one file
- `ProtocolProofs`: the proofs about `LedgerContinuation`, `EventBackpressure`,
  `CaptureSpool`, `ToolApproval` and `ByteAuthority`
- `Subsequences`, `SubsequenceTheorems`: what a filter leaves of a sequence
- `MC*`, `*.cfg`: the instances TLC checks; `MCAudit` runs both halves of the
  audit, `MCProtocols` the small protocols

Any run: `tlc -config Tasks.cfg MCTaskQueue`. Any proof: `tlapm TaskQueueProofs.tla`.

## 1. The system

### The components that are modelled

| component | state | operations | used by |
|---|---|---|---|
| Tool dispatch scheduler (`tool-dispatch-scheduler.js`) | tail promise of each lane and of the exclusive tools, two counting semaphores with their waiters, a signal per call | `run` with a kind and a lane, `cancel` through the signal, the continuations | every transport that receives tool calls |
| Approvals and authorizations (`tool-registry.js`, `state-store.js`) | one-time grants, policy authorizations, scoped approvals as streams of events, consumptions; the policy, settings and kill switch | `executeTool` up to the start of the handler; create, approve, decline, expire, cancel, revoke, consume | every outward tool call |
| Process claim lock (`process-claim-lock.js`) | a claim directory of `choosing.*` and `ticket.*` files, one fixed JSON record, quarantine files | `acquireLock`, `releaseLock`, each a series of system calls | the writers of installation-owned state |
| Agent host (`openshell-agent-host.js`, `openshell-tree-store.js`) | saved node, its message queue, its live session, a promise chain of operations per node | deliver, start, stop, restart, resume, assign, hand-over (`flushQueue`), provider events, `checkWorkers` | the manager, agents, their programs |
| Control delivery (`control-delivery.js`) | open tool-call boundaries, the delivery journal (saved), drain holds (saved) | `beginBoundary`, `endBoundary`, `checkpoint`, `status`, `release`, `available` | agent host |
| Ledger continuation (`ledger-continuation-controller.js`) | a run per worker: its tasks, the attempt that is open, progress, turns; saved with the node | enroll, tick, completed, pause, recover | agent host |
| Event backpressure (`agent-engine/event-backpressure.js`) | accepted events, the pump, pause and holds of the source | emit, hold, release, close; listeners, promises and hooks that return | the engine adapters |
| Messaging broker (`agent-comms/broker.js`) | one state file: spool with delivery claims, receipts, dead letters, hand-offs to a model, wakes | open, send, drain, wake, reserve and record a delivery, deadLetter, deferDelivery, acknowledge | agent host, message tools, the home node |
| Audit admission (`audit-admission.js`, `audit-admission-worker.js`, `recordBatch` of `audit.js`) | pending records, the batch in flight, worker requests, timer, retirement | `submit`, `drain`, `flush`, `recordToolMeterBatch`, `close` | every audited tool call |
| Audit ledger (`audit.js`, `audit-store.js`, `audit-retention.js`) | the chain and its boundary (SQLite), the vault's anchor, an intent file per process, the archive, the projections, the emergency spool | record, requireRecord, recordBatch; ingestion of the spool; reconciliation of the anchor, under the lock and without it; retention; `status`, `verify` and `flush` | admission lane, health poll, every process |
| Durable tasks (`state-store.js`) | rows of tasks, claims (`task_attempts`) and checkpoints | submit (one, bounded, batch), claim, start, heartbeat, checkpoint, complete, fail, cancel, reap | task tools, workers |
| Owner capture spool and proposals (`owner-capture-spool.js`, `r-ledger-proposals.js`) | one file per record, in `pending/` or `reconciled/` | writeAhead, accept, decline, annotate, recoverMisdiscarded | owner tools, the host page |
| Byte authority (`region-holds/byte-authority.js`) | the file, its resource row, observations of sessions, the prepared operation | observeRead, observeAbsence, recordExposure, applyPatch, applyWrite, recovery, closeLaunch | file tools of the host (`providers/host-control.js`) |

They meet as follows. A tool call enters through the scheduler; an outward one
passes the approvals before its handler starts. Around its body stands a
boundary of control delivery, which may steer queued messages into the running
turn and refuses new work while a drain hold is on. The body may submit or claim
durable tasks, read and change files through the byte authority, deliver
messages to other nodes through the broker, and hands its audit record to the
admission lane. The provider's events reach the host through a backpressure
boundary, and the end of a turn lets the continuation controller send the next
one. The lane and the other state writers exclude other processes with the claim
lock. The modules are separate because the components share no variable: they
meet through calls that are single steps of the called component (an SQLite
transaction, an append under the lock, a write of one state file, a delivery
into a queue). Agent host and control delivery do share state (the queue, the
session, the saved document), so one module holds both.

### What is hard about them, and what makes them correct

- *Scheduler*: promise continuations run later than the event that caused them;
  an abort, an arrival or another settlement may come between. Correct: order
  per lane, permits neither lost nor doubled, a truthful answer to a cancelled
  call, reads that never wait behind writes.
- *Approvals*: a call is judged, waits for audit records, spends something, and
  starts; the owner changes his mind, the clock runs, and another call spends
  the same approval. Correct: a handler starts with the leave that is asked for
  at that moment, and an approval serves once.
- *Claim lock*: every step is a system call of one of several processes, any of
  which may die. Correct: one holder, a crash never blocks the next process, a
  living process never loses its claim, an attempt ends.
- *Agent host and control delivery*: an operation awaits a program while tool
  calls, events, deliveries and holds go on; the program answers late, twice,
  out of order or not at all; the host restarts from its saved document.
  Correct: a message reaches the model once or somebody is told, the host's
  idea of the turn is right, each turn is reported once, a hold is a hold.
- *Ledger continuation*: the receipt of a turn is saved before the turn is sent,
  and the process, the save or the send may fail between. Correct: an attempt
  that may have run is found again before another is sent; one worker per task;
  no worker goes on for ever without progress.
- *Event backpressure*: one thread, but listeners and hooks call back in.
  Correct: every event once and in order, and a paused source has somebody who
  will resume it.
- *Broker*: a delivery is a claim, an awaited transport and a record of what
  came of it, while brokers of other processes open, send and drain on the same
  file and may die. Correct: an uncertain delivery is never repeated, the order
  of a recipient's messages is kept, nobody's live claim is taken, every state
  that is written can be read again.
- *Audit admission*: a worker thread that answers after its deadline, fails, or
  dies on either side of its commit; `close` during all of this. Correct: what
  was answered is written, in order; nothing is cut off; nobody waits for ever.
- *Audit ledger*: several processes write one database, and beside it files and a
  vault that no rollback undoes: the anchor is stored before COMMIT, projections
  are written under a transaction that may fail, rows leave for an archive.
  Correct: a record is there once, or spooled and not lost; the archive is the
  beginning of the chain; an anchor that names a row which was never committed
  can be told from tampering; a ledger that refuses records recovers.
- *Durable tasks*: workers vanish or report with an old claim; leases pass;
  cancellation races a report; reaping happens only inside claims. Correct:
  executions are bounded by the expiry policy, old claims change nothing,
  cancellation wins, no claim is stuck.
- *Capture spool*: a move is a copy and a removal, with crashes and other
  custodians in between. Correct: only a decision takes a record out of
  `pending/`, and a record is always somewhere.
- *Byte authority*: two sessions, somebody who edits the file directly, and a
  process that dies between the publication of bytes and its record. Correct:
  an observation that counts says what the bytes are, though patches move it;
  nobody replaces what he has not seen, as far as it was there to be seen when the
  file was last looked at.

The full list of components is in PROJECT.json (`components`), with the reason
for each that is not modelled; `hazards` lists what is hard to test, at its
line, with the properties about it.

### The components that are not modelled

| component | what there is | why not |
|---|---|---|
| Home node, fabric, directories (`agent-comms/home-node.js`, `fabric.js`) | which machine owns a thread, what a reader has read, a reconciliation queue | its messages end in `Broker`; the rest is lookups and single document writes; next in the plan |
| Owner requests, owner ledgers and their gates (`owner-request-store.js` and others) | one JSON document each, under the shared write guard | one writer at a time, little control; the spool that feeds them is `CaptureSpool` |
| Other tables of `state-store.js` | memory, operation records, circuits, scheduler, profiles | one transaction per call; operation records and circuits are in the plan |
| Liveness receiver (`agent-wake/liveness-receiver.js`) | last accepted report per node | a small table, in the plan |
| Fleet supervisor lock (`fleet-supervisor/state.js`) | a lock file with reclaim of dead holders | `withState`, its one entry, has no caller in `src/`; `ClaimLock` models the lock that is used |
| Worker runtimes (`worker-runtime*.js`) | ownership records of started processes | process I/O for the most part |
| Engine adapters (`agent-engine/*-adapter.js`) | line protocols of external programs | `AgentHost` has their two kinds from the host's side: call, answer, events, end |
| Audit checkpoints, maintenance guard | signed checkpoints; a guard that stops writers during a repair | cryptographic; no protocol beyond the calls of `AuditLedger` |

The rest (policy, registry, settings, vault, recall, installers, views, text
helpers) is pure decision, table or process I/O without interleavings of its
own; each has its entry in PROJECT.json.

## 2. The models

Definitions keep the names of the functions they model where they can; the
`map` of PROJECT.json gives the lines of each. Operators that begin with a
comment `Mutation:` are not part of a model: each is a plausible mistake in the
definition after it, and the property named in `mutants` fails when the mistake
replaces the definition.

### Subsequences

`Subsequence(q, positions)` is what `Array.filter` leaves of a sequence: its
elements at some positions, in their order. It says what `SelectSeq` says;
`SelectSeq` is recursive, and nothing could be proved about a model that uses it.

### DispatchScheduler and OrderedDispatch

One call of `run` is a task with a phase (`pc`). `tail` is `laneTails` and
`exclusiveTail`, `pred` the promise a task chained on, `active` and `waiters` the
two semaphores, `answer` what the caller's promise settled to. Every promise
continuation is an action: `SkipCancelled`, `ReachWrite` and `StartChained` when
the chain reaches a task, `StartGranted` after a permit, `Release` in the
`finally`, `DropTail` in the cleanup of a settled tail. `Abort` has one case per
place in which the signal can be aborted. A tool body is its end (`Finish`).
`Serial` is `tools.throughput = strict`.

`OrderedDispatch` is the header comment of the file without promises: lines,
pools, withdrawal. The refinement mapping (`StageOf`) calls a task "queued" until
its body runs, and "running" until its permit is back; a call that was answered
"cancelled" is withdrawn when its scheduled promise settles.

### ClaimLock

An attempt's `pc` is the system call it does next. The claim layer is the bakery
of `createClaim`: `PublishChoosing`, `ListForTicket` and `CountTicket` (readdir,
then one lstat and read per name), `TakeTicket` or `Overflow`, `DropChoosing`,
`List`, `ReadClaim`, then waiting, judging and passing over. The status layer is
`publishCompatibilityStatus`: `Observe`, `Classify`, `Confirm`, `Move`,
`CheckMoved`, `Restore`, `Publish` (link(2)), `Verify`. `releaseLock` is
`ReadOwnStatus`, `Withdraw`, `CheckWithdrawn`, `Unlink`, `RemoveDirectory`.
`Crash` leaves all files. `Verdicts` is what the OS may answer about a process:
the truth, or "uncertain" when `ProbeMayFail`; process identities are unique, as
PID and start time are. Ghosts are attempts of processes that died earlier; what
they left is any of the states a crash can leave. Time is `patience`: the
deadline for choosing claims passes, then the one for earlier tickets.

### AgentHost

One node. `chain` is the node's promise chain of operations, `stage` where the
operation at its head awaits; everything else happens between these awaits.
`live` is the session with its generation, submission, named turn, buffered
completion and attempts; `disk` is the saved document, `provider` the worker's
program, `promises`, `events` and `steering` what is under way between the two.
`FlushQueue` and `HandedOver` are the two halves of `flushQueue` around its
await, `Submit`, `TurnStarted`, `TurnAccepted`, `TurnRefused` those of
`submitTurn`, `StartSession`, `Launched` and `FirstTurn` those of a start.
`OnCompletion` is `onEvent` for a completed turn, `TurnFailed` a promise that
rejects, `CheckWorkers` the periodic test of dead programs. `BeginBoundary`,
`EndBoundary`, `Steer`, `SteerAccepted`, `SteerUnknown`, `Checkpoint`, `Release`
and `Drained` are control delivery. `Crash` ends the host's process and starts
it again from `disk` (`settleLoadedTree`). A failed save is part of the action
that saves (`SaveLost`).

Two kinds of adapters are told apart by `provider.event`: a program whose answer
to `sendTurn` is the whole turn, and one whose answer only says that the turn
was taken (the only one that can be steered). `sent`, `gone`, `steered`, `taken`,
`cargo` and `disowned` are history, as is the mark `protected` of an open tool
call: they record what happened to each message and each turn, and no guard
of the host reads them.

`TurnRefused` is every way in which `submitTurn` throws: the program refuses the
turn, it is gone, or it has taken the turn and the answer cannot be used, because
too many events came before it or it names no turn (`bindSubmittedTurn`). In the
last case the host calls its worker idle while the program works, drops the
completion when it comes, keeps the batch queued and hands it over again; an
adapter that still follows the old turn refuses the new one (`TurnActive`).
`disowned` has these turns, and those the host was lost under while it waited for
their answer. Three properties name them as their exception: `HandedOnce` does
not count the copy that such a turn carried, `TurnsKnown` lets an idle worker's
program work on one, and so does `HoldsKept`.

`HoldsKept` says that under a hold nothing begins, be it a turn, a session or a tool
call that is protected work; that nothing is in flight once a held worker reads as
drained; and that it stays drained until the hold is released, its session moves on
or a call that is not protected opens. It has another exception, `GivenUp`. When the
answer to `sendTurn` of a worker of the second kind fails in doubt, `turnFailed`
forgets the turn and queues the end of the session; until that operation runs,
`status` reads the worker as drained although its program still works on the turn
(`openshell-agent-host.js:1178-1206`, `control-delivery.js:227-247`).

### ToolApproval

A call is where it stands between two awaits of `executeTool`: `Arrive` up to the
durable intent, `Judge` up to the record of the policy decision, `ConsumeGrant`,
`UseStanding` or `RefuseToken` where the policy asks for a one-time approval, has
a standing one or asks for nothing, then `requireP13Decision` (`DecideScoped`,
`DecidePlain`, `DecideNothing`) and `Start`, the last checks before the handler.
Every operation of the store is one transaction and one action: `CreateGrant`,
`Authorize`, `CreateScoped`, `Answer` (the owner approves or declines what he was
shown), `Expire`, `Withdraw`. `ChangeRules` is the policy file, the setting and
the kill switch; `Withhold` is the end of the task or the revocation of the
profile behind an authorization. `Fail` is everything that ends a call early. A
scoped approval is its stream of events, as in the code, and `Latest` decides.

### LedgerContinuation

`run` is `node.continuation` in memory, `disk` the same in the saved document,
`turn` the worker's session, `unresolved` the turns that were sent and whose end
no record shows (history: the code does not have it, the properties compare it
with what is on record), and `withdrawn` whether the manager has asked to disable
a run (history as well). `Save` writes or fails, in which case the run pauses in
memory. `Ticks` is `tick`, with one action per return of it, and is also the last
part of `Enroll`, `completed` being `TurnSucceeds` and `TurnFails`. `Restart` is
`recover`. A task's `stamp` stands for the fingerprint of its record: progress is
a change of the record. Turns are counted only under a budget, where the count
is read. `TurnsOnRecord` says of turns that are unresolved on one task at the same
time that there is one, unless a run was withdrawn: `disable` does not end the
turn that its worker is at, and the task may be given to another worker.

### EventBackpressure

`pump` is the place at which the pump's loop has handed control to somebody
else: the listeners (`dispatch`), a promise of theirs (`wait`), the hook that
resumes the source, inside the loop (`resume`) or after it (`resumeLast`). While it
stands there `Emit`, `HoldSource`, `ReleaseSource` and `Close` may happen, because
listeners and hooks call them; the pump's next step starts from what they left.

### Broker and MailboxQueues

The state file is the six variables of `file`; every mutation of it is one step,
made under a lock that `ClaimLock` models. An operation of a broker is `pc`: `Send`
and `List`, or `Drain`, make a snapshot, and the entries of it are taken one by
one: `Skip`, `RequestWake` and `WakeAnswered`, `Reserve` (claim and call of the
transport) or `ReserveRefused`, then `Delivered`, `NotDelivered`, `Unsure` or
`RecordFails`. `Open` is `createBroker` with its sweep over the stored state.
`DeadLetter`, `DeferDelivery` and `Acknowledge` are the host's hand-over to the
recipient's model. `Disposition` is what `reconcileDeliveryClaim` finds out about a
claim, where `blind` are the processes whose identity cannot be read. `air` and
`landed` are the world: what the transport may still deliver, and what arrived.
`MutationFails` is a lock that is not had or a write that fails.
`NoClaimAssumption` keeps the value that stands for a missing claim apart from
the claims, as `null` is.

`MailboxQueues` is the promise without claims and files: a queue per recipient,
only its head is offered, and never again if it may have arrived. The refinement
names a letter by its sequence.

### AuditAdmission

`pending`, `batch` (the one in flight), `timer` and `ticks` are the queue of
`submit` and `drain`; `thread`, `waiters`, `replies` and `nextId` are the worker
thread and the requests sent to it; `closing` is `close()`. A batch goes to the
thread (`StartBatch`, `ThreadAdmits`, `Reply`) or, when the thread cannot be
started, is broken, answers with an error, exits (`Exit`) or is late
(`Timeout`), is admitted on the calling thread (`FallBack`), which is one step
because nothing interrupts it. `LeftBehind` is what a dying thread may have
committed. `Keeps` and `Written` are what `recordBatch` and `appendEvent` do to
the event ids of a batch: only named records of a batch of several are
recognised when they come again.

### AuditLedger

An event is its record's number and the hash of a row is the sequence of events
up to it, because a hash covers the one before. `db` is what is committed, `tx`
what the open transaction sees and `writer` whose it is; a rollback is
`tx' = db`. Everything else stays when a transaction rolls back: `anchor` (the
vault), `intents` (each process's `<pid>.json`) and `orphans` (those of processes
that are gone), `archive`, `projection` (the two files are one here, with the
window they begin at), `spool` and the renamed `ingests`. `work[p].at` is where a
process is in `record()`: `TakeSpool`, `Drain` and `Unlink` are `ingestEmergency`;
`VerifyPasses`, `Lock` or `LosesRace` the verification outside the lock and the
comparison of its witness under it; then `Reconcile`, `AppendRecords`,
`WriteIntent` and `StoreAnchor`, `Project`, `Archive` for each row that leaves,
`Rebuild`, `Commit`, `ClearIntent`. `witness` has the processes whose
verification still describes what is stored: whatever else is written empties
it. `Throw` is what an error does: the transaction rolls back and the record goes
to the spool (`Spool`). `Fails` is a step that throws, COMMIT included;
`Crash` a process that dies and comes back under another pid.

The health poll is `status()`, then `verify()`, then perhaps a forced `flush()`,
each of which takes in the spool first. `verify` reconciles the anchor under the
lock (`Inspect`). `status` and `flush` do so without it, so their
reconciliation is several steps and another process may be in the middle of an
admission: `Look` reads the anchor, the rows and the intents, `StoreSeen` moves
the vault's head to the last row that was read, or finds a later one there,
and `ForkConsumed` removes the file that proved a fork, by its name. What `Look`
takes for a rollback may be an anchor that was stored a moment ago and whose rows
are not committed yet (`LookAlarms`, `StoreRefused`); the poll then reports what
it saw, and nothing is changed. `Heal` is the flush once it has the lock.

### TaskQueue

Every operation is one immediate SQLite transaction and one action. A row's
`timer` is what is left of its lease or of its delay, so a lease has passed
when it is 0. Any worker may call any operation with any claim (`fence`) it was
ever given, at any time; `lost` are tasks whose worker will not call again.
`Claim` reaps the expired claims of its queue first, as `claimTask` does.
`begun` is `started_at_ms` of each claim. What is left open: the order in which
`claimTask` prefers tasks (priority, then time), the smaller queue limits of
`submitBoundedTask` (the model accepts all that it accepts), and how the clocks
of two leases relate. A claim that asks for task types and finds none of them
only reaps its queue, which is a case of `Reap`.

### CaptureSpool

`pending` and `reconciled` say which outcome the file of a record states there, or
that there is none. A custodian does one file operation per step: `Find`, `File`
(the ledger takes the words), `MarkReconciled` or `MarkDiscarded` (the settled
copy), `RemovePending`; `ListMisdiscarded`, `Restore` and `RemoveReconciled` are
`recoverMisdiscarded`, for the records of `Misdiscarded` an initial state says were
put away by mistake. `Abandon` is a step that failed or a process that died.

### ByteAuthority

`record` is the resource row, `reads` the observations with the bytes they stand for
(the code keeps digests), `op` the prepared operation, `staged` that the file is the
very one the pending creation linked. `Establish` is what every operation does
first: bytes that changed without the authority make all observations useless. A
write is `ApplyPatch` or `ApplyWrite` (prepared), `Check` (the file is read once
more and compared with the base), `Publish` (the rename) and `Confirm`. `Edit` may
come between any two of them, so that a rename replaces what was written since
`Check`, which nothing detects; `ObservationsKept` says so: what is replaced was
seen, but for what came in that window (`raced`, a history). `LeftPrepared` is a
process that dies or gives up on the way and `Recover` what the next operation
finds. `wholeFileName` says whether the file has one of the names of
`WHOLE_FILE_NAMES` (lockfiles), where a patch leaves no observation of another
session current; nothing changes it. `Rebase` moves and cuts observations after a
patch. `Edit` is anybody who goes round the authority.

### MCAudit

The lane and the ledger in one run; the initial state chooses the one that
moves (`component`). A batch is one step of the lane and many of the ledger, and
they share nothing else.

### MCProtocols

Five small modules in one run: the initial state chooses the one that moves
(`component`), the others stay in one initial state. The spool may move in two
ways: two custodians with nothing put away by mistake, or one who recovers what
was.

## 3. The runs

| run | what it asks | instance | distinct states |
|---|---|---|---|
| `dispatch` | permits, order, cancellation, the refinement, liveness | 3 calls of two agents (a read, a write per agent, an exclusive and a control tool, in every combination), one permit per pool, every abort | 65,070 |
| `claim_two` | exclusion and the claims of the living; where identification works, attempts end, a lone one acquires and the holder's record stays | 2 attempts, 1 ghost, `MaxTicket` 2; both may die at any call and identification may fail, or (`certain`) one may die and it works | 491,945 |
| `claim_three` | exclusion with three attempts (violated) | `RaceSpec`: some behaviours of `Spec` | counterexample of 42 states |
| `host_courier` | messages, reports, the operation chain, with liveness | 2 messages, batches of one; an app-server worker, one refusal, one turn taken and given up, an assignment and an exit; or a whole-turn worker, a stop and a restart | 209,694 |
| `host_control` | steering, holds, drain, restart, late and missing events | both kinds of adapters; 2 tool calls open, a hold, a resume, a lost save, an answer that cannot be used, a crash of the host, or a restart, a refusal and an uncertain turn, also under a hold | 2,082,773 |
| `host_overflow` | nothing disappears unannounced, with reports (violated) | 2 messages and a notice, 2 places in the queue | counterexample of 14 states |
| `audit` | lane: durability, order, duplicates, close, liveness; ledger: rows, archive, the proof of forks, recovery | lane: 3 records (2 named), batches of 2, a meter request, two closes, 4 calls; ledger: 2 processes, one of them polling, up to 4 records, a window of 1, 1 crash or failure | 913,619 |
| `audit_identity` | an event id survives the queue (violated) | 2 records | counterexample of 3 states |
| `audit_fork` | a fork can always be proven (violated) | the ledger of `audit` | counterexample of 38 states |
| `tasks` | executions, checkpoints, cancellation, stuck claims | one task safe to retry and one not, 3 claims each, 2 attempts, leases up to 2, 2 checkpoints | 162,674 |
| `broker` | once, in order, readable; the refinement; operations end | 2 messages to 1 recipient, 2 brokers in one process or in two, 1 crash, failed mutation or wake, one receipt and one dead letter kept | 148,384 |
| `protocols` | continuation turns, events, spool, byte authority, approvals | one component at a time, see below | 559,986 |

Why these bounds reach the interesting cases:

- *dispatch*: with one permit per pool the second call waits and the third is
  behind a waiter; three writes of one lane are a tail that is dropped while a
  later task has replaced it. More calls repeat these situations, and the
  invariants are proved for any number. Serial mode is in the proofs.
- *claim_two*: `MaxTicket` 2 lets an attempt meet the exhausted counter with a
  ghost's ticket below it and a living one at it. Two attempts suffice for each
  system call to be overtaken; that they do not suffice for everything is what
  `claim_three` shows.
- *claim_three*: the attempts meet at two points and no deadline passes. Each
  step is a step of `Spec`, so the counterexample is one of `Spec`.
- *host_courier*: `MaxHeld` 2 with batches of one makes a full queue and a rest
  that needs a second hand-over; a refusal and a turn that was given up are the
  two attempts that `Attempts` allows, so that the batch is set aside. For a
  whole-turn worker a restart is what ends a session under a prompt that is not
  read, and leaves promises and events of the old session; refusals, holds and
  uncertain turns of such a worker are in `host_control`.
  `MaxTurn` is above what the limited inputs can submit.
- *host_control*: `Limit` says how often the environment does each thing; every
  input occurs, alone and with the others of its driver. Messages and requests
  are interchangeable, and the run checks no liveness, so symmetry is sound.
- *audit*: two of three records fill a batch, the third waits behind it; two
  closes are a failed one and its retry. In the ledger, a window of 1 with a slack
  of 1 rolls at the third row and again later, where the code keeps 100 events
  at least; `AnchorEvery` 2 stands for 31 rows, so that there are admissions with
  and without an anchor. Two processes fork a chain, and a single fault
  (`MaxFaults`) at any step leaves what they have to get over. The number of
  retries after a lost race is left open (32 in the code). The limit on how far
  a projection may be ahead (1024 lines) is above what a transaction writes.
- *tasks*: three claims are two executions and a claim that never started; two
  leases let one pass while the other is renewed. `MaxFence` bounds the claims
  of one task; the fence of the code is bounded by the safe integers.
- *broker*: the second message stands behind the first, whose delivery may be
  certain, refused or uncertain; the other broker meets the claim of the first
  alive, dead or unidentifiable. Retention of one makes a second receipt or dead
  letter displace the first. `MaxIncidents` 1 is one thing going wrong, at any
  place; `MaxSequence` 3 lets a message be sent once more after it was settled.
- *protocols*: continuation with 2 workers over 1 task, budgets of two turns and
  none, one change of the record, one failed save. Events: 3, so that one is
  queued behind one that waits behind one being dispatched; 2 holds at once.
  Spool: 2 records, one put away by mistake before; a record is filed at most 3
  times. Bytes: files up to 3 bytes of 2 kinds, 2 sessions, 2 observations each.
  Approvals: 2 calls with equal or different arguments, 1 grant, 1
  authorization, one tick of the clock and one change of the rules.

`CHECK_DEADLOCK FALSE` is in every configuration but that of `broker`: those
systems stop when their bounded inputs are used up, which is not a deadlock. That
nobody waits for ever is what the liveness properties say. In `broker` somebody
can always open or drain, so there deadlock is checked.

### Fairness

- *dispatch* (`FairSpec`): continuations run, because microtasks always do, and
  the bodies of reads end. Nothing is assumed of other bodies, since that a read
  never waits behind a write is about writes that never end; the part of
  `CallsAnswered` about every call assumes `BodiesEnd` in its own premise (tools
  have their timeouts).
- *claim_two*, where identification works: `acquireLock` is synchronous, so an
  attempt goes on until it returns, and time passes. Nobody is assumed to release
  the lock or to start an attempt.
- *host_courier*: the host's operations run; the worker's program takes turns,
  answers and completes them, unless it exits; its events arrive; `checkWorkers`
  runs (it is an interval). That operations end (in `CourierProgress`) depends on
  the answer to `sendTurn`, for which the code has no deadline: hazard at
  `openshell-agent-host.js:1149`.
- *audit*: timers and messages of the calling thread run, `terminate` settles,
  and every request reaches its timeout if nothing answers. Nothing is assumed
  of the worker thread. A process that writes the ledger goes on, since all of
  `record()` is synchronous, and one process looks at the ledger's health, which
  `system-status.js` does on a timer. Nobody is assumed to record anything.
- *tasks*: some worker goes on claiming from each queue, time passes for the
  leases of workers that are gone, and a worker that is told of a cancellation
  acknowledges it. The first is an assumption about the deployment: reaping is
  lazy (`state-store.js:3489`) and `reapExpiredTasks` has no caller of its own.
- *broker*: an operation that was begun goes on, which includes that the
  transport answers: `deliver` is awaited without a deadline, so an endpoint that
  never answers keeps its operation (and its claim) for ever.
- *protocols*: the continuation's interval ticks, a turn that was sent is answered
  and ends; the pump's listeners and hooks return and the promises it awaits
  settle. Nothing is assumed of the owner, of sessions or of custodians.

### What the violated runs show

- `claim_three` (`process-claim-lock.js:695`). The fixed file is renamed after a
  compare another process can outdate. Three attempts past the claims and one
  dead record are enough for two holders. Past the claims three attempts come
  through a gap of `scanClaims`: between its readdir and its look at a
  `choosing` file the owner may replace that file by a ticket, and the scan sees
  neither. The gap alone is harmless for two attempts (`claim_two`), because
  link(2) excludes them.
- `host_overflow` (`openshell-agent-host.js:935`). The batch is removed by
  position after an await in which a full queue dropped its head.
- `audit_identity` (`audit.js:4129`). A batch of one loses its event id.
- `audit_fork` (`audit.js:1889`). A process fails to commit after it stored its
  anchor, another takes the place in the chain, and the first records again: its new
  intent replaces the file that proves the fork, before the new anchor is stored,
  and that same file is then removed as the consumed proof, before the new row is
  committed. The comment at `audit.js:1920` says the proof stays until the anchor
  has moved. A second fault before COMMIT leaves an anchor nobody can explain, and
  every record is refused. `ProofKept` names this as `Overwrites` and
  `StoresUnproven`, and one way more, `RemovesNewer`: a reconciliation without the
  lock has read the fork, stores the anchor, and removes the file by its name when
  its process has already named its next event in it (`audit.js:1847`, `1922-1925`).
  There is no fourth.

### Seen while modelling

These have no run of their own; some are excluded by name in a property, which
then says so.

- *Claim lock*: a record that was moved aside by mistake is put back after its
  owner released the lock, so the fixed status file stays (`process-claim-lock.js:679`;
  the comment at 814-817 says that does not happen). `restoreQuarantine` renames
  over whatever was published meanwhile (part of `Restore`). A receipt whose
  commit fails leaves the claim of a living process, which nobody may take.
- *Agent host*: after a restart the queue is tested for emptiness before accepted
  messages are retired from it, so a turn may be sent with nothing in it
  (`openshell-agent-host.js:919`). A message whose hand-over was refused waits
  for the next message or turn end, which is why `CourierProgress` excludes
  workers that refused a turn. When the answer for a turn the program works on
  cannot be used (`openshell-agent-host.js:989-994`, `1099-1107`, `1154-1161`), the
  host takes its worker for idle, the turn's end is dropped and never reported,
  and the batch is handed over again; after the last attempt the parent is told
  that it could not be handed over, though the program has it.
- *Audit ledger*: after a crash between the projection and COMMIT, and another
  event in that place, admissions are refused as "not-a-continuation" although an
  intent names the fork and `audit.js:1868-1879` says it is healed; the health
  poll's forced flush gets the ledger over it (`LedgerRecovers`). A commit that
  fails after `rebuildProjection` leaves a projection whose window begins later
  than the ledger's, with the same effect, and a reader sees it like that between
  the rebuild and COMMIT. `status` and `flush` that meet another process between
  its anchor and its COMMIT report an anchor ahead of the ledger, which looks like
  a rollback and is none (`audit.js:3457-3465`).
- *Tasks*: a completion of an uncertain task whose cancellation was requested is
  refused with the advice to acknowledge with disposition `cancelled`
  (`state-store.js:90`, `3952`), which `failTask` then refuses as well (`4005`).
- *Continuation*: disabling a run that is disabled already, with a save that
  fails, leaves it `paused`. Disabling a run leaves its turn at work, and another
  worker may then be enrolled for the task and sent a turn on it
  (`ledger-continuation-controller.js:45`, `57-61`, `86-87`).
- *Broker*: `deadLetter` accepts a message whose receipt is confirmed already
  (`agent-comms/broker.js:1755-1787`).
- *Capture spool*: with two custodians, one of whom restores misdiscarded records,
  a record can end in neither directory (`owner-capture-spool.js:44-46`, `393-399`).
  `recoverMisdiscarded`, `markUnfiled` and `annotatePending` have no caller in
  `src/`. A crash between the filing and `markReconciled` files a record twice.
- *Byte authority*: an edit past the authority between the preparation and the
  publication leaves the operation prepared until the old or the new bytes come
  back. One that falls between the last read and the rename is overwritten unseen
  (`providers/host-control.js:991-994`). `recordExposure` after such a crash makes
  the file refused; it has no caller in `src/`.
- *Backpressure*: a source that was paused stays paused when its boundary is
  closed with a hold on.
- *Approvals*: nothing in `src/` creates or decides approvals; in the model those
  steps are the environment's. A grant or an authorization is spent even when the call
  is refused afterwards.

## 4. The proofs

Each proof module states its theorems for every value of the constants, from the
assumptions the component's module names (`TLC` evaluates these too). Every
safety invariant, action property and refinement that a passing run checks has a
theorem.

| module | theorem | property |
|---|---|---|
| `DispatchSchedulerProofs` | `TypeCorrect`, `PermitsCorrect`, `OrderCorrect` | `TypeOK`, `PermitsExact`, `OrderKept` |
| | `Refinement` | `ImplementsOrderedDispatch` |
| `ClaimLockProofs` | `Types`, `KeepsLiveClaims` | `TypeOK`, `LiveClaimsKept` |
| | `TwoExclude`, `ExclusiveWhileNobodyDies` | `MutualExclusion`: of two living attempts; of any number while nobody has died |
| | `CertainKeepsRecord` | `CertainRecordKept`, of two living attempts |
| `AgentHostProofs` | `Typing`, `KnowsTurns`, `SteeringIsFinal`, `HoldsHold`, `HandsOverOnce` | `TypeOK`, `TurnsKnown`, `SteeringKept`, `HoldsKept`, `HandedOnce` |
| | `NothingIsLost` | `NothingLostSilently`, of messages only |
| | `NoWakeUpLost` | proved only: the safety core of `CourierProgress` |
| `AuditProofs` | `KeepsLedger` | `LedgerKept` (the lane) |
| | `ForgetsNobody` | proved only: the safety core of `EverybodyAnswered` |
| | `KeepsRecords`, `ArchivesExactly`, `KeepsProof` | `RecordsKept`, `ArchiveExact`, `ProofKept` (the ledger) |
| | `Typing` | `TypeOK` of both |
| `TaskQueueProofs` | `TypesCorrect`, `ExecutionsBoundedAlways`, `CheckpointsFencedAlways`, `CancelRespectedAlways` | those the run `tasks` checks |
| | `OutcomesFinalAlways`, `LiveLeaseKeptAlways`, `QueueBoundedAlways` | proved only |
| `BrokerProofs` | `Types`, `KeepsFile` | `TypeOK`, `FileKept` |
| | `Refinement` | `ImplementsMailboxes` |
| `ProtocolProofs` | `TurnsCorrect`, `OrderCorrect`, `SpoolCorrect`, `ApprovalsCorrect`, `KeepsObservations` | `TurnsOnRecord`, `EventsInOrder`, `SpoolKept`, `ApprovalsHold`, `ObservationsKept` |
| | `ContinuationTypes`, `BackpressureTypes`, `SpoolTypes`, `ApprovalTypes`, `BytesTyped` | the types of the five modules |
| | `Typing` | `TypeOK` of `MCProtocols`, from these |

**Scheduler.** Assumed: positive limits, calls of known kinds on known lanes; any
number of tasks, lanes and permits, both modes. `OrderKept` is not inductive: that
a lane has reached a task says nothing of the tasks before its predecessor.
`ChainsInOrder` adds what the links guarantee. Between a chained task and the
predecessor it found lies nothing of the chain that is not over, and a
predecessor that is over has everything before it over (`LinkOK`); a tail is the
last task of its chain that is not over, and a chain without a tail is over
(`TailOK`); a task past its chain has everything before it over (`Behind`).
The permit count needs that waiters are distinct waiting tasks of their pool
(`WaitersWait`), the order of reads that a pool's waiters stand in the order of
their arrival, and cancellation that whoever was answered "cancelled" was aborted
before it ran (`CancelledIsAborted`). `IInv` is their conjunction with `TypeOK`;
`Reachable` adds the permit properties, and each has a lemma that says every
step keeps it. `Refinement` goes through the actions with it: each is a step of
`OrderedDispatch` under `StageOf`, or leaves the image as it is. That a call
starts only when its line is free before it is `Behind` again, that a pool has
room is the permit count, and that a withdrawn call stays withdrawn needs that
its answer was given to an aborted call (`AbortAnswered`).

**Claim lock.** Any tickets, any number of dead leftovers, deaths at any call. That
only its own steps remove a living attempt's claims follows from the types alone: a
verdict "stale" is only given about the dead. Exclusion does not follow from the
claims (`claim_three`); the fixed file gives it. `TwoInv` says of two living
attempts what one is at while the other holds: it is not yet at the file, or has
lost, or finds the holder's record, or has it in its hands and will compare it
(`Shut`). The hypothesis `AtMostTwo` is that of attempts that did not begin as
leftovers there are two, and it is needed: with three the same claim is false. For
any number of attempts `OrderlyInv` says that while nobody has died no attempt gets
as far as moving a record, so that the record of a holder stays where it was
published. `RecordInv` (with `ProbeMayFail` false, as in the `certain` behaviours of
`claim_two`) says where the holder's record is: only one dead record was ever there,
so what an attempt has moved aside is the record it observed, or the holder's, which
it will bring back.

**Agent host.** Any messages, notices, tool calls and bounds, both kinds of
programs. `HostInv` is the types, where the operation at the head of the chain
stands while it awaits (`Flow`: what an await may rely on when it goes on), and that
whatever is anywhere was delivered (`Known`). `TurnInv` adds that numbers are given
to submissions once and only the one that has no report yet can be reported
(`Numbers`), that an event or an early completion speaks of a turn the program has
left (`Ended`), and that the host's record and the program's turn agree unless the
session is given up (`Knows`): `TurnsKnown` is its consequence. `Named` says of
steering that what was steered is in the journal and in the saved one and in no
batch; with the others it gives `SteeringKept` and `HoldsKept`. `Single` is about
hand-overs: no two batches that were taken share an item, and an item of one is
still in the queue only while that very batch is being taken, and then among the
places that are about to be removed. It speaks of the turns the host still follows
or has followed to their end (`Handed`), which leaves out the `disowned`: what they
took stays queued and is sent again, while an item steered or removed after it was
handed over never comes back. `Saved` says the same of the saved queue, since the
host that comes back hands that over. `CallsAre`, `StaysIdle` and `StaysResolved`
carry `HoldsKept`: which steps begin something, and that none of them makes a
drained worker busy. `Whole` says that every item is in the queue (and in the saved
one), or somebody knows what became of it, or the program of a submission that was
not reported may still read it (`Unreported`, in `Accounted`), and that the batch
stays at the front of the queue while its turn is being sent (`AtFront`). `Promised`
adds that the host still waits for an unread submission of a whole-turn worker as
long as the session lasts, so that an unreported one without a promise is one whose
session has ended. That is the exception `NothingLostSilently` names
(`LostWithItsSession`): for such a worker the batch leaves the queue before it is
read, and `turnFailed` returns at the stale generation
(`openshell-agent-host.js:1168`). `cargo` forgets the items of a submission that was
refused, so that the exception does not excuse a refused batch. The hypothesis of
`NothingIsLost`, that there are no notices, is needed: with notices a full queue
drops its head under the batch, which is `host_overflow`.

`NoWakeUpLost` says what `CourierProgress` rests on and no fairness can repair.
`flushQueue` drops its round whenever the worker is not idle, and only `deliver`,
the end of a turn and a resume ask for another: `HandOverComes` says that an idle
worker with something in its queue has a round (or its first turn) ahead of it,
unless a turn was refused, was given up or remained without an answer, a hold was
asked for (`release` starts no round either, `control-delivery.js:266`) or a
delivery is in doubt. `WaitsForProgram` says that a turn the host takes for running
is being sent, is worked on, or has an event or an answer under way, although
`onEvent` drops what does not name the turn and the answer of `sendTurn` and the
events of its turn come in any order. It follows from `Awaited`: what the program
has taken it works on, or an event says that it ended, or the event was kept; and a
turn without a name has its answer to come. `Owned` is needed so that an older
failing promise does not end it, `Busy` so that steering and doubt concern running
turns only.

**Audit, the lane.** Any records, calls, batch size, with the thread and without.
`LedgerKept` is not inductive: a late answer, a death or a fallback makes of the
ledger what the messages under way allow. `LaneInv` says that what has no answer is
in the batch or queued behind it (`Queued`), that requests are answered in the order
of their numbers and at most once (`Numbered`), that a request of the batch in
flight carries this batch and an answer "durable" to it is true (`Messages`), that
what was answered is in the ledger in order (`LedgerOK`), that without a fallback
only the batch in flight can be written, once (`Unrepeated`), and what `close` may
rely on at each of its stages (`Closes`). `ForgetsNobody` needs `Awoken` beside it:
what is queued has a batch before it, a timer callback or a flush, and `close` waits
for a request that is open. Since every open request has a deadline (`Timed`),
nobody waits for something that nothing ends; with a deadline for batches only, or a
timer that `drain` does not arm again, it fails.

**Audit, the ledger.** Any number of processes, records and faults, any window and
slack. `LedgerInv` has seven parts: types and the lock (whoever works on the open
transaction holds it), what a process carries and has decided at each step of
`record()` (`WorkOK`), what the open transaction has added to the committed ledger
and what it will archive (`TxOK`), that the archive is the beginning of the chain
and reaches past the boundary (`ArchiveOK`), where a record is before it has a
row, and that it is in one such place (`RecordsOK`), that an intent belongs to
one process and names the chain that it is about to anchor (`IntentsOK`), and that
what a reconciliation without the lock has read stays a beginning of the chain,
and once it has stored its anchor, the anchor is a row or of a later event (`SeenOK`).
`RecordsKept` and `ArchiveExact` are consequences of the state, `ProofKept` of the
step: an anchor loses its proof only if the anchor moves or an intent file does,
and for each step that moves one the invariant says what it leaves.

**Tasks.** Assumed: finitely many tasks, limits that are natural numbers. The
inductive invariant speaks of one task at a time. `Good` says that the row,
the claims, the starts and the checkpoints of the task have their types
(`Typed`), that the claim of a held or uncertain task has the row's status
(`Agrees`), that `attempt` is the number of claims that were started and the
fence is above them all (`Counted`: this is what bounds executions), that a task
not safe to retry waits or is leased only before its one execution (`Once`),
that a cancelled task neither waits nor succeeded (`Stopped`), that only tasks
that wait or are held have a timer (`Quiet`), and that checkpoints are ordered
by fence and come from started claims (`Chained`). `ExecutionsBounded` alone is
not inductive: it does not exclude a started claim that `attempt` has not
counted. Every operation writes one task (a claim also reaps others), so each
lemma shows that what an operation writes is good, and three assembly lemmas
put the tables together.

**Broker.** Any messages, agents, brokers, processes, rosters and retentions, any
number of restarts and failures. The logs of the state file are seen as sets of
rows, of which no two are the same message (`Valid`, `Distinct`). `FileKept`
becomes inductive with: no message of the spool, of the dead letters or of the
hand-offs has a receipt that would refuse it; what a drain remembers of an entry
is true of the entry while there is one (`Remembers`); and a broker in the
middle of an attempt finds its claim (`OwnedOne`). `Refinement` needs
`OrderInv` beside it: the spool and every snapshot rise by sequence (`Rising`), a
sequence given out is below the next (`Fresh`), an entry that may have been
handed over is claimed or uncertain (`Attempted`), and while a recipient is not
blocked in a drain every older message for him that is still in the spool is in the
rest of the snapshot (`Ahead`, `Unblocked`). A queue of `MailboxQueues` is then the sorted
sequence of a set of sequences (`Sorted`), and adding, removing and taking the
head of it are lemmas of `SubsequenceTheorems`.

**Capture spool.** Assumed: one custodian, or no record that waits for
`recoverMisdiscarded` (with both the property fails, see above); the types need
neither. `Steps` says what a custodian has done when it stands where it does, so that a
removal leaves the other copy.

**Backpressure.** The events the listeners have handled, the one in their hands
and the queue are together what was accepted, in order (`Numbered`), and the
pump's place says whether there is one in their hands (`Standing`).

**Continuation.** An attempt whose end no record shows is the one the run names, in
memory and in the saved document, whichever save fails (`SentIsOnRecord`), and two
runs that are enrolled share no task (`Apart`: neither over nor withdrawn, in memory
and in the saved document). A run whose turn is unresolved is not over, so two such
turns on one task mean that one of the runs was withdrawn; `GoodRun` adds that a run
with an attempt is at it or stopped, and that when it was sent the record had been
tried fewer than `NoProgressLimit` times, which bounds the count in
`ContinuationTypeOK`.

**Approvals.** `ApprovalInv` is `ApprovalTypeOK` with: what a call spent is
spent by it alone and for its arguments (`SpentFor`, `GrantsApart`), a call that
was told to bring an approval has one (`Brought`), past the last decision a scoped
approval is held (`Held`), and a scoped approval's events follow its creation, an
approval among them in time (`Stream`).

**Byte authority.** Any contents, patches, sessions and number of reads; plain files and
files that are replaced as a whole. `BytesInv` says that the rows are well formed
(`ValidRows`), that a current one is true of the recorded bytes (`TrueOf`), and,
while an operation is not settled (`Underway`): the record is its base as long as it
was not overtaken, its session knows each byte it is about to replace, the file is
still the base once it was checked, unless it was edited since, and no row
grows past the file when it is moved. The step that matters is `Rebase`: what a
patch makes of an observation before, behind or across it is again an
observation of the new bytes (`RebasedRow`, from `SplicedIs` and the lemmas about
slices before, in and behind a splice).

Only model-checked: liveness itself, which needs fairness (`CallsAnswered`,
`CertainAttemptsEnd`, `CourierProgress`, `EverybodyAnswered`, `LedgerRecovers`,
`ClaimsSettle`, `OperationsEnd`, `EverythingSettles`); and what the violated runs
refute.

## 5. The plan

In this order; what is done is in sections 2 to 4.

1. *Prove more of what is modelled.* Every safety property and both refinements
   of section 3 are proved. What is left is liveness: its safety cores (whoever
   waits has something ahead of him that ends it) are proved of the scheduler
   (in `PermitsExact`), of the courier and of the audit lane, and can be stated
   of the claim lock, the task queue and the audit ledger.
2. *Home node* over `Broker`: who owns a thread, what was read, reconciliation.
3. *Composition*: `AgentHost` with the hold of a subtree (two nodes), so that
   `drain` of a parent can be checked against a child's turn.
4. *Small ones*: the liveness receiver, operation records and circuits next to
   `TaskQueue`, ownership records of durable workers.

### Not modelled

Parts of modelled components that are missing: the `.reclaiming` guard of
older versions and file system errors (`ClaimLock`); spawning and removing
nodes, `agent.wait`, the root's inbox, limits of the journal (`AgentHost`);
bodies, credentials and the state files of older builds (`Broker`); the
configurations no caller in `src/` uses and the integrity checks of stored rows
(`ByteAuthority`); tools without outward effects and sealed operations
(`ToolApproval`); keys and signatures, time windows, quarantined and migrated
lines, verification caches, the durability report and `conditionalRecord`
(`AuditLedger`); task dependencies and recurrence (`LedgerContinuation`).
Whole components, with the reason, are in section 1.
