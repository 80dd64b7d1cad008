----------------------------- MODULE AuditLedger -----------------------------
(***************************************************************************)
(* The audit ledger as several processes write it: src/src/lib/audit.js on *)
(* the store of src/src/lib/audit-store.js, with the window that           *)
(* audit-retention.js keeps.                                               *)
(*                                                                         *)
(* The rows of the ledger, the archive boundary and the cursor of the      *)
(* projections are one SQLite database with one writer at a time.  The     *)
(* protected head (the anchor), the anchor intents, the archive, the       *)
(* projections and the emergency spool are not: what a transaction did to  *)
(* them stays when it rolls back, and other processes look at them while   *)
(* it runs.                                                                *)
(*                                                                         *)
(* An event is the number of the record it carries.  The hash of a row     *)
(* covers every row before it, so a row's hash is the sequence of events   *)
(* up to it.  A spooled record keeps its event id and its times: at the    *)
(* same place of the chain it has the same hash again.  The two            *)
(* projections are one here.                                               *)
(***************************************************************************)
EXTENDS Naturals, Sequences, FiniteSets, Subsequences

CONSTANTS
  Procs,        \* the processes that write the ledger
  Pollers,      \* those that report its health on a timer
  Earlier,      \* records made before
  MaxEvents,    \* bound: records that are made
  MaxTogether,  \* bound: records admitted together
  Window,       \* retention: events that stay in the ledger
  Slack,        \* retention: events over the window before it rolls
  AnchorEvery,  \* rows without an anchor that make an admission anchor
  MaxFaults,    \* bound: crashes and failed operations
  Nobody        \* no process

Events == 1 .. MaxEvents

\* The smallest window is 100 events and the largest batch is smaller.
ASSUME LedgerConstants ==
  /\ Pollers \subseteq Procs /\ Nobody \notin Procs
  /\ MaxEvents \in Nat /\ Earlier \in 0 .. MaxEvents /\ Earlier <= Window + Slack
  /\ MaxFaults \in Nat
  /\ Window \in Nat /\ Slack \in Nat /\ AnchorEvery \in Nat \ {0}
  /\ MaxTogether \in 1 .. Window

VARIABLES
  db,          \* what is committed: the events, the boundary, the cursor
  tx,          \* the same as the open transaction sees it
  writer,      \* the process inside BEGIN IMMEDIATE
  anchor,      \* the vault's protected head: the hash it names
  intents,     \* <pid>.json of each process: the anchor it was about to store
  orphans,     \* the intent files of processes that are gone
  archive,     \* audit-archive.jsonl: the hashes of its lines
  projection,  \* the projection: where its window begins, and its last hash
  spool,       \* the emergency spool
  ingests,     \* the spools that were renamed to be read
  work,        \* what each process is doing
  witness,     \* processes whose verification still describes what is stored
  told,        \* what the caller of each record was told
  made,        \* how many records were made
  faults       \* crashes and failures so far

ledgerVars == <<db, tx, writer, anchor, intents, orphans, archive, projection, spool,
                ingests, work, witness, told, made, faults>>

stored == <<db, tx, writer>>                 \* the database
head   == <<anchor, intents, orphans>>       \* the protected head
logs   == <<archive, projection>>
lines  == <<spool, ingests>>
calls  == <<told, made>>

-----------------------------------------------------------------------------
(* The ledger *)

\* The hash of row k.
Hash(chain, k) == SubSeq(chain, 1, k)

\* The events of the rows that have not been archived.
Live(l) == {l.chain[i] : i \in l.boundary + 1 .. Len(l.chain)}

\* Mutation: an event is appended again.
AppendedAgain(l, events) == l.chain \o events

\* appendEvent(): an event id that has a row is not appended again.
Appended(l, events) ==
  l.chain \o Subsequence(events, {i \in DOMAIN events : events[i] \notin Live(l)})

\* projectionDivergenceReason(): the file may be ahead of the ledger, not
\* behind the cursor, and must have the ledger's rows where both have one.
Accepted(f, l) ==
  LET rows == Len(f.chain) - f.from IN
  /\ l.cursor \in l.boundary .. Len(l.chain)
  /\ rows >= l.cursor - l.boundary
  /\ \A i \in 1 .. rows :
       l.boundary + i <= Len(l.chain) =>
         /\ f.from = l.boundary
         /\ Hash(f.chain, f.from + i) = Hash(l.chain, l.boundary + i)

\* The projection that has exactly the rows of l.
Exactly(l) == [from |-> l.boundary, chain |-> l.chain]

\* The processes whose intent file names the anchor.
NamedBy == {p \in Procs : intents[p] = anchor}

\* intentNamingAnchor(): one of the intent files does.
IsNamed == NamedBy # {} \/ anchor \in orphans

Ahead(l)   == Len(anchor) > Len(l.chain)
InChain(l) == ~Ahead(l) /\ anchor = Hash(l.chain, Len(anchor))

\* The anchor names an event that was not committed, and another has its place.
Forked(l) == Len(anchor) \in l.boundary + 1 .. Len(l.chain) /\ ~InChain(l)

\* reconcileAnchor() throws: a rollback, or a rewritten row.
Alarm(l) ==
  /\ anchor # << >>
  /\ Ahead(l) \/ Len(anchor) <= l.boundary \/ (Forked(l) /\ ~IsNamed)

\* The files that prove the fork, one at most: of a process, or left behind.
ForkFiles(l) == IF Forked(l) THEN NamedBy ELSE {}
ForkLeft(l)  == IF Forked(l) THEN orphans \cap {anchor} ELSE {}

\* consumeAnchorIntent(): the files are removed by their names, whatever they
\* hold by now.
Consume(files, left) ==
  /\ orphans' = orphans \ left
  /\ intents' = [p \in Procs |-> IF p \in files THEN << >> ELSE intents[p]]

\* reconcileAnchor() moves the anchor to the last row, if it is asked to.
Advances(l, asked) == asked /\ Len(anchor) < Len(l.chain)

\* Mutation: the file that proves a fork is consumed when it is read.
ConsumesEarly(l, asked) ==
  /\ anchor' = IF Advances(l, asked) THEN l.chain ELSE anchor
  /\ Consume(ForkFiles(l), ForkLeft(l))

\* reconcileAnchor() under the lock.
Reconciled(l, asked) ==
  IF Advances(l, asked)
  THEN anchor' = l.chain /\ Consume(ForkFiles(l), ForkLeft(l))
  ELSE UNCHANGED head

-----------------------------------------------------------------------------
(* A process *)

Resting == [at |-> "idle", kind |-> "record", items |-> << >>, todo |-> {}, file |-> << >>,
            advance |-> FALSE, fork |-> {}, left |-> {}, row |-> << >>,
            roll |-> FALSE, anchored |-> FALSE]

\* A process that has not read the anchor yet: its first admission advances it.
Fresh == [Resting EXCEPT !.advance = TRUE]

At(p, place)   == work[p].at = place
GoTo(p, place) == work' = [work EXCEPT ![p] = [@ EXCEPT !.at = place]]
Recording(p)   == work[p].kind \in {"record", "required"}
ItemsOf(p)     == {work[p].items[i] : i \in DOMAIN work[p].items}

Tell(p, what) == told' = [e \in Events |-> IF e \in ItemsOf(p) THEN what ELSE told[e]]

RolledBack == tx' = db /\ writer' = Nobody

\* An error: the transaction rolls back and record() spools its records.
Throw(p) ==
  /\ IF writer = p THEN RolledBack ELSE UNCHANGED <<tx, writer>>
  /\ IF Recording(p)
     THEN work' = [work EXCEPT ![p] = [Resting EXCEPT !.at = "spool", !.items = work[p].items]]
     ELSE work' = [work EXCEPT ![p] = Resting]
  /\ witness' = witness \ {p}
  /\ UNCHANGED db

\* A quiet ledger with some of the earlier records.
LedgerInit ==
  /\ \E n \in 0 .. Earlier :
       /\ db = [chain |-> [i \in 1 .. n |-> i], boundary |-> 0, cursor |-> n]
       /\ told = [e \in Events |-> IF e <= n THEN "durable" ELSE "nothing"]
       /\ \E k \in 0 .. n : anchor = Hash(db.chain, k)
  /\ tx = db /\ writer = Nobody /\ projection = Exactly(db)
  /\ intents = [p \in Procs |-> << >>] /\ orphans = {} /\ archive = << >>
  /\ spool = << >> /\ ingests = {}
  /\ \E started \in BOOLEAN : work = [p \in Procs |-> IF started THEN Resting ELSE Fresh]
  /\ witness = {}
  /\ made = Earlier /\ faults = 0

-----------------------------------------------------------------------------
(* prepare() *)

\* record(), requireRecord() or recordBatch() is called.
Call(p) ==
  /\ At(p, "idle")
  /\ \E n \in 1 .. MaxTogether, kind \in {"record", "required"} :
       /\ made + n <= MaxEvents
       /\ made' = made + n
       /\ work' = [work EXCEPT ![p] = [@ EXCEPT !.at = "prepare", !.kind = kind,
                                               !.items = [i \in 1 .. n |-> made + i]]]
  /\ UNCHANGED <<stored, head, logs, lines, witness, told, faults>>

\* system-status.js auditState(): status(), then verify(), then perhaps flush().
Poll(p) ==
  /\ p \in Pollers /\ At(p, "idle")
  /\ work' = [work EXCEPT ![p] = [@ EXCEPT !.at = "prepare", !.kind = "status"]]
  /\ UNCHANGED <<stored, head, logs, lines, witness, calls, faults>>

\* What follows the ingestion: status() and flush() reconcile the anchor without
\* the lock, the others put it off until they have it.
Prepared(kind) ==
  CASE kind \in {"status", "flush"} -> "look" [] kind = "verify" -> "inspect" [] OTHER -> "verify"

\* ingestEmergency(): the spool is renamed and the renamed files are listed.
TakeSpool(p) ==
  /\ At(p, "prepare")
  /\ spool' = << >>
  /\ ingests' = ingests \cup ({spool} \ {<< >>})
  /\ work' = [work EXCEPT ![p] = [@ EXCEPT !.todo = ingests',
                !.at = IF ingests' = {} THEN Prepared(work[p].kind) ELSE "drain"]]
  /\ witness' = IF spool = << >> THEN witness ELSE {}
  /\ UNCHANGED <<stored, head, logs, calls, faults>>

\* The lines of a renamed file are appended in one transaction.
Drain(p) ==
  /\ At(p, "drain") /\ writer = Nobody
  /\ \E f \in work[p].todo \cap ingests :
       /\ db' = [db EXCEPT !.chain = Appended(db, f)]
       /\ work' = [work EXCEPT ![p] = [@ EXCEPT !.file = f, !.todo = work[p].todo \ {f},
                                               !.at = "unlink"]]
  /\ tx' = db' /\ witness' = {}
  /\ UNCHANGED <<writer, head, logs, lines, calls, faults>>

\* Another process has removed what is left of the list.
NothingToDrain(p) ==
  /\ At(p, "drain") /\ work[p].todo \cap ingests = {}
  /\ work' = [work EXCEPT ![p] = [@ EXCEPT !.todo = {}, !.at = Prepared(work[p].kind)]]
  /\ UNCHANGED <<stored, head, logs, lines, witness, calls, faults>>

\* Mutation: the file is kept.
KeepsFile(p) == ingests

Unlinked(p) == ingests \ {work[p].file}

\* The file is removed once its lines are committed.
Unlink(p) ==
  /\ At(p, "unlink")
  /\ ingests' = Unlinked(p)
  /\ work' = [work EXCEPT ![p] = [@ EXCEPT !.file = << >>, !.advance = TRUE,
                !.at = IF work[p].todo = {} THEN Prepared(work[p].kind) ELSE "drain"]]
  /\ witness' = {}
  /\ UNCHANGED <<stored, head, logs, spool, calls, faults>>

-----------------------------------------------------------------------------
(* The admission of records *)

\* validateProjectionState()
Verifies == Accepted(projection, db) /\ spool = << >> /\ ingests = {}

\* verifyAdmissionOutsideLock()
VerifyPasses(p) ==
  /\ At(p, "verify") /\ Verifies
  /\ witness' = witness \cup {p}
  /\ GoTo(p, "lock")
  /\ UNCHANGED <<stored, head, logs, lines, calls, faults>>

VerifyRefuses(p) ==
  /\ At(p, "verify") /\ ~Verifies
  /\ Throw(p)
  /\ UNCHANGED <<head, logs, lines, calls, faults>>

\* The witness is still right when the lock is held.
Lock(p) ==
  /\ At(p, "lock") /\ writer = Nobody /\ p \in witness
  /\ writer' = p
  /\ GoTo(p, "reconcile")
  /\ UNCHANGED <<db, tx, head, logs, lines, witness, calls, faults>>

\* It is not: verify again, or give up after the last retry.
LosesRace(p) ==
  /\ At(p, "lock") /\ writer = Nobody /\ p \notin witness
  /\ \E place \in {"verify", "spool"} : GoTo(p, place)
  /\ UNCHANGED <<stored, head, logs, lines, witness, calls, faults>>

\* What the others verified is no longer what is stored.
OnlyOwn(p) == witness' = witness \cap {p}

\* A record that must be anchored anchors itself, later and farther.
Asked(p) == work[p].advance /\ work[p].kind # "required"

Reconcile(p) ==
  /\ At(p, "reconcile") /\ ~Alarm(tx)
  /\ Reconciled(tx, Asked(p))
  /\ work' = [work EXCEPT ![p] = [@ EXCEPT !.advance = FALSE, !.at = "append",
                !.fork = IF Advances(tx, Asked(p)) THEN {} ELSE ForkFiles(tx),
                !.left = IF Advances(tx, Asked(p)) THEN {} ELSE ForkLeft(tx)]]
  /\ IF Advances(tx, Asked(p)) THEN OnlyOwn(p) ELSE UNCHANGED witness
  /\ UNCHANGED <<stored, logs, lines, calls, faults>>

ReconcileAlarms(p) ==
  /\ At(p, "reconcile") /\ Alarm(tx)
  /\ Throw(p)
  /\ UNCHANGED <<head, logs, lines, calls, faults>>

\* retentionPlan() for the rows of l and n more.
Rolls(l, n) == Len(l.chain) + n - l.boundary > Window + Slack

\* An admission that anchors: the record must be, many rows are not, the ledger
\* rolls, or the anchor is forked.
Anchors(p, n) ==
  \/ work[p].kind = "required" \/ Len(tx.chain) - Len(anchor) + n >= AnchorEvery
  \/ work[p].fork # {} \/ work[p].left # {} \/ Rolls(tx, n)

\* appendVerifiedUnderLockMany(): the witness is read once more and the
\* records are appended.
AppendRecords(p) ==
  LET n == Len(work[p].items) IN
  /\ At(p, "append") /\ p \in witness
  /\ tx' = [tx EXCEPT !.chain = @ \o work[p].items]
  /\ work' = [work EXCEPT ![p] = [@ EXCEPT !.roll = Rolls(tx, n), !.anchored = Anchors(p, n),
                !.at = IF Anchors(p, n) THEN "intent" ELSE "project"]]
  /\ UNCHANGED <<db, writer, head, logs, lines, witness, calls, faults>>

\* Something outside the database has changed under the lock.
WitnessChanged(p) ==
  /\ At(p, "append") /\ p \notin witness
  /\ Throw(p)
  /\ UNCHANGED <<head, logs, lines, calls, faults>>

WriteIntent(p) ==
  /\ At(p, "intent")
  /\ intents' = [intents EXCEPT ![p] = tx.chain]
  /\ GoTo(p, "anchor")
  /\ UNCHANGED <<stored, anchor, orphans, logs, lines, witness, calls, faults>>

\* The vault takes the new head, and the file that proved a fork is consumed.
StoreAnchor(p) ==
  /\ At(p, "anchor")
  /\ anchor' = tx.chain
  /\ Consume(work[p].fork, work[p].left)
  /\ work' = [work EXCEPT ![p] = [@ EXCEPT !.fork = {}, !.left = {}, !.at = "project"]]
  /\ OnlyOwn(p)
  /\ UNCHANGED <<stored, logs, lines, calls, faults>>

\* projectSinks(): lines are appended to a file that agrees with the ledger,
\* any other is rebuilt.
Project(p) ==
  /\ At(p, "project")
  /\ projection' = Exactly(tx)
  /\ tx' = [tx EXCEPT !.cursor = Len(tx.chain)]
  /\ GoTo(p, IF work[p].roll THEN "archive" ELSE "commit")
  /\ OnlyOwn(p)
  /\ UNCHANGED <<db, writer, head, archive, lines, calls, faults>>

\* A projection that cannot be written, or failed a moment ago, waits; the
\* ledger does not roll without it.
ProjectFails(p) ==
  /\ At(p, "project") /\ faults < MaxFaults
  /\ faults' = faults + 1
  /\ GoTo(p, "commit")
  /\ UNCHANGED <<stored, head, logs, lines, witness, calls>>

\* The sequence number of the archive's last line.
LastArchived == IF archive = << >> THEN 0 ELSE Len(archive[Len(archive)])

\* Mutation: the archive's last line is not looked at.
ArchivesAgain(line) == archive' = Append(archive, line)

\* appendArchiveEvent(): a line that is there already is not written again.
Archives(line) ==
  IF Len(line) > LastArchived
  THEN archive' = Append(archive, line)
  ELSE (\E i \in DOMAIN archive : archive[i] = line) /\ UNCHANGED archive

\* rollOldestEventOut() and rollArchiveOnce(), for one row of the excess.
Archive(p) ==
  LET next == tx.boundary + 1 IN
  /\ At(p, "archive")
  /\ Archives(Hash(tx.chain, next))
  /\ tx' = [tx EXCEPT !.boundary = next]
  /\ GoTo(p, IF Len(tx.chain) - next = Window THEN "rebuild" ELSE "archive")
  /\ UNCHANGED <<db, writer, head, projection, lines, witness, calls, faults>>

\* The projections lose the rows that left.
Rebuild(p) ==
  /\ At(p, "rebuild")
  /\ projection' = Exactly(tx)
  /\ OnlyOwn(p)
  /\ GoTo(p, "commit")
  /\ UNCHANGED <<stored, head, archive, lines, calls, faults>>

\* COMMIT, and the callers are answered.
Commit(p) ==
  /\ At(p, "commit")
  /\ db' = tx /\ writer' = Nobody /\ witness' = {}
  /\ Tell(p, IF work[p].anchored THEN "anchored" ELSE "durable")
  /\ work' = [work EXCEPT ![p] = IF work[p].anchored THEN [Resting EXCEPT !.at = "clear"] ELSE Resting]
  /\ UNCHANGED <<tx, head, logs, lines, made, faults>>

\* clearAnchorIntent()
ClearIntent(p) ==
  /\ At(p, "clear")
  /\ intents' = [intents EXCEPT ![p] = << >>]
  /\ work' = [work EXCEPT ![p] = Resting]
  /\ UNCHANGED <<stored, anchor, orphans, logs, lines, witness, calls, faults>>

\* spoolEmergency()
Spool(p) ==
  /\ At(p, "spool")
  /\ spool' = spool \o work[p].items
  /\ witness' = {}
  /\ Tell(p, "spooled")
  /\ work' = [work EXCEPT ![p] = Resting]
  /\ UNCHANGED <<stored, head, logs, ingests, made, faults>>

-----------------------------------------------------------------------------
(* Health *)

\* prepare() is over: status() is followed by verify(), flush() takes the lock.
Onward(p) ==
  [Resting EXCEPT !.at   = IF work[p].kind = "status" THEN "prepare" ELSE "heal",
                  !.kind = IF work[p].kind = "status" THEN "verify" ELSE "flush"]

\* reconcileAnchor() without the lock, in steps: another process may be in the
\* middle of an admission.  First the anchor, the committed rows and the intents
\* are read.  An anchor that is stored and whose rows are not yet committed is
\* ahead of them, and raises an alarm like any other.
Look(p) ==
  /\ At(p, "look") /\ ~Alarm(db)
  /\ work' = [work EXCEPT ![p] =
       IF Advances(db, work[p].advance)
       THEN [@ EXCEPT !.at = "store", !.advance = FALSE, !.row = db.chain,
                      !.fork = ForkFiles(db), !.left = ForkLeft(db)]
       ELSE Onward(p)]
  /\ UNCHANGED <<stored, head, logs, lines, witness, calls, faults>>

LookAlarms(p) ==
  /\ At(p, "look") /\ Alarm(db)
  /\ Throw(p)
  /\ UNCHANGED <<head, logs, lines, calls, faults>>

\* The vault takes a longer anchor only; one that it has already is as good if
\* it names a committed row.
Takes(p)  == Len(work[p].row) > Len(anchor)
Dominated == InChain(db) /\ Len(anchor) > db.boundary

\* writeAnchor() with the last row that was read, and an admission that has not
\* reconciled the anchor yet takes what it finds.
StoreSeen(p) ==
  /\ At(p, "store") /\ (Takes(p) \/ Dominated)
  /\ anchor' = IF Takes(p) THEN work[p].row ELSE anchor
  /\ witness' = IF Takes(p) THEN {q \in witness : At(q, "reconcile")} ELSE witness
  /\ work' = [work EXCEPT ![p] =
       IF work[p].fork \cup work[p].left = {} THEN Onward(p) ELSE [@ EXCEPT !.at = "consume"]]
  /\ UNCHANGED <<stored, intents, orphans, logs, lines, calls, faults>>

\* The anchor of another process is there, and its rows are not.
StoreRefused(p) ==
  /\ At(p, "store") /\ ~Takes(p) /\ ~Dominated
  /\ Throw(p)
  /\ UNCHANGED <<head, logs, lines, calls, faults>>

\* The file that proved the fork is removed, though its process may have named
\* another event in it since.
ForkConsumed(p) ==
  /\ At(p, "consume")
  /\ Consume(work[p].fork, work[p].left)
  /\ work' = [work EXCEPT ![p] = Onward(p)]
  /\ UNCHANGED <<stored, anchor, logs, lines, witness, calls, faults>>

Diverged == projection # Exactly(db)

\* verify(): the anchor is advanced under the lock; a projection that is not
\* the ledger's, or a spool that is not empty, is flushed.
Inspect(p) ==
  /\ At(p, "inspect") /\ writer = Nobody
  /\ IF Alarm(db)
     THEN work' = [work EXCEPT ![p] = Resting] /\ UNCHANGED <<head, witness>>
     ELSE /\ Reconciled(db, TRUE)
          /\ witness' = IF Advances(db, TRUE) THEN {} ELSE witness
          /\ work' = [work EXCEPT ![p] =
               IF Diverged \/ spool # << >> \/ ingests # {}
               THEN [Resting EXCEPT !.at = "prepare", !.kind = "flush"] ELSE Resting]
  /\ UNCHANGED <<stored, logs, lines, calls, faults>>

\* flush({ force: true }) takes the lock, and projects.
Heal(p) ==
  /\ At(p, "heal") /\ writer = Nobody
  /\ writer' = p
  /\ GoTo(p, "project")
  /\ UNCHANGED <<db, tx, head, logs, lines, witness, calls, faults>>

-----------------------------------------------------------------------------
(* Failures *)

\* An operation throws: the database is busy, the disk is full, the vault's
\* helper does not answer.  COMMIT is one of them.
Fails(p) ==
  /\ work[p].at \in {"drain", "lock", "intent", "anchor", "archive", "rebuild", "commit",
                    "look", "store", "inspect", "heal"}
  /\ faults < MaxFaults
  /\ faults' = faults + 1
  /\ Throw(p)
  /\ UNCHANGED <<head, logs, lines, calls>>

\* The process is gone, and another takes its place under another pid: whoever
\* was about to remove its intent file removes what is left behind.
Crash(p) ==
  /\ ~At(p, "idle") \/ intents[p] # << >>
  /\ faults < MaxFaults
  /\ faults' = faults + 1
  /\ IF writer = p THEN RolledBack ELSE UNCHANGED <<tx, writer>>
  /\ orphans' = orphans \cup ({intents[p]} \ {<< >>})
  /\ intents' = [intents EXCEPT ![p] = << >>]
  /\ witness' = witness \ {p}
  /\ Tell(p, "nothing")
  /\ work' = [q \in Procs |->
       IF q = p THEN Fresh
       ELSE IF p \in work[q].fork
            THEN [work[q] EXCEPT !.fork = @ \ {p}, !.left = @ \cup ({intents[p]} \ {<< >>})]
            ELSE work[q]]
  /\ UNCHANGED <<db, anchor, logs, lines, made>>

-----------------------------------------------------------------------------
Step(p) ==
  \/ TakeSpool(p) \/ Drain(p) \/ NothingToDrain(p) \/ Unlink(p)
  \/ VerifyPasses(p) \/ VerifyRefuses(p) \/ Lock(p) \/ LosesRace(p)
  \/ Reconcile(p) \/ ReconcileAlarms(p) \/ AppendRecords(p) \/ WitnessChanged(p)
  \/ WriteIntent(p) \/ StoreAnchor(p) \/ Project(p) \/ Archive(p) \/ Rebuild(p)
  \/ Commit(p) \/ ClearIntent(p) \/ Spool(p) \/ Look(p) \/ LookAlarms(p) \/ StoreSeen(p)
  \/ StoreRefused(p) \/ ForkConsumed(p) \/ Inspect(p) \/ Heal(p)

LedgerNext ==
  \E p \in Procs : Call(p) \/ Poll(p) \/ Step(p) \/ ProjectFails(p) \/ Fails(p) \/ Crash(p)

LedgerSpec == LedgerInit /\ [][LedgerNext]_ledgerVars

-----------------------------------------------------------------------------
(* Properties *)

Chains == Seq(Events)
Ledgers == [chain : Chains, boundary : Nat, cursor : Nat]
Places ==
  {"idle", "prepare", "drain", "unlink", "verify", "lock", "reconcile", "append", "intent",
   "anchor", "project", "archive", "rebuild", "commit", "clear", "spool", "look", "store",
   "consume", "inspect", "heal"}
Locked == {"reconcile", "append", "intent", "anchor", "project", "archive", "rebuild", "commit"}

LedgerTypeOK ==
  /\ db \in Ledgers /\ tx \in Ledgers /\ writer \in Procs \cup {Nobody}
  /\ anchor \in Chains /\ intents \in [Procs -> Chains] /\ orphans \subseteq Chains
  /\ archive \in Seq(Chains) /\ projection \in [from : Nat, chain : Chains]
  /\ spool \in Chains /\ ingests \subseteq Chains
  /\ work \in [Procs -> [at : Places, kind : {"record", "required", "status", "verify", "flush"},
                        items : Chains, todo : SUBSET Chains, file : Chains, advance : BOOLEAN,
                        fork : SUBSET Procs, left : SUBSET Chains, row : Chains,
                        roll : BOOLEAN, anchored : BOOLEAN]]
  /\ \A p \in Procs : work[p].at \in Locked <=> writer = p
  /\ writer = Nobody => tx = db
  /\ witness \subseteq Procs
  /\ told \in [Events -> {"nothing", "durable", "anchored", "spooled"}]
  /\ made \in 0 .. MaxEvents /\ faults \in 0 .. MaxFaults

RowsOf(e) == {i \in DOMAIN db.chain : db.chain[i] = e}

\* Whoever is told that its record is durable has a row, which the anchor
\* covers from then on if it was told so too; a record that was spooled has a
\* row or a line that becomes one, and no record has two rows, whatever
\* crashed in the middle of what.
RecordsKept ==
  \A e \in Events :
    /\ Cardinality(RowsOf(e)) <= 1
    /\ told[e] \in {"durable", "anchored"} => RowsOf(e) # {}
    /\ told[e] = "anchored" =>
         \E i \in RowsOf(e) : i <= Len(anchor) /\ Hash(anchor, i) = Hash(db.chain, i)
    /\ told[e] = "spooled" =>
         \/ RowsOf(e) # {}
         \/ \E f \in ingests \cup {spool} : \E i \in DOMAIN f : f[i] = e

\* The archive has each row up to the boundary once and in its place, and
\* beyond it only rows of the ledger: no row leaves before it is archived, and
\* a roll that is repeated archives nothing twice.
ArchiveExact ==
  /\ db.boundary <= Len(archive) /\ Len(archive) <= Len(db.chain)
  /\ \A i \in DOMAIN archive : archive[i] = Hash(db.chain, i)
  /\ anchor # << >> => Len(anchor) > db.boundary

\* "Until then it must keep proving the same fork to every reader": the anchor
\* names a row, or an event that was to be committed with an intent to prove it.
AnchorProven == anchor # << >> => InChain(db) \/ IsNamed

\* The process names its next event in the very file that proves the fork.
Overwrites(p) == WriteIntent(p) /\ p \in work[p].fork

\* It stores an anchor after its intent was removed, or removes the file it has
\* just named the new anchor in, because that one proved the fork before.
StoresUnproven(p) == StoreAnchor(p) /\ (p \in work[p].fork \/ intents[p] = << >>)

\* It has reconciled the fork without the lock, and removes a file that names
\* an event which comes after every row it had read.
RemovesNewer(p) ==
  /\ ForkConsumed(p)
  /\ \E f \in work[p].left \cup {intents[q] : q \in work[p].fork} : Len(f) > Len(work[p].row)

\* The anchor loses its proof in these three ways only, in all of which the file
\* of a fork that was proved before is the one the same process names its next
\* event in: no failure, crash or alarm, no rollback, no other process's commit
\* and no advance of the anchor, with the lock or without it, leaves a proved
\* anchor unproved.
ProofKept ==
  [][AnchorProven =>
       AnchorProven' \/ \E p \in Procs : Overwrites(p) \/ StoresUnproven(p) \/ RemovesNewer(p)]_ledgerVars

\* A record that comes now is admitted.
Admits == Verifies /\ ~Alarm(db)

\* While the health of the ledger is looked at, it never stays in a state in
\* which no record is admitted; a process that died with its anchor stored is
\* overcome by the records that follow it.
LedgerRecovers == []<>(Admits \/ Ahead(db) \/ ~AnchorProven)
=============================================================================
