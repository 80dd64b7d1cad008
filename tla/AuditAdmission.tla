---------------------------- MODULE AuditAdmission ----------------------------
(***************************************************************************)
(* src/src/lib/audit-admission.js, audit-admission-worker.js and the batch *)
(* admission of audit.js: records that arrive close together are admitted  *)
(* to the audit ledger as one batch, on a worker thread or, when that      *)
(* thread cannot answer, on the calling one.                               *)
(*                                                                         *)
(* The ledger takes a batch in one transaction, whichever thread writes    *)
(* it.  The two sides only share messages, so a batch whose answer is late *)
(* may be written by both.  A record that carries its own event id is      *)
(* recognised when it comes again (audit-store.js appendEvent).            *)
(***************************************************************************)
EXTENDS Naturals, Sequences, FiniteSets, Subsequences

CONSTANTS
  MaxRecords,   \* records are numbered in the order they are submitted
  Named,        \* those that carry an event id of their own
  MaxBatch,     \* tools.audit_batch_size
  UseWorker,    \* fast mode: batches go to the worker thread
  MaxMeters,    \* bound: tool-meter requests
  MaxCloses,    \* bound: calls of close()
  MaxCalls      \* bound: records, meter requests and close() calls together

Records == 1 .. MaxRecords

ASSUME AdmissionConstants ==
  /\ MaxRecords \in Nat /\ Named \subseteq Records
  /\ MaxBatch \in Nat \ {0} /\ UseWorker \in BOOLEAN
  /\ MaxMeters \in Nat /\ MaxCloses \in Nat /\ MaxCalls \in Nat

VARIABLES
  submitted,  \* how many records were submitted
  pending,    \* the queued ones
  batch,      \* inFlight: the batch being admitted, << >> for null
  waiting,    \* the worker request the batch waits for, 0 for none
  timer,      \* the handle of the timer
  ticks,      \* timer callbacks that are still to run
  answer,     \* what each caller was told
  thread,     \* the worker thread: whether it runs, and its messages
  broken,     \* workerBroken
  waiters,    \* workerWaiters: requests without an answer
  replies,    \* messages of the thread on their way back
  nextId,     \* nextWorkerId
  meters,     \* tool-meter requests made
  closing,    \* close(): its stage, its request, how often it was called
  acknowledged, \* acknowledgedClose: this thread has confirmed its closing
  fellBack,   \* stats.workerFallbacks is not 0
  ledger      \* the events written, with the record each stands for

admissionVars == <<submitted, pending, batch, waiting, timer, ticks, answer, thread, broken,
          waiters, replies, nextId, meters, closing, acknowledged, fellBack, ledger>>

queue  == <<submitted, pending, batch, timer, ticks, answer>>
worker == <<thread, broken, waiters, replies, nextId>>
lane   == <<meters, closing, acknowledged>>

Stages  == {"open", "flushing", "asking", "ending", "failed", "closed"}
Retiring == closing.stage # "open"

-----------------------------------------------------------------------------
AdmissionInit ==
  /\ submitted = 0 /\ pending = << >> /\ batch = << >> /\ waiting = 0
  /\ timer = FALSE /\ ticks = 0
  /\ answer = [r \in Records |-> "none"]
  /\ thread = [up |-> FALSE, box |-> << >>] /\ broken = FALSE
  /\ waiters = {} /\ replies = << >> /\ nextId = 1
  /\ meters = 0 /\ closing = [stage |-> "open", id |-> 0, calls |-> 0]
  /\ acknowledged = FALSE /\ fellBack = FALSE /\ ledger = << >>

-----------------------------------------------------------------------------
\* The ledger.

Elements(q) == {q[i] : i \in DOMAIN q}

\* recordBatch() passes a record's own event id on only in a batch of several.
Keeps(items, r) == r \in Named /\ Len(items) > 1

\* The transaction of a batch on ledger l: an event id that is there already
\* is a replay.
Written(l, items) ==
  LET known(r) == Keeps(items, r) /\ [record |-> r, named |-> TRUE] \in Elements(l)
      fresh    == Subsequence(items, {i \in DOMAIN items : ~known(items[i])})
  IN l \o [i \in DOMAIN fresh |-> [record |-> fresh[i], named |-> Keeps(items, fresh[i])]]

-----------------------------------------------------------------------------
\* The queue.

MayCall == submitted + meters + closing.calls < MaxCalls

Arm == IF timer THEN UNCHANGED <<timer, ticks>> ELSE timer' = TRUE /\ ticks' = ticks + 1

\* submit()
Submit ==
  /\ submitted < MaxRecords /\ MayCall
  /\ submitted' = submitted + 1
  /\ IF Retiring
     THEN answer' = [answer EXCEPT ![submitted + 1] = "refused"] /\ UNCHANGED <<pending, timer, ticks>>
     ELSE /\ pending' = Append(pending, submitted + 1)
          /\ IF batch = << >> THEN Arm ELSE UNCHANGED <<timer, ticks>>
          /\ UNCHANGED answer
  /\ UNCHANGED <<batch, waiting, worker, lane, fellBack, ledger>>

Request(kind, items) == [id |-> nextId, kind |-> kind, items |-> items]

\* admitOnWorker(), the thread started if it does not run.
Post(kind, items) ==
  /\ thread' = [up |-> TRUE, box |-> Append(thread.box, Request(kind, items))]
  /\ waiters' = waiters \cup {nextId}
  /\ nextId' = nextId + 1
  /\ UNCHANGED <<broken, replies>>

\* The end of drain(), with what is left in the queue.
NextBatch(left, callbacks) ==
  /\ timer' = (left # << >>)
  /\ ticks' = callbacks + (IF left # << >> THEN 1 ELSE 0)

\* settle() and the end of drain().
Settle(items, left, callbacks, status) ==
  /\ answer' = [r \in Records |-> IF r \in Elements(items) THEN status ELSE answer[r]]
  /\ batch' = << >> /\ waiting' = 0
  /\ pending' = left
  /\ NextBatch(left, callbacks)
  /\ UNCHANGED submitted

\* recordBatch() on this thread, which nothing on this thread interrupts.
AdmitHere(l, items, left, callbacks) ==
  \E written \in BOOLEAN :
    /\ ledger' = IF written THEN Written(l, items) ELSE l
    /\ Settle(items, left, callbacks, IF written THEN "durable" ELSE "failed")

\* The thread failed the batch: recordFallback(), then this thread admits it.
FallBack(l) == fellBack' = TRUE /\ AdmitHere(l, batch, pending, ticks)

\* Mutation: the limit is not passed to splice().
BatchUnlimited == Len(pending)

BatchSize == IF Len(pending) < MaxBatch THEN Len(pending) ELSE MaxBatch

\* pending.splice(0, limit)
Left(n) == SubSeq(pending, n + 1, Len(pending))

\* The thread cannot be started, or cannot be sent the message.
NoThread == broken' = ~thread.up /\ UNCHANGED <<thread, waiters, replies, nextId>>

\* drain() with something to admit.
StartBatch(callbacks) ==
  LET n     == BatchSize
      items == SubSeq(pending, 1, n)
  IN IF UseWorker /\ ~broken
     THEN \/ /\ Post("events", items)
             /\ waiting' = nextId /\ batch' = items /\ pending' = Left(n)
             /\ timer' = FALSE /\ ticks' = callbacks
             /\ UNCHANGED <<submitted, answer, lane, fellBack, ledger>>
          \/ /\ NoThread
             /\ fellBack' = TRUE
             /\ AdmitHere(ledger, items, Left(n), callbacks)
             /\ UNCHANGED lane
     ELSE AdmitHere(ledger, items, Left(n), callbacks) /\ UNCHANGED <<worker, lane, fellBack>>

\* A timer callback: drain() finds work, or a batch in flight, or nothing.
Tick ==
  /\ ticks > 0
  /\ IF batch = << >> /\ pending # << >>
     THEN StartBatch(ticks - 1)
     ELSE /\ timer' = FALSE /\ ticks' = ticks - 1
          /\ UNCHANGED <<submitted, pending, batch, answer, waiting, worker, lane, fellBack, ledger>>

\* flush() drains without the timer.
FlushDrain ==
  /\ closing.stage = "flushing"
  /\ batch = << >> /\ pending # << >>
  /\ StartBatch(ticks)

-----------------------------------------------------------------------------
\* The worker thread (audit-admission-worker.js), one message at a time.

Head1 == Head(thread.box)

\* It writes a batch and answers with statuses, or answers with an error.
ThreadAdmits(result) ==
  /\ thread.up /\ thread.box # << >>
  /\ Head1.kind = "events"
  /\ ledger' = IF result = "durable" THEN Written(ledger, Head1.items) ELSE ledger
  /\ replies' = Append(replies, [id |-> Head1.id, result |-> result])
  /\ thread' = [thread EXCEPT !.box = Tail(@)]
  /\ UNCHANGED <<queue, waiting, broken, waiters, nextId, lane, fellBack>>

\* A meter batch or the closing of the ledger.
ThreadServes(result) ==
  /\ thread.up /\ thread.box # << >>
  /\ Head1.kind # "events"
  /\ replies' = Append(replies, [id |-> Head1.id, result |-> result])
  /\ thread' = [thread EXCEPT !.box = Tail(@)]
  /\ UNCHANGED <<queue, waiting, broken, waiters, nextId, lane, fellBack, ledger>>

\* Mutation: an answer is taken as the answer to the batch in flight.
AddresseeOfBatch(m) == IF waiting # 0 THEN waiting ELSE m.id

Addressee(m) == m.id

\* The promise of request id settles: for the batch in flight, for close(),
\* or for a caller of recordToolMeterBatch().
Resolve(id, result) ==
  /\ waiters' = waiters \ {id}
  /\ IF id = waiting
     THEN IF result = "error"
          THEN FallBack(ledger)
          ELSE Settle(batch, pending, ticks, result) /\ UNCHANGED <<fellBack, ledger>>
     ELSE UNCHANGED <<queue, waiting, fellBack, ledger>>
  /\ IF closing.stage = "asking" /\ id = closing.id
     THEN /\ closing' = [closing EXCEPT !.stage = IF result = "error" THEN "failed" ELSE "ending"]
          /\ acknowledged' = (acknowledged \/ result # "error")
     ELSE UNCHANGED <<closing, acknowledged>>

\* The thread's message arrives; nobody waits for a late one any more.
Reply ==
  /\ replies # << >>
  /\ replies' = Tail(replies)
  /\ LET m == Head(replies) IN
     IF Addressee(m) \in waiters
     THEN Resolve(Addressee(m), m.result)
     ELSE UNCHANGED <<waiters, queue, waiting, fellBack, ledger, closing, acknowledged>>
  /\ UNCHANGED <<thread, broken, nextId, meters>>

\* Mutation: only batches have a deadline.
TimedRequests == waiters \cap {waiting}

\* WORKER_REPLY_TIMEOUT_MS runs for every request.
Timed == waiters

Timeout(id) ==
  /\ id \in Timed
  /\ Resolve(id, "error")
  /\ UNCHANGED <<thread, broken, replies, nextId, meters>>

\* What the thread may have written, unanswered, when it dies.
LeftBehind ==
  {ledger} \cup (IF thread.box # << >> /\ Head1.kind = "events"
                 THEN {Written(ledger, Head1.items)} ELSE {})

\* The thread dies; its messages arrive before its exit does.  Every waiter is
\* rejected.
Exit(clean) ==
  /\ thread.up /\ replies = << >>
  /\ thread' = [up |-> FALSE, box |-> << >>]
  /\ broken' = (broken \/ ~(clean \/ acknowledged))
  /\ waiters' = {}
  /\ \E l \in LeftBehind :
       IF waiting # 0 THEN FallBack(l) ELSE ledger' = l /\ UNCHANGED <<queue, waiting, fellBack>>
  /\ closing' = IF closing.stage = "asking" THEN [closing EXCEPT !.stage = "failed"] ELSE closing
  /\ UNCHANGED <<replies, nextId, meters, acknowledged>>

-----------------------------------------------------------------------------
\* recordToolMeterBatch(): never admitted on this thread.
Meter ==
  /\ meters < MaxMeters /\ MayCall
  /\ ~Retiring /\ UseWorker /\ ~broken
  /\ meters' = meters + 1
  /\ Post("meter", << >>) \/ NoThread
  /\ UNCHANGED <<queue, waiting, closing, acknowledged, fellBack, ledger>>

\* close() and retireWhenIdle(), called again after they failed.
Close ==
  /\ closing.stage \in {"open", "failed"}
  /\ closing.calls < MaxCloses /\ MayCall
  /\ closing' = [stage |-> "flushing", id |-> 0, calls |-> closing.calls + 1]
  /\ timer' = FALSE
  /\ ticks' = IF timer THEN ticks - 1 ELSE ticks
  /\ UNCHANGED <<submitted, pending, batch, answer, waiting, worker, meters, acknowledged,
                 fellBack, ledger>>

Flushed == closing.stage = "flushing" /\ batch = << >> /\ pending = << >>

\* close() after the flush, once every request has settled.
AskToClose ==
  /\ Flushed /\ waiters = {}
  /\ IF thread.up /\ ~acknowledged
     THEN \/ Post("close", << >>) /\ closing' = [closing EXCEPT !.stage = "asking", !.id = nextId]
          \/ closing' = [closing EXCEPT !.stage = "failed"] /\ UNCHANGED worker
     ELSE /\ closing' = [closing EXCEPT !.stage = IF thread.up THEN "ending" ELSE "closed"]
          /\ UNCHANGED worker
  /\ UNCHANGED <<queue, waiting, meters, acknowledged, fellBack, ledger>>

\* terminate(), which may fail as long as the thread has not exited.
Terminate(ended) ==
  /\ closing.stage = "ending"
  /\ ~thread.up => ended
  /\ closing' = [closing EXCEPT !.stage = IF ended THEN "closed" ELSE "failed"]
  /\ thread' = IF ended THEN [up |-> FALSE, box |-> << >>] ELSE thread
  /\ UNCHANGED <<queue, waiting, broken, waiters, replies, nextId, meters, acknowledged,
                 fellBack, ledger>>

-----------------------------------------------------------------------------
AdmissionNext ==
  \/ Submit \/ Tick \/ FlushDrain \/ Reply \/ Meter \/ Close \/ AskToClose
  \/ \E b \in BOOLEAN : Exit(b) \/ Terminate(b)
  \/ \E result \in {"durable", "failed", "error"} : ThreadAdmits(result)
  \/ \E result \in {"done", "error"} : ThreadServes(result)
  \/ \E id \in waiters : Timeout(id)

AdmissionSpec == AdmissionInit /\ [][AdmissionNext]_admissionVars

-----------------------------------------------------------------------------
(* Properties *)

Requests == [id : Nat, kind : {"events", "meter", "close"}, items : Seq(Records)]

AdmissionTypeOK ==
  /\ submitted \in 0 .. MaxRecords
  /\ pending \in Seq(Records) /\ batch \in Seq(Records) /\ Len(batch) <= MaxBatch
  /\ waiting \in Nat /\ (waiting # 0 => waiting \in waiters /\ batch # << >>)
  /\ timer \in BOOLEAN /\ ticks \in Nat /\ (timer => ticks > 0)
  /\ answer \in [Records -> {"none", "durable", "failed", "refused"}]
  /\ thread \in [up : BOOLEAN, box : Seq(Requests)]
  /\ broken \in BOOLEAN /\ waiters \subseteq 1 .. nextId - 1 /\ nextId \in Nat
  /\ replies \in Seq([id : Nat, result : {"durable", "failed", "done", "error"}])
  /\ meters \in 0 .. MaxMeters
  /\ closing \in [stage : Stages, id : Nat, calls : 0 .. MaxCloses]
  /\ acknowledged \in BOOLEAN /\ fellBack \in BOOLEAN
  /\ ledger \in Seq([record : Records, named : BOOLEAN])

EventsOf(r) == {i \in DOMAIN ledger : ledger[i].record = r}

\* "A tool call answers only after the transaction carrying its event has
\* committed": whoever is told "durable" has an event in the ledger, whichever
\* thread wrote it and whatever became of earlier batches.
AnsweredIsWritten ==
  \A r \in Records : answer[r] = "durable" => EventsOf(r) # {}

\* The ledger has the records in the order they were submitted; only a record
\* whose caller was told it failed may turn up after a later one.
WrittenInOrder ==
  \A r, s \in Records :
    /\ r < s /\ EventsOf(s) # {} /\ answer[r] # "failed"
    => \A i \in EventsOf(s) : \E j \in EventsOf(r) : j < i

\* A record is in the ledger twice only if a fallback was recorded.
TwiceIsTraced ==
  ~fellBack => \A r \in Records : Cardinality(EventsOf(r)) <= 1

\* The thread is never ended in the middle of something it was asked to do,
\* the batches and meter requests nobody waits for any more included.
NothingCutOff == closing.stage = "ending" => thread.box = << >>

\* A closed lane owes nothing: every record it accepted was answered, and no
\* timer, thread or request can bring another.
ClosedIsQuiet ==
  closing.stage = "closed" =>
    /\ ~thread.up /\ waiters = {} /\ batch = << >> /\ pending = << >>
    /\ \A r \in 1 .. submitted : answer[r] # "none"

\* The ledger, through timeouts, late answers and deaths of the thread, and
\* until the lane is closed: what was answered is written, in order, with a
\* second copy only where a fallback was recorded, nothing cut off and nothing
\* left over.
LedgerKept ==
  AnsweredIsWritten /\ WrittenInOrder /\ TwiceIsTraced /\ NothingCutOff /\ ClosedIsQuiet

\* Records without an answer, or a close() that is under way.
SomebodyWaits ==
  \/ \E r \in 1 .. submitted : answer[r] = "none"
  \/ closing.stage \in {"flushing", "asking", "ending"}

\* Whatever the thread does, it comes to where nobody waits for the lane: every
\* record has its answer, and close() has closed it or reported a failure.
EverybodyAnswered == []<>~SomebodyWaits

\* "A caller whose event id is derived from its content keeps that id through
\* the queue."
IdentityKept == \A i \in DOMAIN ledger : ledger[i].record \in Named => ledger[i].named
=============================================================================
