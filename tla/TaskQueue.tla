------------------------------ MODULE TaskQueue ------------------------------
(***************************************************************************)
(* src/src/lib/state-store.js: the durable tasks.  A task is submitted to  *)
(* a queue, claimed by a worker for the length of a lease, started, kept   *)
(* alive by heartbeats, checkpointed, and ended by its worker, by a        *)
(* cancellation, or by the reaper once the lease has passed.               *)
(*                                                                         *)
(* Every operation is one immediate SQLite transaction, so every operation *)
(* is one action.  A claim is known by its fence.  Any worker may call any *)
(* operation with any claim it was ever given, however old: an operation   *)
(* that refuses, or replays a recorded answer, changes nothing.            *)
(*                                                                         *)
(* A task stands for its queue and idempotency key.  Which of the tasks    *)
(* that may be claimed comes first (priority, then time) is left open.     *)
(***************************************************************************)
EXTENDS Integers, Sequences, FiniteSets

CONSTANTS
  Tasks,
  Queues,
  QueueOf,        \* the queue of each task
  RetrySafe,      \* the tasks submitted with expiry policy "retry"
  MaxAttempts,    \* max_attempts
  Keys,           \* checkpoint keys
  MaxCheckpoints, \* MAX_TASK_CHECKPOINTS
  MaxActive,      \* MAX_ACTIVE_TASKS_PER_QUEUE
  ReapLimit,      \* how many rows one reap takes
  MaxLease,       \* the longest lease a worker may ask for
  MaxDelay,       \* the longest delay before a task is available
  Backoff,        \* retry_backoff_ms
  MaxFence        \* bound: how often a task is claimed

ASSUME ConstantsAssumption ==
  /\ QueueOf \in [Tasks -> Queues]
  /\ IsFiniteSet(Tasks)
  /\ RetrySafe \subseteq Tasks
  /\ MaxAttempts \in Nat \ {0} /\ MaxFence \in Nat
  /\ MaxCheckpoints \in Nat /\ MaxActive \in Nat \ {0} /\ ReapLimit \in Nat \ {0}
  /\ MaxLease \in Nat \ {0} /\ MaxDelay \in Nat /\ Backoff \in Nat

Fences == 1 .. MaxFence

VARIABLES
  task,     \* the row of each task; timer is what is left of its lease, or of
            \* the delay until it is available
  attempts, \* the row of each claim of a task, by fence
  saved,    \* the checkpoints of each task, in the order of their revisions
  lost,     \* the tasks that are held by a worker that is gone
  begun     \* the claims of each task that were started (started_at_ms)

vars == <<task, attempts, saved, lost, begun>>

Statuses == {"absent", "queued", "leased", "running", "retry_wait", "uncertain",
             "succeeded", "failed", "cancelled"}
Final    == {"succeeded", "failed", "cancelled"}
Waiting  == {"queued", "retry_wait"}
Held     == {"leased", "running"}
Active   == Waiting \cup Held \cup {"uncertain"}

AttemptStatuses == {"none", "leased", "running", "succeeded", "retryable_failed", "failed",
                    "cancelled", "lease_expired", "uncertain"}

-----------------------------------------------------------------------------

Larger(a, b) == IF a < b THEN b ELSE a

\* _taskBackoff: doubled with every execution, up to the maximum.
Delay(t) ==
  LET n == task[t].attempt
      d == Backoff * 2 ^ (IF n = 0 THEN 0 ELSE n - 1)
  IN IF d \in 0 .. MaxDelay THEN d ELSE MaxDelay

\* Task t and its claim f with another status.
Ends(t, status, delay) == [task[t] EXCEPT !.status = status, !.timer = delay]
ClaimEnds(t, f, status) == [attempts[t] EXCEPT ![f].status = status]

\* Mutation: only a task that runs can lose its claim.
ExpiredRunning(q) ==
  {t \in Tasks : QueueOf[t] = q /\ task[t].status = "running" /\ task[t].timer = 0}

ActiveIn(q) == {t \in Tasks : QueueOf[t] = q /\ task[t].status \in Active}
Expired(q) == {t \in Tasks : QueueOf[t] = q /\ task[t].status \in Held /\ task[t].timer = 0}

\* _reapExpiredTasks, for one row.
Reaped(t) ==
  LET outcome(status, claim, delay) == [status |-> status, claim |-> claim, delay |-> delay]
  IN
  CASE task[t].status = "leased" /\ task[t].cancel -> outcome("cancelled", "cancelled", 0)
    [] task[t].status = "leased" /\ ~task[t].cancel -> outcome("retry_wait", "lease_expired", 0)
    [] /\ task[t].status = "running" /\ ~task[t].cancel
       /\ t \in RetrySafe /\ task[t].attempt < MaxAttempts
         -> outcome("retry_wait", "retryable_failed", Delay(t))
    [] OTHER -> outcome("uncertain", "uncertain", 0)

\* The tables after the rows of S are reaped.
TasksWithout(S) ==
  [t \in Tasks |-> IF t \in S THEN Ends(t, Reaped(t).status, Reaped(t).delay) ELSE task[t]]
AttemptsWithout(S) ==
  [t \in Tasks |-> IF t \in S THEN ClaimEnds(t, task[t].fence, Reaped(t).claim) ELSE attempts[t]]

\* The rows a claim of queue q reaps first: all there are, up to the limit.
Batches(q) ==
  {S \in SUBSET Expired(q) :
     Cardinality(S) = ReapLimit \/ (S = Expired(q) /\ Cardinality(S) < ReapLimit)}

\* Claim f of task t was made, and its worker can call.
Known(t, f) == attempts[t][f].status # "none" /\ (f = task[t].fence => t \notin lost)

\* Mutation: only the task is asked whether it is claimed, and not by whom.
CurrentClaimOfTask(t, f, status) ==
  /\ Known(t, f)
  /\ task[t].status = status
  /\ task[t].timer > 0

\* _currentTaskClaim: the claim is the task's current one, and in time.
CurrentClaim(t, f, status) ==
  /\ Known(t, f)
  /\ task[t].fence = f
  /\ task[t].status = status /\ attempts[t][f].status = status
  /\ task[t].timer > 0

-----------------------------------------------------------------------------

Init ==
  /\ task = [t \in Tasks |-> [status |-> "absent", attempt |-> 0, fence |-> 0,
                              cancel |-> FALSE, timer |-> 0]]
  /\ attempts = [t \in Tasks |-> [f \in Fences |-> [status |-> "none", number |-> 0]]]
  /\ saved = [t \in Tasks |-> << >>]
  /\ lost = {}
  /\ begun = [t \in Tasks |-> {}]

\* submitTask, submitTasks: a task that exists is a replay; one task too many
\* for its queue refuses the whole batch.
Submit(batch) ==
  /\ \E t \in batch : task[t].status = "absent"
  /\ \A t \in batch :
       Cardinality(ActiveIn(QueueOf[t])
                   \cup {u \in batch : QueueOf[u] = QueueOf[t] /\ task[u].status = "absent"})
         <= MaxActive
  /\ \E delay \in [batch -> 0 .. MaxDelay] :
       task' = [t \in Tasks |-> IF t \in batch /\ task[t].status = "absent"
                                THEN Ends(t, "queued", delay[t]) ELSE task[t]]
  /\ UNCHANGED <<attempts, saved, lost, begun>>

\* What claimTask selects.
Eligible(row) ==
  /\ row.status \in Waiting /\ row.timer = 0 /\ ~row.cancel
  /\ row.attempt < MaxAttempts
  /\ row.fence < MaxFence

Ready(q, rows) == {t \in Tasks : QueueOf[t] = q /\ Eligible(rows[t])}

\* The rows after a claim of task t.
Granted(row, lease) ==
  [row EXCEPT !.status = "leased", !.fence = @ + 1, !.timer = lease]
Issued(claims, row) ==
  [claims EXCEPT ![row.fence + 1] = [status |-> "leased", number |-> row.attempt + 1]]

\* claimTask reaps the queue first.
Claim(q) ==
  \E S \in Batches(q) :
    LET rows == TasksWithout(S)
        claims == AttemptsWithout(S)
    IN
    /\ \/ Ready(q, rows) = {} /\ task' = rows /\ attempts' = claims
       \/ \E t \in Ready(q, rows), lease \in 1 .. MaxLease :
            /\ task' = [rows EXCEPT ![t] = Granted(@, lease)]
            /\ attempts' = [claims EXCEPT ![t] = Issued(@, rows[t])]
    /\ lost' = lost \ S
    /\ UNCHANGED <<saved, begun>>

\* startTask.  A start that is repeated only renews the lease (Heartbeat).
Start(t, f) ==
  /\ CurrentClaim(t, f, "leased")
  /\ ~task[t].cancel
  /\ task[t].attempt + 1 = attempts[t][f].number
  /\ attempts[t][f].number <= MaxAttempts
  /\ \E lease \in 1 .. MaxLease :
       task' = [task EXCEPT ![t] = [Ends(t, "running", Larger(@.timer, lease))
                                    EXCEPT !.attempt = attempts[t][f].number]]
  /\ attempts' = [attempts EXCEPT ![t][f].status = "running"]
  /\ begun' = [begun EXCEPT ![t] = @ \cup {f}]
  /\ UNCHANGED <<saved, lost>>

\* heartbeatTask
Heartbeat(t, f) ==
  /\ CurrentClaim(t, f, "running")
  /\ \E lease \in 1 .. MaxLease :
       task' = [task EXCEPT ![t].timer = Larger(@, lease)]
  /\ UNCHANGED <<attempts, saved, lost, begun>>

\* checkpointTask: expected is the revision the worker knows of.
Checkpoint(t, f, key, expected) ==
  /\ [fence |-> f, key |-> key] \notin {saved[t][i] : i \in DOMAIN saved[t]}
  /\ CurrentClaim(t, f, "running")
  /\ ~task[t].cancel
  /\ expected = Len(saved[t]) /\ expected < MaxCheckpoints
  /\ saved' = [saved EXCEPT ![t] = Append(@, [fence |-> f, key |-> key])]
  /\ \E lease \in 0 .. MaxLease :
       task' = [task EXCEPT ![t].timer = Larger(@, lease)]
  /\ UNCHANGED <<attempts, lost, begun>>

\* completeTask: a late success is taken, even after the reaper has given up.
Complete(t, f) ==
  /\ Known(t, f)
  /\ ~task[t].cancel
  /\ task[t].fence = f /\ task[t].attempt = attempts[t][f].number
  /\ task[t].status \in {"running", "uncertain"}
  /\ attempts[t][f].status \in {"running", "uncertain"}
  /\ task' = [task EXCEPT ![t] = Ends(t, "succeeded", 0)]
  /\ attempts' = [attempts EXCEPT ![t] = ClaimEnds(t, f, "succeeded")]
  /\ UNCHANGED <<saved, lost, begun>>

Dispositions == {"retry", "failed", "uncertain", "cancelled"}

\* Mutation: the expiry policy is not looked at.
AdmitsAnyRetry(t, f, disposition) ==
  /\ attempts[t][f].status = "uncertain" => disposition = "failed"
  /\ task[t].fence = f
  /\ task[t].status \in Held \cup {"uncertain"}
  /\ attempts[t][f].status \in Held \cup {"uncertain"}
  /\ disposition = "uncertain" => task[t].status # "leased"
  /\ disposition = "cancelled" => task[t].cancel

\* Mutation: an execution that never began may be reported as uncertain.
AdmitsUnstarted(t, f, disposition) ==
  /\ disposition = "retry" => t \in RetrySafe
  /\ attempts[t][f].status = "uncertain" => disposition = "failed"
  /\ task[t].fence = f
  /\ task[t].status \in Held \cup {"uncertain"}
  /\ attempts[t][f].status \in Held \cup {"uncertain"}
  /\ disposition = "cancelled" => task[t].cancel

\* failTask: which reports of claim f of task t are taken.
Admits(t, f, disposition) ==
  /\ disposition = "retry" => t \in RetrySafe
  /\ attempts[t][f].status = "uncertain" => disposition = "failed"
  /\ task[t].fence = f
  /\ task[t].status \in Held \cup {"uncertain"}
  /\ attempts[t][f].status \in Held \cup {"uncertain"}
  /\ disposition = "uncertain" => task[t].status # "leased"
  /\ disposition = "cancelled" => task[t].cancel

\* Mutation: a retry is queued although a cancellation was requested.
BecomesRetried(t, disposition) ==
  CASE disposition = "cancelled" -> "cancelled"
    [] disposition = "uncertain" -> "uncertain"
    [] disposition = "retry" /\ task[t].attempt < MaxAttempts -> "retry_wait"
    [] OTHER -> "failed"

\* failTask: what becomes of the task.
Becomes(t, disposition) ==
  CASE disposition = "cancelled" \/ (disposition = "retry" /\ task[t].cancel) -> "cancelled"
    [] disposition = "uncertain" -> "uncertain"
    [] disposition = "retry" /\ ~task[t].cancel /\ task[t].attempt < MaxAttempts -> "retry_wait"
    [] OTHER -> "failed"

Fail(t, f, disposition) ==
  /\ Known(t, f)
  /\ Admits(t, f, disposition)
  /\ LET status == Becomes(t, disposition) IN
     /\ \E delay \in IF status = "retry_wait" THEN 0 .. MaxDelay ELSE {0} :
          task' = [task EXCEPT ![t] = Ends(t, status, delay)]
     /\ attempts' = [attempts EXCEPT ![t] =
          ClaimEnds(t, f, IF status = "retry_wait" THEN "retryable_failed" ELSE status)]
  /\ UNCHANGED <<saved, lost, begun>>

\* cancelTask
Cancel(t) ==
  /\ \/ /\ task[t].status \in Waiting
        /\ task' = [task EXCEPT ![t] = [Ends(t, "cancelled", 0) EXCEPT !.cancel = TRUE]]
     \/ /\ task[t].status \in Held
        /\ task' = [task EXCEPT ![t].cancel = TRUE]
  /\ UNCHANGED <<attempts, saved, lost, begun>>

\* reapExpiredTasks: of one queue or of all, with a limit of the caller's.
Reap ==
  \E S \in SUBSET UNION {Expired(q) : q \in Queues} :
    /\ S # {} /\ Cardinality(S) <= ReapLimit
    /\ task' = TasksWithout(S)
    /\ attempts' = AttemptsWithout(S)
    /\ lost' = lost \ S
    /\ UNCHANGED <<saved, begun>>

\* Time passes, for one lease or delay.
Pass(t) ==
  /\ task[t].timer > 0
  /\ task' = [task EXCEPT ![t].timer = @ - 1]
  /\ UNCHANGED <<attempts, saved, lost, begun>>

\* A worker dies, or the answer to its claim never reached it.
Vanish(t) ==
  /\ task[t].status \in Held
  /\ lost' = lost \cup {t}
  /\ UNCHANGED <<task, attempts, saved, begun>>

-----------------------------------------------------------------------------

Call(t, f) ==
  \/ Start(t, f) \/ Heartbeat(t, f) \/ Complete(t, f)
  \/ \E key \in Keys, expected \in 0 .. MaxCheckpoints : Checkpoint(t, f, key, expected)
  \/ \E disposition \in Dispositions : Fail(t, f, disposition)

Next ==
  \/ \E batch \in SUBSET Tasks : Submit(batch)
  \/ \E q \in Queues : Claim(q)
  \/ \E t \in Tasks : Cancel(t) \/ Pass(t) \/ Vanish(t)
  \/ \E t \in Tasks, f \in Fences : Call(t, f)
  \/ Reap

Spec == Init /\ [][Next]_vars

\* Time passes, some worker keeps asking each queue for work (nothing else
\* reaps), and a worker that is told of a cancellation acknowledges it.
FairSpec ==
  /\ Spec
  /\ \A q \in Queues : WF_vars(Claim(q))
  /\ \A t \in Tasks : WF_vars(t \in lost /\ Pass(t))
  /\ \A t \in Tasks : WF_vars(\E f \in Fences : Fail(t, f, "cancelled"))

-----------------------------------------------------------------------------
(* Properties *)

\* Every variable has its type; and the CHECK of task_attempts that is not a
\* type: a claim that runs, succeeded or is uncertain was started.
TypeOK ==
  /\ task \in [Tasks -> [status : Statuses, attempt : 0 .. MaxAttempts, fence : 0 .. MaxFence,
                         cancel : BOOLEAN, timer : Nat]]
  /\ attempts \in [Tasks -> [Fences -> [status : AttemptStatuses, number : 0 .. MaxAttempts]]]
  /\ saved \in [Tasks -> Seq([fence : Fences, key : Keys])]
  /\ lost \subseteq {t \in Tasks : task[t].status \in Held}
  /\ begun \in [Tasks -> SUBSET Fences]
  /\ \A t \in Tasks, f \in Fences :
       attempts[t][f].status \in {"running", "succeeded", "uncertain"} => f \in begun[t]

\* The expiry policy: a task that was not submitted as safe to retry is never
\* started twice, whoever vanished and whatever was reported; any other task
\* is started at most max_attempts times.
ExecutionsBounded ==
  \A t \in Tasks :
    Cardinality(begun[t]) <= IF t \in RetrySafe THEN MaxAttempts ELSE 1

\* The chain of checkpoints: a claim adds none once a later claim has, a key is
\* used once per claim, and only claims that were started have any.
CheckpointsFenced ==
  \A t \in Tasks :
    /\ \A i, j \in DOMAIN saved[t] : i < j =>
         /\ saved[t][i].fence <= saved[t][j].fence
         /\ saved[t][i] # saved[t][j]
    /\ \A i \in DOMAIN saved[t] : saved[t][i].fence \in begun[t]

\* Cancellation wins: a task whose cancellation was requested never waits for
\* another claim, is never started, checkpointed or completed.
CancelRespected ==
  [][\A t \in Tasks : task'[t].cancel =>
       /\ task'[t].status \notin Waiting \cup {"succeeded"}
       /\ begun'[t] = begun[t] /\ saved'[t] = saved[t]]_vars

\* An outcome is final, an uncertain one until its worker settles it.
OutcomesFinal ==
  [][\A t \in Tasks :
       /\ task[t].status \in Final => task'[t] = task[t]
       /\ task[t].status = "uncertain" => task'[t].status \in {"uncertain", "succeeded", "failed"}]_vars

\* The reaper takes no claim whose lease has not passed: while a claim is in
\* time, only its own worker ends it.
LiveLeaseKept ==
  [][\A t \in Tasks :
       t \in lost /\ task[t].timer > 0 =>
         task'[t].status = task[t].status /\ task'[t].fence = task[t].fence]_vars

\* A queue never holds more tasks than it may.
QueueBounded == \A q \in Queues : Cardinality(ActiveIn(q)) <= MaxActive

\* No claim is held for ever by a worker that is gone, nor after a cancellation:
\* the reaper or the worker's acknowledgement ends it.
ClaimsSettle ==
  \A t \in Tasks :
    LET stuck == t \in lost \/ (task[t].status \in Held /\ task[t].cancel)
    IN stuck ~> ~stuck
=============================================================================
