--------------------------- MODULE TaskQueueProofs ---------------------------
(***************************************************************************)
(* Proofs about TaskQueue.                                                 *)
(*                                                                         *)
(* The invariant speaks of one task at a time: what the four tables hold   *)
(* about it is Good.  Every operation writes one task (claimTask also the  *)
(* ones it reaps), so each lemma below shows that what the operation       *)
(* writes is good, and OneTask, OneRow or Assembled put the tables         *)
(* together.  The action properties rest on Kept: what no step does to a   *)
(* task that ended, or whose lease is in time.                             *)
(***************************************************************************)
EXTENDS TaskQueue, FiniteSetTheorems, TLAPS

Rows   == [status : Statuses, attempt : 0 .. MaxAttempts, fence : 0 .. MaxFence,
           cancel : BOOLEAN, timer : Nat]
Claims == [Fences -> [status : AttemptStatuses, number : 0 .. MaxAttempts]]
Chains == Seq([fence : Fences, key : Keys])

\* The type of what the tables hold about one task: its row, its claims, which
\* of them were started, and its checkpoints.
Typed(row, claims, starts, chain) ==
  /\ row \in Rows /\ claims \in Claims /\ starts \in SUBSET Fences /\ chain \in Chains
  /\ \A f \in Fences : claims[f].status \in {"running", "succeeded", "uncertain"} => f \in starts

\* The claim of a task that is held or uncertain agrees with the row of the task.
Agrees(row, claims) ==
  row.status \in Held \cup {"uncertain"} =>
    row.fence \in Fences /\ claims[row.fence].status = row.status

\* attempt counts the executions, the fence is above all of them.
Counted(row, starts) ==
  /\ IsFiniteSet(starts) /\ Cardinality(starts) = row.attempt
  /\ \A f \in starts : f <= row.fence
  /\ row.status = "leased" => row.fence \notin starts

\* A task that is not safe to retry waits or is leased only before its execution.
Once(t, row) ==
  t \notin RetrySafe =>
    /\ row.attempt <= 1
    /\ row.status \in Waiting \cup {"absent", "leased"} => row.attempt = 0

Stopped(row) == row.cancel => row.status \in Held \cup {"uncertain", "failed", "cancelled"}

\* Only a task that waits or is held has a time to wait for.
Quiet(row) == row.timer # 0 => row.status \in Waiting \cup Held

Chained(starts, chain) ==
  /\ \A i \in DOMAIN chain : chain[i].fence \in starts
  /\ \A i, j \in DOMAIN chain : i < j =>
       chain[i].fence <= chain[j].fence /\ chain[i] # chain[j]

Good(t, row, claims, starts, chain) ==
  /\ Typed(row, claims, starts, chain)
  /\ Agrees(row, claims) /\ Counted(row, starts) /\ Once(t, row) /\ Stopped(row)
  /\ Quiet(row) /\ Chained(starts, chain)

\* The inductive invariant: the tables are good for every task, and only tasks
\* that are held have a worker that is gone.
GoodTask(t) == Good(t, task[t], attempts[t], begun[t], saved[t])

IInv ==
  /\ TypeOK
  /\ \A t \in Tasks : GoodTask(t)

-----------------------------------------------------------------------------
(* One row *)

\* _reapExpiredTasks keeps a row good, and no row is held afterwards.
LEMMA ReapedGood ==
  ASSUME NEW t \in Tasks, GoodTask(t), task[t].status \in Held
  PROVE  /\ Good(t, Ends(t, Reaped(t).status, Reaped(t).delay),
                    ClaimEnds(t, task[t].fence, Reaped(t).claim), begun[t], saved[t])
         /\ Reaped(t).status \in {"cancelled", "retry_wait", "uncertain"}
         /\ task[t].cancel => Reaped(t).status # "retry_wait"
<1> DEFINE R == Reaped(t)
           row == task[t]
           new == Ends(t, R.status, R.delay)
           claims == attempts[t]
           after == ClaimEnds(t, row.fence, R.claim)
<1>0. /\ row \in Rows /\ claims \in Claims /\ begun[t] \in SUBSET Fences /\ saved[t] \in Chains
      /\ Agrees(row, claims) /\ Counted(row, begun[t]) /\ Once(t, row) /\ Stopped(row)
      /\ Chained(begun[t], saved[t])
      /\ row.fence \in Fences /\ claims[row.fence].status = row.status
  BY DEF GoodTask, Good, Typed, Agrees
<1>1. Delay(t) \in Nat
  BY ConstantsAssumption DEF Delay
<1>2. /\ R.status \in {"cancelled", "retry_wait", "uncertain"}
      /\ R.claim \in {"cancelled", "lease_expired", "retryable_failed", "uncertain"}
      /\ R.delay \in Nat /\ (R.delay # 0 => R.status = "retry_wait")
      /\ R.status = "uncertain" <=> R.claim = "uncertain"
      /\ R.status = "uncertain" => row.status = "running"
      /\ R.status = "retry_wait" => ~row.cancel /\ (row.status = "leased" \/ t \in RetrySafe)
  BY <1>0, <1>1, SMTT(30) DEF Reaped, Held, Rows
<1>3. new = [row EXCEPT !.status = R.status, !.timer = R.delay]
      /\ after = [claims EXCEPT ![row.fence].status = R.claim]
  BY DEF Ends, ClaimEnds
<1> HIDE DEF new, after, R
<1>4. /\ new \in Rows
      /\ new.status = R.status /\ new.attempt = row.attempt /\ new.fence = row.fence
      /\ new.cancel = row.cancel /\ new.timer = R.delay
  BY <1>0, <1>2, <1>3 DEF Rows, Statuses
<1>5. /\ after \in Claims
      /\ after[row.fence].status = R.claim
      /\ \A f \in Fences : f # row.fence => after[f] = claims[f]
  BY <1>0, <1>2, <1>3 DEF Claims, AttemptStatuses
<1>6. Typed(new, after, begun[t], saved[t])
  BY <1>0, <1>2, <1>4, <1>5 DEF GoodTask, Good, Typed, Held
<1>7. Agrees(new, after)
  BY <1>0, <1>2, <1>4, <1>5 DEF Agrees, Held
<1>8. Counted(new, begun[t])
  BY <1>0, <1>2, <1>4 DEF Counted
<1>9. Once(t, new)
  BY <1>0, <1>2, <1>4 DEF Once, Waiting
<1>10. Stopped(new) /\ Quiet(new)
  BY <1>0, <1>2, <1>4 DEF Stopped, Quiet, Held, Waiting
<1> QED
  BY <1>0, <1>2, <1>6, <1>7, <1>8, <1>9, <1>10 DEF Good, new, after, R

\* A row that claimTask selects stays good when it is granted.
LEMMA GrantedGood ==
  ASSUME NEW t \in Tasks, NEW row, NEW claims, NEW starts, NEW chain,
         Good(t, row, claims, starts, chain), Eligible(row), NEW lease \in 1 .. MaxLease
  PROVE  Good(t, Granted(row, lease), Issued(claims, row), starts, chain)
<1> DEFINE new == Granted(row, lease)
           after == Issued(claims, row)
           f == row.fence + 1
<1>0. /\ row \in Rows /\ claims \in Claims /\ starts \in SUBSET Fences /\ chain \in Chains
      /\ Counted(row, starts) /\ Once(t, row) /\ Chained(starts, chain)
      /\ MaxAttempts \in Nat /\ MaxFence \in Nat /\ MaxLease \in Nat
      /\ row.attempt < MaxAttempts /\ row.fence < MaxFence /\ row.status \in Waiting
      /\ ~row.cancel
  BY ConstantsAssumption DEF Good, Typed, Eligible
<1>1. f \in Fences /\ f \in 0 .. MaxFence
  BY <1>0 DEF Fences, Rows
<1>2. /\ new \in Rows
      /\ new.status = "leased" /\ new.attempt = row.attempt /\ new.fence = f
      /\ new.cancel = row.cancel
  <2>0. new = [row EXCEPT !.status = "leased", !.fence = f, !.timer = lease]
    BY Zenon DEF Granted
  <2> HIDE DEF new, f
  <2>1. new = [status |-> "leased", attempt |-> row.attempt, fence |-> f,
               cancel |-> row.cancel, timer |-> lease]
    BY <1>0, <2>0 DEF Rows
  <2>2. lease \in Nat /\ "leased" \in Statuses
    BY <1>0 DEF Statuses
  <2> QED
    BY <1>0, <1>1, <2>1, <2>2 DEF Rows
<1>3. /\ after \in Claims /\ after[f].status = "leased"
      /\ \A g \in Fences : g # f => after[g] = claims[g]
  BY <1>0, <1>1 DEF Issued, Claims, AttemptStatuses, Rows
<1>4. Typed(new, after, starts, chain)
  BY <1>0, <1>2, <1>3 DEF Good, Typed
<1>5. Agrees(new, after)
  BY <1>1, <1>2, <1>3 DEF Agrees, Held
<1>6. Counted(new, starts)
  BY <1>0, <1>2 DEF Counted, Rows, Fences
<1>7. Once(t, new)
  BY <1>0, <1>2 DEF Once, Waiting
<1>8. Stopped(new) /\ Quiet(new)
  BY <1>0, <1>2 DEF Stopped, Quiet, Held
<1> QED
  BY <1>0, <1>4, <1>5, <1>6, <1>7, <1>8 DEF Good

\* The clock and the heartbeats change only the timer.
LEMMA TimerGood ==
  ASSUME NEW t \in Tasks, NEW row, NEW claims, NEW starts, NEW chain,
         Good(t, row, claims, starts, chain), NEW timer \in Nat,
         row.status \in Waiting \cup Held
  PROVE  Good(t, [row EXCEPT !.timer = timer], claims, starts, chain)
<1> DEFINE new == [row EXCEPT !.timer = timer]
<1>1. row \in Rows
  BY DEF Good, Typed
<1>2. /\ new \in Rows
      /\ new.status = row.status /\ new.attempt = row.attempt /\ new.fence = row.fence
      /\ new.cancel = row.cancel
  BY <1>1 DEF Rows
<1> HIDE DEF new
<1>3. Good(t, new, claims, starts, chain)
  BY <1>2 DEF Good, Typed, Agrees, Counted, Once, Stopped, Quiet
<1> QED
  BY <1>3 DEF new

-----------------------------------------------------------------------------
(* All rows *)

\* A good row of every task makes the invariant.
LEMMA Assembled ==
  ASSUME task' = [u \in Tasks |-> task'[u]], attempts' = [u \in Tasks |-> attempts'[u]],
         begun' = [u \in Tasks |-> begun'[u]], saved' = [u \in Tasks |-> saved'[u]],
         \A u \in Tasks : Good(u, task'[u], attempts'[u], begun'[u], saved'[u]),
         \A u \in lost' : u \in Tasks /\ task'[u].status \in Held
  PROVE  IInv'
<1>1. \A u \in Tasks : GoodTask(u)'
  BY DEF GoodTask
<1>2. TypeOK'
  <2>1. \A u \in Tasks : Typed(task'[u], attempts'[u], begun'[u], saved'[u])
    BY DEF Good
  <2>2. task' \in [Tasks -> Rows]
    BY <2>1 DEF Typed
  <2>3. attempts' \in [Tasks -> Claims]
    BY <2>1 DEF Typed
  <2>4. begun' \in [Tasks -> SUBSET Fences]
    BY <2>1 DEF Typed
  <2>5. saved' \in [Tasks -> Chains]
    BY <2>1 DEF Typed
  <2>6. lost' \subseteq {t \in Tasks : task'[t].status \in Held}
    OBVIOUS
  <2>7. \A t \in Tasks, f \in Fences :
          attempts'[t][f].status \in {"running", "succeeded", "uncertain"} => f \in begun'[t]
    BY <2>1 DEF Typed
  <2> QED
    BY <2>2, <2>3, <2>4, <2>5, <2>6, <2>7 DEF TypeOK, Rows, Claims, Chains
<1> QED
  BY <1>1, <1>2 DEF IInv

\* What the invariant says of the tables as functions.
LEMMA Tables ==
  ASSUME IInv
  PROVE  /\ task = [u \in Tasks |-> task[u]] /\ attempts = [u \in Tasks |-> attempts[u]]
         /\ begun = [u \in Tasks |-> begun[u]] /\ saved = [u \in Tasks |-> saved[u]]
         /\ \A u \in Tasks : Good(u, task[u], attempts[u], begun[u], saved[u])
         /\ \A u \in Tasks : Typed(task[u], attempts[u], begun[u], saved[u])
         /\ \A u \in lost : u \in Tasks /\ task[u].status \in Held
BY DEF IInv, TypeOK, GoodTask, Good

\* A step that gives task t this row, these claims, starts and checkpoints.
Sets(t, row, claims, starts, chain) ==
  /\ task' = [task EXCEPT ![t] = row] /\ attempts' = [attempts EXCEPT ![t] = claims]
  /\ begun' = [begun EXCEPT ![t] = starts] /\ saved' = [saved EXCEPT ![t] = chain]
  /\ lost' = lost

\* An operation on one task.
LEMMA OneTask ==
  ASSUME IInv, NEW t \in Tasks, NEW row, NEW claims, NEW starts, NEW chain,
         Good(t, row, claims, starts, chain), Sets(t, row, claims, starts, chain),
         t \in lost => row.status \in Held
  PROVE  IInv'
<1>1. /\ task' = [u \in Tasks |-> IF u = t THEN row ELSE task[u]]
      /\ attempts' = [u \in Tasks |-> IF u = t THEN claims ELSE attempts[u]]
      /\ begun' = [u \in Tasks |-> IF u = t THEN starts ELSE begun[u]]
      /\ saved' = [u \in Tasks |-> IF u = t THEN chain ELSE saved[u]]
  BY Tables DEF Sets
<1>2. \A u \in Tasks : Good(u, task'[u], attempts'[u], begun'[u], saved'[u])
  BY <1>1, Tables
<1>3. \A u \in lost' : u \in Tasks /\ task'[u].status \in Held
  BY <1>1, Tables DEF Sets
<1>4. /\ task' = [u \in Tasks |-> task'[u]] /\ attempts' = [u \in Tasks |-> attempts'[u]]
      /\ begun' = [u \in Tasks |-> begun'[u]] /\ saved' = [u \in Tasks |-> saved'[u]]
  BY <1>1
<1> QED
  BY <1>2, <1>3, <1>4, Assembled

\* An operation that leaves the claims, starts and checkpoints alone.
LEMMA OneRow ==
  ASSUME IInv, NEW t \in Tasks, NEW row,
         Good(t, row, attempts[t], begun[t], saved[t]),
         task' = [task EXCEPT ![t] = row], UNCHANGED <<attempts, begun, saved>>,
         lost' = lost, t \in lost => row.status \in Held
  PROVE  IInv'
<1>1. task' = [u \in Tasks |-> IF u = t THEN row ELSE task[u]]
  BY Tables
<1>2. \A u \in Tasks : Good(u, task'[u], attempts'[u], begun'[u], saved'[u])
  BY <1>1, Tables
<1>3. \A u \in lost' : u \in Tasks /\ task'[u].status \in Held
  BY <1>1, Tables
<1>4. task' = [u \in Tasks |-> task'[u]]
  BY <1>1
<1>5. /\ attempts' = [u \in Tasks |-> attempts'[u]]
      /\ begun' = [u \in Tasks |-> begun'[u]] /\ saved' = [u \in Tasks |-> saved'[u]]
  BY Tables
<1> QED
  BY <1>2, <1>3, <1>4, <1>5, Assembled

-----------------------------------------------------------------------------
(* The invariant *)

\* The empty tables are good.
LEMMA InitGood == Init => IInv
<1> SUFFICES ASSUME Init PROVE IInv
  OBVIOUS
<1> DEFINE row == [status |-> "absent", attempt |-> 0, fence |-> 0, cancel |-> FALSE, timer |-> 0]
           claims == [f \in Fences |-> [status |-> "none", number |-> 0]]
<1>1. row \in Rows /\ claims \in Claims
  BY ConstantsAssumption DEF Rows, Claims, Statuses, AttemptStatuses
<1>2. << >> \in Chains /\ DOMAIN << >> = {}
  BY DEF Chains
<1>3. IsFiniteSet({}) /\ Cardinality({}) = 0
  BY FS_EmptySet
<1>4. ASSUME NEW t \in Tasks PROVE Good(t, row, claims, {}, << >>)
  <2>1. Typed(row, claims, {}, << >>)
    BY <1>1, <1>2 DEF Typed
  <2>2. Agrees(row, claims) /\ Counted(row, {}) /\ Once(t, row) /\ Stopped(row) /\ Quiet(row)
    BY <1>3 DEF Agrees, Counted, Once, Stopped, Quiet, Held
  <2>3. Chained({}, << >>)
    BY <1>2 DEF Chained
  <2> QED
    BY <2>1, <2>2, <2>3 DEF Good
<1>5. \A t \in Tasks : GoodTask(t)
  BY <1>4 DEF GoodTask, Init
<1>6. lost = {}
  BY DEF Init
<1>7. TypeOK
  <2>1. task \in [Tasks -> Rows] /\ attempts \in [Tasks -> Claims]
    BY <1>1 DEF Init
  <2>2. saved \in [Tasks -> Chains] /\ begun \in [Tasks -> SUBSET Fences]
    BY <1>2 DEF Init
  <2>3. \A t \in Tasks, f \in Fences :
          attempts[t][f].status \in {"running", "succeeded", "uncertain"} => f \in begun[t]
    BY DEF Init
  <2> QED
    BY <1>6, <2>1, <2>2, <2>3 DEF TypeOK, Rows, Claims, Chains
<1> QED
  BY <1>5, <1>7 DEF IInv

\* submitTask: a new row is good.
LEMMA SubmitGood == ASSUME IInv, NEW batch \in SUBSET Tasks, Submit(batch) PROVE IInv'
<1>1. PICK delay \in [batch -> 0 .. MaxDelay] :
        task' = [t \in Tasks |-> IF t \in batch /\ task[t].status = "absent"
                                 THEN Ends(t, "queued", delay[t]) ELSE task[t]]
  BY DEF Submit
<1>2. UNCHANGED <<attempts, saved, lost, begun>>
  BY DEF Submit
<1>3. ASSUME NEW u \in Tasks, u \in batch, task[u].status = "absent"
      PROVE  Good(u, Ends(u, "queued", delay[u]), attempts[u], begun[u], saved[u])
  <2> DEFINE new == Ends(u, "queued", delay[u])
  <2>1. Good(u, task[u], attempts[u], begun[u], saved[u]) /\ task[u] \in Rows
    BY Tables DEF Typed
  <2>2. delay[u] \in Nat
    BY <1>3, ConstantsAssumption
  <2>3. /\ new \in Rows
        /\ new.status = "queued" /\ new.attempt = task[u].attempt
        /\ new.fence = task[u].fence /\ new.cancel = task[u].cancel
    BY <2>1, <2>2 DEF Ends, Rows, Statuses
  <2> HIDE DEF new
  <2>4. Good(u, new, attempts[u], begun[u], saved[u])
    BY <1>3, <2>1, <2>3 DEF Good, Typed, Agrees, Counted, Once, Stopped, Quiet, Held, Waiting
  <2> QED
    BY <2>4 DEF new
<1>4. \A u \in Tasks : Good(u, task'[u], attempts'[u], begun'[u], saved'[u])
  BY <1>1, <1>2, <1>3, Tables
<1>5. \A u \in lost' : u \in Tasks /\ task'[u].status \in Held
  BY <1>1, <1>2, Tables DEF Held
<1>6. /\ task' = [u \in Tasks |-> task'[u]] /\ attempts' = [u \in Tasks |-> attempts'[u]]
      /\ begun' = [u \in Tasks |-> begun'[u]] /\ saved' = [u \in Tasks |-> saved'[u]]
  BY <1>1, <1>2, Tables
<1> QED
  BY <1>4, <1>5, <1>6, Assembled

\* The tables after a reap are good.
LEMMA ReapGood ==
  ASSUME IInv, NEW S \in SUBSET Tasks, \A t \in S : task[t].status \in Held
  PROVE  /\ \A u \in Tasks :
              Good(u, TasksWithout(S)[u], AttemptsWithout(S)[u], begun[u], saved[u])
         /\ \A u \in lost \ S : u \in Tasks /\ TasksWithout(S)[u].status \in Held
<1>1. ASSUME NEW u \in Tasks
      PROVE  Good(u, TasksWithout(S)[u], AttemptsWithout(S)[u], begun[u], saved[u])
  <2>1. CASE u \in S
    <3>1. GoodTask(u)
      BY DEF IInv
    <3>2. Good(u, Ends(u, Reaped(u).status, Reaped(u).delay),
                  ClaimEnds(u, task[u].fence, Reaped(u).claim), begun[u], saved[u])
      BY <2>1, <3>1, ReapedGood
    <3> QED
      BY <2>1, <3>2 DEF TasksWithout, AttemptsWithout
  <2>2. CASE u \notin S
    BY <2>2, Tables DEF TasksWithout, AttemptsWithout
  <2> QED
    BY <2>1, <2>2
<1>2. \A u \in lost \ S : u \in Tasks /\ TasksWithout(S)[u].status \in Held
  BY Tables DEF TasksWithout
<1> QED
  BY <1>1, <1>2

\* claimTask
LEMMA ClaimGood == ASSUME IInv, NEW q \in Queues, Claim(q) PROVE IInv'
<1>1. PICK S \in Batches(q) :
        /\ \/ /\ Ready(q, TasksWithout(S)) = {}
              /\ task' = TasksWithout(S) /\ attempts' = AttemptsWithout(S)
           \/ \E t \in Ready(q, TasksWithout(S)), lease \in 1 .. MaxLease :
                /\ task' = [TasksWithout(S) EXCEPT ![t] = Granted(@, lease)]
                /\ attempts' = [AttemptsWithout(S) EXCEPT ![t] = Issued(@, TasksWithout(S)[t])]
        /\ lost' = lost \ S
        /\ UNCHANGED <<saved, begun>>
  BY DEF Claim
<1> DEFINE rows == TasksWithout(S)
           claims == AttemptsWithout(S)
<1>2. S \in SUBSET Tasks /\ \A t \in S : task[t].status \in Held
  BY DEF Batches, Expired
<1>3. /\ \A u \in Tasks : Good(u, rows[u], claims[u], begun[u], saved[u])
      /\ \A u \in lost \ S : u \in Tasks /\ rows[u].status \in Held
  BY <1>2, ReapGood
<1>4. rows = [u \in Tasks |-> rows[u]] /\ claims = [u \in Tasks |-> claims[u]]
  BY DEF TasksWithout, AttemptsWithout
<1>5. begun' = [u \in Tasks |-> begun'[u]] /\ saved' = [u \in Tasks |-> saved'[u]]
  BY <1>1, Tables
<1> HIDE DEF rows, claims
<1>6. CASE task' = rows /\ attempts' = claims
  <2>1. \A u \in Tasks : Good(u, task'[u], attempts'[u], begun'[u], saved'[u])
    BY <1>1, <1>3, <1>6
  <2>2. \A u \in lost' : u \in Tasks /\ task'[u].status \in Held
    BY <1>1, <1>3, <1>6
  <2>3. task' = [u \in Tasks |-> task'[u]] /\ attempts' = [u \in Tasks |-> attempts'[u]]
    BY <1>4, <1>6
  <2> QED
    BY <1>5, <2>1, <2>2, <2>3, Assembled
<1>7. ASSUME NEW t \in Ready(q, rows), NEW lease \in 1 .. MaxLease,
             task' = [rows EXCEPT ![t] = Granted(@, lease)],
             attempts' = [claims EXCEPT ![t] = Issued(@, rows[t])]
      PROVE  IInv'
  <2>1. t \in Tasks /\ Eligible(rows[t])
    BY DEF Ready
  <2>2. Good(t, Granted(rows[t], lease), Issued(claims[t], rows[t]), begun[t], saved[t])
    BY <1>3, <2>1, GrantedGood
  <2>3. /\ task' = [u \in Tasks |-> IF u = t THEN Granted(rows[t], lease) ELSE rows[u]]
        /\ attempts' = [u \in Tasks |-> IF u = t THEN Issued(claims[t], rows[t]) ELSE claims[u]]
    BY <1>4, <1>7, <2>1
  <2>4. \A u \in Tasks : Good(u, task'[u], attempts'[u], begun'[u], saved'[u])
    BY <1>1, <1>3, <2>2, <2>3
  <2>5. Granted(rows[t], lease).status \in Held
    BY <1>3, <2>1 DEF Granted, Held, Good, Typed, Rows
  <2>6. \A u \in lost' : u \in Tasks /\ task'[u].status \in Held
    BY <1>1, <1>3, <2>3, <2>5
  <2>7. task' = [u \in Tasks |-> task'[u]] /\ attempts' = [u \in Tasks |-> attempts'[u]]
    BY <2>3
  <2> QED
    BY <1>5, <2>4, <2>6, <2>7, Assembled
<1> QED
  BY <1>1, <1>6, <1>7 DEF rows, claims

\* reapExpiredTasks
LEMMA ReapStepGood == ASSUME IInv, Reap PROVE IInv'
<1>1. PICK S \in SUBSET UNION {Expired(q) : q \in Queues} :
        /\ task' = TasksWithout(S) /\ attempts' = AttemptsWithout(S)
        /\ lost' = lost \ S /\ UNCHANGED <<saved, begun>>
  BY DEF Reap
<1>2. S \in SUBSET Tasks /\ \A t \in S : task[t].status \in Held
  BY DEF Expired
<1>3. /\ \A u \in Tasks : Good(u, task'[u], attempts'[u], begun'[u], saved'[u])
      /\ \A u \in lost' : u \in Tasks /\ task'[u].status \in Held
  BY <1>1, <1>2, ReapGood
<1>4. /\ task' = [u \in Tasks |-> task'[u]] /\ attempts' = [u \in Tasks |-> attempts'[u]]
  BY <1>1 DEF TasksWithout, AttemptsWithout
<1>5. begun' = [u \in Tasks |-> begun'[u]] /\ saved' = [u \in Tasks |-> saved'[u]]
  BY <1>1, Tables
<1> QED
  BY <1>3, <1>4, <1>5, Assembled

-----------------------------------------------------------------------------
(* The calls of a worker *)

\* What a call finds: the good row of its task, and if it is the current claim,
\* a worker that is not gone.
LEMMA Called ==
  ASSUME IInv, NEW t \in Tasks, NEW f \in Fences, Known(t, f), task[t].fence = f
  PROVE  /\ Typed(task[t], attempts[t], begun[t], saved[t])
         /\ Agrees(task[t], attempts[t]) /\ Counted(task[t], begun[t])
         /\ Once(t, task[t]) /\ Stopped(task[t]) /\ Chained(begun[t], saved[t])
         /\ t \notin lost
BY Tables DEF Good, Known

\* startTask: the claim was not started before, so the executions stay counted.
LEMMA StartGood ==
  ASSUME IInv, NEW t \in Tasks, NEW f \in Fences, Start(t, f) PROVE IInv'
<1> DEFINE row == task[t]
           claims == attempts[t]
           number == claims[f].number
<1>1. /\ row.fence = f /\ row.status = "leased" /\ ~row.cancel /\ Known(t, f)
      /\ row.attempt + 1 = number /\ number <= MaxAttempts
  BY DEF Start, CurrentClaim
<1>2. PICK lease \in 1 .. MaxLease :
        task' = [task EXCEPT ![t] = [Ends(t, "running", Larger(@.timer, lease))
                                     EXCEPT !.attempt = number]]
  BY DEF Start
<1>3. /\ attempts' = [attempts EXCEPT ![t][f].status = "running"]
      /\ begun' = [begun EXCEPT ![t] = @ \cup {f}]
      /\ saved' = saved /\ lost' = lost
  BY DEF Start
<1>4. /\ row \in Rows /\ claims \in Claims /\ begun[t] \in SUBSET Fences /\ saved[t] \in Chains
      /\ Agrees(row, claims) /\ Counted(row, begun[t]) /\ Once(t, row)
      /\ Chained(begun[t], saved[t]) /\ t \notin lost
      /\ \A g \in Fences : claims[g].status \in {"running", "succeeded", "uncertain"} => g \in begun[t]
  BY <1>1, Called DEF Typed
<1> DEFINE timer == Larger(row.timer, lease)
           new == [status |-> "running", attempt |-> number, fence |-> f,
                   cancel |-> row.cancel, timer |-> timer]
           after == [claims EXCEPT ![f].status = "running"]
           starts == begun[t] \cup {f}
<1>5. timer \in Nat
  BY <1>4, ConstantsAssumption DEF Larger, Rows
<1>6. [Ends(t, "running", timer) EXCEPT !.attempt = number] = new
  <2> DEFINE ended == Ends(t, "running", timer)
             made == [ended EXCEPT !.attempt = number]
  <2>1. ended = [row EXCEPT !.status = "running", !.timer = timer]
    BY Zenon DEF Ends
  <2>2. made = [ended EXCEPT !.attempt = number]
    OBVIOUS
  <2> HIDE DEF timer, number, made, ended
  <2>3. ended = [status |-> "running", attempt |-> row.attempt, fence |-> f,
                 cancel |-> row.cancel, timer |-> timer]
    BY <1>1, <1>4, <2>1 DEF Rows
  <2>4. made = new
    BY <2>2, <2>3
  <2> QED
    BY <2>4 DEF made, ended
<1>7. number \in 0 .. MaxAttempts /\ number = row.attempt + 1 /\ row.attempt \in Nat
  BY <1>1, <1>4, ConstantsAssumption DEF Rows
<1>8. new \in Rows
  <2> HIDE DEF timer, number
  <2> QED
    BY <1>1, <1>4, <1>5, <1>7 DEF Rows, Statuses
<1>9. /\ after \in Claims /\ after[f].status = "running"
      /\ \A g \in Fences : g # f => after[g] = claims[g]
  BY <1>4 DEF Claims, AttemptStatuses
<1>10. f \notin begun[t] /\ IsFiniteSet(begun[t]) /\ Cardinality(begun[t]) = row.attempt
       /\ \A g \in begun[t] : g <= f
  BY <1>1, <1>4 DEF Counted
<1>11. IsFiniteSet(starts) /\ Cardinality(starts) = number
  BY <1>7, <1>10, FS_AddElement
<1>12. f <= f
  BY DEF Fences
<1> HIDE DEF timer, after
<1>13. Typed(new, after, starts, saved[t])
  BY <1>4, <1>8, <1>9 DEF Typed
<1>14. Agrees(new, after) /\ Counted(new, starts) /\ Stopped(new) /\ Quiet(new)
  BY <1>1, <1>9, <1>10, <1>11, <1>12 DEF Agrees, Counted, Stopped, Quiet, Held
<1>15. Once(t, new)
  BY <1>1, <1>4, <1>7 DEF Once, Waiting
<1>16. Chained(starts, saved[t])
  BY <1>4 DEF Chained
<1>17. Good(t, new, after, starts, saved[t])
  BY <1>13, <1>14, <1>15, <1>16 DEF Good
<1>18. Sets(t, new, after, starts, saved[t])
  <2>1. task' = [task EXCEPT ![t] = new]
    <3>1. task' = [task EXCEPT ![t] = [Ends(t, "running", timer) EXCEPT !.attempt = number]]
      BY <1>2, Zenon DEF timer
    <3> HIDE DEF new
    <3> QED
      BY <1>6, <3>1
  <2>2. attempts' = [attempts EXCEPT ![t] = after]
    BY <1>3 DEF after
  <2>3. saved' = [saved EXCEPT ![t] = saved[t]]
    BY <1>3, Tables
  <2> QED
    BY <1>3, <2>1, <2>2, <2>3 DEF Sets
<1> HIDE DEF new, starts
<1> QED
  BY <1>4, <1>17, <1>18, OneTask

\* heartbeatTask, and the passing of time: only the timer changes.
LEMMA TimerStep ==
  ASSUME IInv, NEW t \in Tasks, NEW timer \in Nat,
         task' = [task EXCEPT ![t].timer = timer], UNCHANGED <<attempts, begun, saved>>,
         lost' = lost, task[t].status \in Waiting \cup Held
  PROVE  IInv'
<1> DEFINE row == [task[t] EXCEPT !.timer = timer]
<1>1. Good(t, task[t], attempts[t], begun[t], saved[t])
  BY Tables
<1>2. Good(t, row, attempts[t], begun[t], saved[t])
  BY <1>1, TimerGood
<1>3. task' = [task EXCEPT ![t] = row]
  OBVIOUS
<1>4. row.status = task[t].status
  BY <1>1 DEF Good, Typed, Rows
<1> HIDE DEF row
<1>5. t \in lost => row.status \in Held
  BY <1>4, Tables
<1> QED
  BY <1>2, <1>3, <1>5, OneRow

\* heartbeatTask
LEMMA HeartbeatGood ==
  ASSUME IInv, NEW t \in Tasks, NEW f \in Fences, Heartbeat(t, f) PROVE IInv'
<1>1. PICK lease \in 1 .. MaxLease : task' = [task EXCEPT ![t].timer = Larger(@, lease)]
  BY DEF Heartbeat
<1>2. Larger(task[t].timer, lease) \in Nat
  BY Tables, ConstantsAssumption DEF Larger, Typed, Rows
<1>3. UNCHANGED <<attempts, begun, saved>> /\ lost' = lost /\ task[t].status \in Held
  BY DEF Heartbeat, CurrentClaim, Held
<1> QED
  BY <1>1, <1>2, <1>3, TimerStep

\* Time never runs below zero, and only for rows that wait for it.
LEMMA PassGood == ASSUME IInv, NEW t \in Tasks, Pass(t) PROVE IInv'
<1>1. task' = [task EXCEPT ![t].timer = task[t].timer - 1]
  BY DEF Pass
<1>2. task[t].timer - 1 \in Nat
  BY Tables DEF Pass, Typed, Rows
<1>3. UNCHANGED <<attempts, begun, saved>> /\ lost' = lost
  BY DEF Pass
<1>4. task[t].status \in Waiting \cup Held
  BY Tables DEF Pass, Good, Typed, Quiet, Rows
<1> QED
  BY <1>1, <1>2, <1>3, <1>4, TimerStep

\* checkpointTask: every earlier checkpoint was made by a claim that was started,
\* and no claim that was started is above the current one.
LEMMA CheckpointGood ==
  ASSUME IInv, NEW t \in Tasks, NEW f \in Fences, NEW key \in Keys, NEW expected,
         Checkpoint(t, f, key, expected)
  PROVE  IInv'
<1> DEFINE one == [fence |-> f, key |-> key]
           chain == saved[t]
           after == Append(chain, one)
<1>1. /\ Known(t, f) /\ task[t].fence = f
      /\ task[t].status = "running" /\ attempts[t][f].status = "running"
      /\ one \notin {chain[i] : i \in DOMAIN chain}
  BY DEF Checkpoint, CurrentClaim
<1>2. PICK lease \in 0 .. MaxLease : task' = [task EXCEPT ![t].timer = Larger(@, lease)]
  BY DEF Checkpoint
<1>3. /\ saved' = [saved EXCEPT ![t] = after]
      /\ attempts' = attempts /\ begun' = begun /\ lost' = lost
  BY DEF Checkpoint
<1>4. /\ Typed(task[t], attempts[t], begun[t], chain) /\ Counted(task[t], begun[t])
      /\ Chained(begun[t], chain) /\ t \notin lost
      /\ Good(t, task[t], attempts[t], begun[t], chain)
  BY <1>1, Called, Tables
<1> DEFINE timer == Larger(task[t].timer, lease)
           row == [task[t] EXCEPT !.timer = timer]
<1>5. timer \in Nat
  BY <1>4, ConstantsAssumption DEF Larger, Typed, Rows
<1>6. Good(t, row, attempts[t], begun[t], chain)
  <2> HIDE DEF timer
  <2> QED
    BY <1>1, <1>4, <1>5, TimerGood DEF Held
<1>7. f \in begun[t] /\ \A g \in begun[t] : g <= f
  BY <1>1, <1>4 DEF Typed, Counted
<1>8. /\ chain \in Chains /\ one \in [fence : Fences, key : Keys]
      /\ one.fence = f
  BY <1>4 DEF Typed
<1> HIDE DEF one, timer, row
<1>9. /\ after \in Chains
      /\ DOMAIN after = 1 .. Len(chain) + 1 /\ DOMAIN chain = 1 .. Len(chain)
      /\ Len(chain) \in Nat
      /\ \A i \in DOMAIN chain : after[i] = chain[i]
      /\ after[Len(chain) + 1] = one
  BY <1>8 DEF Chains
<1> HIDE DEF after
<1>10. Chained(begun[t], after)
  <2>1. \A i \in DOMAIN after : after[i].fence \in begun[t]
    BY <1>4, <1>7, <1>8, <1>9 DEF Chained
  <2>2. ASSUME NEW i \in DOMAIN after, NEW j \in DOMAIN after, i < j
        PROVE  after[i].fence <= after[j].fence /\ after[i] # after[j]
    <3>1. i \in DOMAIN chain
      BY <1>9, <2>2
    <3>2. CASE j \in DOMAIN chain
      BY <1>4, <1>9, <2>2, <3>1, <3>2 DEF Chained
    <3>3. CASE j \notin DOMAIN chain
      <4>1. after[j] = one /\ after[i] = chain[i]
        BY <1>9, <2>2, <3>1, <3>3
      <4> QED
        BY <1>1, <1>7, <1>8, <2>1, <3>1, <4>1
    <3> QED
      BY <3>2, <3>3
  <2> QED
    BY <2>1, <2>2 DEF Chained
<1>11. Good(t, row, attempts[t], begun[t], after)
  BY <1>6, <1>9, <1>10 DEF Good, Typed
<1>12. Sets(t, row, attempts[t], begun[t], after)
  <2>1. task' = [task EXCEPT ![t] = row]
    BY <1>2 DEF row, timer
  <2>2. /\ attempts' = [attempts EXCEPT ![t] = attempts[t]]
        /\ begun' = [begun EXCEPT ![t] = begun[t]]
    BY <1>3, Tables
  <2> QED
    BY <1>3, <2>1, <2>2 DEF Sets
<1> QED
  BY <1>4, <1>11, <1>12, OneTask

\* The current claim of a task ends.
LEMMA EndGood ==
  ASSUME IInv, NEW t \in Tasks, NEW f \in Fences, Known(t, f), task[t].fence = f,
         NEW status \in Final \cup {"uncertain", "retry_wait"},
         NEW claim \in Final \cup {"uncertain", "retryable_failed"},
         NEW delay \in Nat,
         task[t].status \in Held \cup {"uncertain"},
         status = "uncertain" => claim = "uncertain",
         claim \in {"succeeded", "uncertain"} => f \in begun[t],
         status = "retry_wait" => t \in RetrySafe, delay # 0 => status = "retry_wait",
         task[t].cancel => status \in {"uncertain", "failed", "cancelled"},
         task' = [task EXCEPT ![t] = Ends(t, status, delay)],
         attempts' = [attempts EXCEPT ![t] = ClaimEnds(t, f, claim)],
         UNCHANGED <<saved, lost, begun>>
  PROVE  IInv'
<1> DEFINE row == task[t]
           new == Ends(t, status, delay)
           after == ClaimEnds(t, f, claim)
<1>1. /\ row \in Rows /\ attempts[t] \in Claims /\ begun[t] \in SUBSET Fences
      /\ saved[t] \in Chains
      /\ \A g \in Fences : attempts[t][g].status \in {"running", "succeeded", "uncertain"}
                             => g \in begun[t]
      /\ Counted(row, begun[t]) /\ Once(t, row) /\ Chained(begun[t], saved[t]) /\ t \notin lost
  BY Called DEF Typed
<1>2. /\ new \in Rows /\ new.status = status /\ new.attempt = row.attempt /\ new.fence = f
      /\ new.cancel = row.cancel /\ new.timer = delay
  BY <1>1 DEF Ends, Rows, Statuses, Final
<1>3. /\ after \in Claims /\ after[f].status = claim
      /\ \A g \in Fences : g # f => after[g] = attempts[t][g]
  BY <1>1 DEF ClaimEnds, Claims, AttemptStatuses, Final
<1>4. Sets(t, new, after, begun[t], saved[t])
  <2>1. begun' = [begun EXCEPT ![t] = begun[t]] /\ saved' = [saved EXCEPT ![t] = saved[t]]
    BY Tables
  <2> QED
    BY <2>1 DEF Sets
<1> HIDE DEF new, after
<1>5. Typed(new, after, begun[t], saved[t])
  BY <1>1, <1>2, <1>3 DEF Typed, Final
<1>6. Agrees(new, after) /\ Counted(new, begun[t]) /\ Stopped(new) /\ Quiet(new)
  BY <1>1, <1>2, <1>3 DEF Agrees, Counted, Stopped, Quiet, Held, Waiting, Final
<1>7. Once(t, new)
  BY <1>1, <1>2 DEF Once, Waiting, Final
<1>8. Good(t, new, after, begun[t], saved[t])
  BY <1>1, <1>5, <1>6, <1>7 DEF Good
<1> QED
  BY <1>1, <1>4, <1>8, OneTask

\* completeTask
LEMMA CompleteGood ==
  ASSUME IInv, NEW t \in Tasks, NEW f \in Fences, Complete(t, f) PROVE IInv'
<1>1. /\ Known(t, f) /\ ~task[t].cancel /\ task[t].fence = f
      /\ task[t].status \in Held \cup {"uncertain"}
      /\ attempts[t][f].status \in {"running", "uncertain"}
      /\ task' = [task EXCEPT ![t] = Ends(t, "succeeded", 0)]
      /\ attempts' = [attempts EXCEPT ![t] = ClaimEnds(t, f, "succeeded")]
      /\ UNCHANGED <<saved, lost, begun>>
  BY DEF Complete, Held
<1>2. f \in begun[t]
  BY <1>1, Tables DEF Typed
<1>3. "succeeded" \in Final
  BY DEF Final
<1> QED
  BY <1>1, <1>2, <1>3, EndGood

\* failTask: a claim that is reported as uncertain was started.
LEMMA FailGood ==
  ASSUME IInv, NEW t \in Tasks, NEW f \in Fences, NEW disposition \in Dispositions,
         Fail(t, f, disposition)
  PROVE  IInv'
<1> DEFINE status == Becomes(t, disposition)
           claim == IF status = "retry_wait" THEN "retryable_failed" ELSE status
<1>1. /\ Known(t, f) /\ task[t].fence = f /\ task[t].status \in Held \cup {"uncertain"}
      /\ disposition = "retry" => t \in RetrySafe
      /\ disposition = "uncertain" => task[t].status # "leased"
  BY DEF Fail, Admits
<1>2. /\ status \in {"failed", "cancelled", "uncertain", "retry_wait"}
      /\ status = "retry_wait" => disposition = "retry" /\ ~task[t].cancel
      /\ status = "uncertain" <=> disposition = "uncertain"
  BY DEF Becomes, Dispositions
<1>3. PICK delay \in (IF status = "retry_wait" THEN 0 .. MaxDelay ELSE {0}) :
        task' = [task EXCEPT ![t] = Ends(t, status, delay)]
  BY DEF Fail
<1>4. /\ attempts' = [attempts EXCEPT ![t] = ClaimEnds(t, f, claim)]
      /\ UNCHANGED <<saved, lost, begun>>
  BY DEF Fail
<1> HIDE DEF status
<1>5. delay \in Nat /\ (delay # 0 => status = "retry_wait")
  BY ConstantsAssumption
<1>6. disposition = "uncertain" => f \in begun[t]
  BY <1>1, Called DEF Agrees, Typed, Held
<1>7. /\ status \in Final \cup {"uncertain", "retry_wait"}
      /\ claim \in Final \cup {"uncertain", "retryable_failed"}
      /\ status = "uncertain" => claim = "uncertain"
      /\ claim \in {"succeeded", "uncertain"} => f \in begun[t]
      /\ status = "retry_wait" => t \in RetrySafe
      /\ task[t].cancel => status \in {"uncertain", "failed", "cancelled"}
  BY <1>1, <1>2, <1>6 DEF Final
<1> HIDE DEF claim
<1> QED
  BY <1>1, <1>3, <1>4, <1>5, <1>7, EndGood

\* cancelTask
LEMMA CancelGood == ASSUME IInv, NEW t \in Tasks, Cancel(t) PROVE IInv'
<1>1. /\ Typed(task[t], attempts[t], begun[t], saved[t])
      /\ Good(t, task[t], attempts[t], begun[t], saved[t])
      /\ t \in lost => task[t].status \in Held
  BY Tables
<1>2. UNCHANGED <<attempts, begun, saved>> /\ lost' = lost
  BY DEF Cancel
<1>3. ASSUME task[t].status \in Waiting,
             task' = [task EXCEPT ![t] = [Ends(t, "cancelled", 0) EXCEPT !.cancel = TRUE]]
      PROVE  IInv'
  <2> DEFINE ended == Ends(t, "cancelled", 0)
             new == [ended EXCEPT !.cancel = TRUE]
  <2>1. ended \in Rows /\ ended = [task[t] EXCEPT !.status = "cancelled", !.timer = 0]
    BY <1>1 DEF Ends, Typed, Rows, Statuses
  <2>2. /\ ended.status = "cancelled" /\ ended.attempt = task[t].attempt
        /\ ended.fence = task[t].fence /\ ended.timer = 0
    BY <1>1, <2>1 DEF Typed, Rows
  <2>3. task' = [task EXCEPT ![t] = new]
    BY <1>3, Zenon
  <2> HIDE DEF ended
  <2>4. /\ new \in Rows /\ new.status = "cancelled" /\ new.attempt = task[t].attempt
        /\ new.fence = task[t].fence /\ new.timer = 0
    BY <2>1, <2>2 DEF Rows
  <2> HIDE DEF new
  <2>5. Good(t, new, attempts[t], begun[t], saved[t])
    BY <1>1, <1>3, <2>4 DEF Good, Typed, Agrees, Counted, Once, Stopped, Quiet, Waiting, Held
  <2>6. t \notin lost
    BY <1>1, <1>3 DEF Waiting, Held
  <2> QED
    BY <1>2, <2>3, <2>5, <2>6, OneRow
<1>4. ASSUME task[t].status \in Held, task' = [task EXCEPT ![t].cancel = TRUE] PROVE IInv'
  <2> DEFINE new == [task[t] EXCEPT !.cancel = TRUE]
  <2>1. task' = [task EXCEPT ![t] = new]
    BY <1>4
  <2>2. /\ new \in Rows /\ new.status = task[t].status /\ new.attempt = task[t].attempt
        /\ new.fence = task[t].fence
    BY <1>1 DEF Typed, Rows
  <2> HIDE DEF new
  <2>3. Good(t, new, attempts[t], begun[t], saved[t])
    BY <1>1, <1>4, <2>2 DEF Good, Typed, Agrees, Counted, Once, Stopped, Quiet, Held
  <2> QED
    BY <1>2, <1>4, <2>1, <2>2, <2>3, OneRow
<1> QED
  BY <1>3, <1>4 DEF Cancel

\* A worker goes.
LEMMA VanishGood == ASSUME IInv, NEW t \in Tasks, Vanish(t) PROVE IInv'
<1>1. /\ task' = task /\ attempts' = attempts /\ begun' = begun /\ saved' = saved
      /\ lost' = lost \cup {t} /\ task[t].status \in Held
  BY DEF Vanish
<1>2. \A u \in Tasks : Good(u, task'[u], attempts'[u], begun'[u], saved'[u])
  BY <1>1, Tables
<1>3. \A u \in lost' : u \in Tasks /\ task'[u].status \in Held
  BY <1>1, Tables
<1>4. /\ task' = [u \in Tasks |-> task'[u]] /\ attempts' = [u \in Tasks |-> attempts'[u]]
      /\ begun' = [u \in Tasks |-> begun'[u]] /\ saved' = [u \in Tasks |-> saved'[u]]
  BY <1>1, Tables
<1> QED
  BY <1>2, <1>3, <1>4, Assembled

\* Every step keeps the tables good.
LEMMA Step == IInv /\ [Next]_vars => IInv'
<1> SUFFICES ASSUME IInv, [Next]_vars PROVE IInv'
  OBVIOUS
<1>1. ASSUME NEW batch \in SUBSET Tasks, Submit(batch) PROVE IInv'
  BY <1>1, SubmitGood
<1>2. ASSUME NEW q \in Queues, Claim(q) PROVE IInv'
  BY <1>2, ClaimGood
<1>3. ASSUME NEW t \in Tasks, Cancel(t) \/ Pass(t) \/ Vanish(t) PROVE IInv'
  BY <1>3, CancelGood, PassGood, VanishGood
<1>4. ASSUME NEW t \in Tasks, NEW f \in Fences, Call(t, f) PROVE IInv'
  BY <1>4, StartGood, HeartbeatGood, CompleteGood, CheckpointGood, FailGood DEF Call
<1>5. CASE Reap
  BY <1>5, ReapStepGood
<1>6. CASE UNCHANGED vars
  BY <1>6 DEF vars, IInv, TypeOK, GoodTask
<1> QED
  BY <1>1, <1>2, <1>3, <1>4, <1>5, <1>6 DEF Next

\* The tables stay good, whatever workers call and whichever of them vanish.
THEOREM Invariance == Spec => []IInv
BY InitGood, Step, PTL DEF Spec

\* Every row, claim and checkpoint has its type, and a claim that runs,
\* succeeded or is uncertain was started (the CHECK of task_attempts).
THEOREM TypesCorrect == Spec => []TypeOK
<1>1. IInv => TypeOK
  BY DEF IInv
<1> QED
  BY <1>1, Invariance, PTL

\* However often workers vanish, report late or report twice, a task that is
\* not safe to retry is started at most once, any other max_attempts times.
THEOREM ExecutionsBoundedAlways == Spec => []ExecutionsBounded
<1>1. IInv => ExecutionsBounded
  <2> SUFFICES ASSUME IInv, NEW t \in Tasks
               PROVE  Cardinality(begun[t]) <= IF t \in RetrySafe THEN MaxAttempts ELSE 1
    BY DEF ExecutionsBounded
  <2>1. /\ task[t] \in Rows /\ Counted(task[t], begun[t]) /\ Once(t, task[t])
    BY Tables DEF Good, Typed
  <2> QED
    BY <2>1, ConstantsAssumption DEF Rows, Counted, Once
<1> QED
  BY <1>1, Invariance, PTL

\* A worker whose claim was taken over cannot slip a checkpoint in after those
\* of the claim that took it over.
THEOREM CheckpointsFencedAlways == Spec => []CheckpointsFenced
<1>1. IInv => CheckpointsFenced
  BY Tables DEF Good, Chained, CheckpointsFenced
<1> QED
  BY <1>1, Invariance, PTL

-----------------------------------------------------------------------------
(* Steps *)

\* What no step does to task t.
OutcomeKept(t) == task[t].status \in Final => task'[t] = task[t]
Settled(t) == task[t].status = "uncertain" => task'[t].status \in {"uncertain", "succeeded", "failed"}
LeaseKept(t) ==
  t \in lost /\ task[t].timer > 0 =>
    task'[t].status = task[t].status /\ task'[t].fence = task[t].fence
Kept(t) == OutcomeKept(t) /\ Settled(t) /\ LeaseKept(t)

\* What only submitTask does.
Stays(t) == task'[t].status \in Active => task[t].status \in Active

\* A step that leaves the row of t as it is.
LEMMA SameRow == ASSUME NEW t \in Tasks, task'[t] = task[t] PROVE Kept(t) /\ Stays(t)
BY DEF Kept, OutcomeKept, Settled, LeaseKept, Stays

\* submitTask writes only rows that were absent.
LEMMA SubmitKept == ASSUME IInv, NEW batch \in SUBSET Tasks, Submit(batch), NEW t \in Tasks
                    PROVE  Kept(t)
<1>1. CASE t \in batch /\ task[t].status = "absent"
  BY <1>1, Tables DEF Kept, OutcomeKept, Settled, LeaseKept, Final, Held
<1>2. CASE ~(t \in batch /\ task[t].status = "absent")
  BY <1>2, SameRow DEF Submit
<1> QED
  BY <1>1, <1>2

\* A reap and a claim leave the rows alone whose lease or delay has not passed.
LEMMA ReapedKept ==
  ASSUME IInv, NEW S \in SUBSET Tasks, \A u \in S : task[u].status \in Held /\ task[u].timer = 0,
         NEW t \in Tasks
  PROVE  /\ t \notin S => TasksWithout(S)[t] = task[t]
         /\ t \in S => /\ TasksWithout(S)[t].fence = task[t].fence
                       /\ task[t].status \in Held /\ task[t].timer = 0
<1>1. task[t] \in Rows
  BY Tables DEF Typed
<1> QED
  BY <1>1 DEF TasksWithout, Ends, Rows

\* claimTask: a row that is reaped was held and out of time, the one that is
\* granted waited.
LEMMA ClaimKept == ASSUME IInv, NEW q \in Queues, Claim(q), NEW t \in Tasks
                   PROVE  Kept(t) /\ Stays(t)
<1>1. PICK S \in Batches(q) :
        \/ task' = TasksWithout(S)
        \/ \E u \in Ready(q, TasksWithout(S)), lease \in 1 .. MaxLease :
             task' = [TasksWithout(S) EXCEPT ![u] = Granted(@, lease)]
  BY DEF Claim
<1>2. S \in SUBSET Tasks /\ \A u \in S : task[u].status \in Held /\ task[u].timer = 0
  BY DEF Batches, Expired
<1> DEFINE rows == TasksWithout(S)
<1>3. /\ t \notin S => rows[t] = task[t]
      /\ t \in S => task[t].status \in Held /\ task[t].timer = 0
  BY <1>2, ReapedKept
<1>4. DOMAIN rows = Tasks
  BY DEF TasksWithout
<1> HIDE DEF rows
<1>5. CASE t \in S
  BY <1>3, <1>5 DEF Kept, OutcomeKept, Settled, LeaseKept, Stays, Held, Final, Active
<1>6. CASE t \notin S /\ task' = rows
  BY <1>3, <1>6, SameRow
<1>7. ASSUME t \notin S, NEW u \in Ready(q, rows), NEW lease \in 1 .. MaxLease,
             task' = [rows EXCEPT ![u] = Granted(@, lease)]
      PROVE  Kept(t) /\ Stays(t)
  <2>1. CASE u = t
    <3>1. task[t].status \in Waiting
      BY <1>3, <1>7, <2>1 DEF Ready, Eligible
    <3>2. t \notin lost
      BY <3>1, Tables DEF Waiting, Held
    <3> QED
      BY <3>1, <3>2 DEF Kept, OutcomeKept, Settled, LeaseKept, Stays, Waiting, Final, Active
  <2>2. CASE u # t
    <3>1. task'[t] = task[t]
      BY <1>3, <1>4, <1>7, <2>2 DEF Ready
    <3> QED
      BY <3>1, SameRow
  <2> QED
    BY <2>1, <2>2
<1> QED
  BY <1>1, <1>5, <1>6, <1>7 DEF rows

\* reapExpiredTasks
LEMMA ReapKept == ASSUME IInv, Reap, NEW t \in Tasks PROVE Kept(t) /\ Stays(t)
<1>1. PICK S \in SUBSET UNION {Expired(q) : q \in Queues} : task' = TasksWithout(S)
  BY DEF Reap
<1>2. S \in SUBSET Tasks /\ \A u \in S : task[u].status \in Held /\ task[u].timer = 0
  BY DEF Expired
<1>3. /\ t \notin S => task'[t] = task[t]
      /\ t \in S => task[t].status \in Held /\ task[t].timer = 0
  BY <1>1, <1>2, ReapedKept
<1>4. CASE t \in S
  BY <1>3, <1>4 DEF Kept, OutcomeKept, Settled, LeaseKept, Stays, Held, Final, Active
<1> QED
  BY <1>3, <1>4, SameRow

\* Only the timer of one row that waits or is held changes.
LEMMA TimerKept ==
  ASSUME IInv, NEW u \in Tasks, NEW timer, task' = [task EXCEPT ![u].timer = timer],
         task[u].status \in Waiting \cup Held, NEW t \in Tasks
  PROVE  Kept(t) /\ Stays(t)
<1>1. task[u] \in Rows /\ task = [v \in Tasks |-> task[v]]
  BY Tables DEF Typed
<1>2. task'[u].status = task[u].status /\ task'[u].fence = task[u].fence
  BY <1>1 DEF Rows
<1>3. t # u => task'[t] = task[t]
  BY <1>1
<1>4. CASE t = u
  BY <1>2, <1>4 DEF Kept, OutcomeKept, Settled, LeaseKept, Stays, Waiting, Held, Final
<1> QED
  BY <1>3, <1>4, SameRow

\* Time passes.
LEMMA PassKept == ASSUME IInv, NEW u \in Tasks, Pass(u), NEW t \in Tasks PROVE Kept(t) /\ Stays(t)
<1>1. task[u].status \in Waiting \cup Held
  BY Tables DEF Pass, Good, Typed, Quiet, Rows
<1>2. task' = [task EXCEPT ![u].timer = task[u].timer - 1]
  BY DEF Pass
<1> QED
  BY <1>1, <1>2, TimerKept

\* heartbeatTask
LEMMA HeartbeatKept ==
  ASSUME IInv, NEW u \in Tasks, NEW f \in Fences, Heartbeat(u, f), NEW t \in Tasks
  PROVE  Kept(t) /\ Stays(t)
<1>1. task[u].status \in Waiting \cup Held
  BY DEF Heartbeat, CurrentClaim, Held
<1>2. PICK timer : task' = [task EXCEPT ![u].timer = timer]
  BY DEF Heartbeat
<1> QED
  BY <1>1, <1>2, TimerKept

\* checkpointTask
LEMMA CheckpointKept ==
  ASSUME IInv, NEW u \in Tasks, NEW f \in Fences, NEW key, NEW expected,
         Checkpoint(u, f, key, expected), NEW t \in Tasks
  PROVE  Kept(t) /\ Stays(t)
<1>1. task[u].status \in Waiting \cup Held
  BY DEF Checkpoint, CurrentClaim, Held
<1>2. PICK timer : task' = [task EXCEPT ![u].timer = timer]
  BY DEF Checkpoint
<1> QED
  BY <1>1, <1>2, TimerKept

\* The worker of the current claim is there: its lease is not one that is lost.
LEMMA EndKept ==
  ASSUME IInv, NEW u \in Tasks, NEW status, NEW row, task' = [task EXCEPT ![u] = row],
         row.status = status, u \notin lost,
         task[u].status \in Held \cup {"uncertain"},
         task[u].status = "uncertain" => status \in {"succeeded", "failed"},
         NEW t \in Tasks
  PROVE  Kept(t) /\ Stays(t)
<1>1. task'[u] = row /\ (t # u => task'[t] = task[t])
  BY Tables
<1>2. CASE t = u
  BY <1>1, <1>2 DEF Kept, OutcomeKept, Settled, LeaseKept, Stays, Held, Final, Active
<1> QED
  BY <1>1, <1>2, SameRow

\* startTask
LEMMA StartKept ==
  ASSUME IInv, NEW u \in Tasks, NEW f \in Fences, Start(u, f), NEW t \in Tasks
  PROVE  Kept(t) /\ Stays(t)
<1>1. /\ task[u].status = "leased" /\ u \notin lost
  BY Called DEF Start, CurrentClaim, Known
<1>2. PICK row : task' = [task EXCEPT ![u] = row]
  BY DEF Start
<1> QED
  BY <1>1, <1>2, EndKept DEF Held

\* completeTask
LEMMA CompleteKept ==
  ASSUME IInv, NEW u \in Tasks, NEW f \in Fences, Complete(u, f), NEW t \in Tasks
  PROVE  Kept(t) /\ Stays(t)
<1> DEFINE row == Ends(u, "succeeded", 0)
<1>1. /\ task[u].status \in Held \cup {"uncertain"} /\ u \notin lost
      /\ task' = [task EXCEPT ![u] = row]
  BY DEF Complete, Known, Held
<1>2. row.status = "succeeded"
  BY Tables DEF Ends, Typed, Rows
<1> HIDE DEF row
<1> QED
  BY <1>1, <1>2, EndKept

\* failTask: an uncertain task takes nothing but a failure.
LEMMA FailKept ==
  ASSUME IInv, NEW u \in Tasks, NEW f \in Fences, NEW disposition \in Dispositions,
         Fail(u, f, disposition), NEW t \in Tasks
  PROVE  Kept(t) /\ Stays(t)
<1> DEFINE status == Becomes(u, disposition)
<1>1. /\ task[u].status \in Held \cup {"uncertain"} /\ u \notin lost /\ task[u].fence = f
      /\ attempts[u][f].status = "uncertain" => disposition = "failed"
  BY DEF Fail, Admits, Known
<1>2. PICK delay : task' = [task EXCEPT ![u] = Ends(u, status, delay)]
  BY DEF Fail
<1> DEFINE row == Ends(u, status, delay)
<1>3. row.status = status
  <2> HIDE DEF status
  <2> QED
    BY Tables DEF Ends, Typed, Rows
<1>4. task[u].status = "uncertain" => disposition = "failed"
  BY <1>1, Tables DEF Good, Agrees
<1>5. disposition = "failed" => status = "failed"
  BY DEF Becomes
<1> HIDE DEF row, status
<1> QED
  BY <1>1, <1>2, <1>3, <1>4, <1>5, EndKept DEF row

\* cancelTask
LEMMA CancelKept ==
  ASSUME IInv, NEW u \in Tasks, Cancel(u), NEW t \in Tasks PROVE Kept(t) /\ Stays(t)
<1>1. task[u] \in Rows /\ task = [v \in Tasks |-> task[v]]
  BY Tables DEF Typed
<1>2. t # u => task'[t] = task[t]
  BY <1>1 DEF Cancel
<1>3. CASE t = u /\ task[u].status \in Waiting
  <2>1. t \notin lost
    BY <1>3, Tables DEF Waiting, Held
  <2> QED
    BY <1>3, <2>1 DEF Kept, OutcomeKept, Settled, LeaseKept, Stays, Waiting, Final, Active
<1>4. CASE t = u /\ task[u].status \in Held
  <2>1. task' = [task EXCEPT ![u].cancel = TRUE]
    BY <1>4 DEF Cancel, Held, Waiting
  <2>2. task'[u].status = task[u].status /\ task'[u].fence = task[u].fence
    BY <1>1, <2>1 DEF Rows
  <2> QED
    BY <1>4, <2>2 DEF Kept, OutcomeKept, Settled, LeaseKept, Stays, Held, Final
<1> QED
  BY <1>2, <1>3, <1>4, SameRow DEF Cancel

\* Every step keeps what is settled, and only submitTask adds to a queue.
LEMMA NextKept ==
  ASSUME IInv, [Next]_vars, NEW t \in Tasks
  PROVE  Kept(t) /\ (Stays(t) \/ \E batch \in SUBSET Tasks : Submit(batch))
<1>1. ASSUME NEW batch \in SUBSET Tasks, Submit(batch) PROVE Kept(t)
  BY <1>1, SubmitKept
<1>2. ASSUME NEW q \in Queues, Claim(q) PROVE Kept(t) /\ Stays(t)
  BY <1>2, ClaimKept
<1>3. ASSUME NEW u \in Tasks, Cancel(u) \/ Pass(u) \/ Vanish(u) PROVE Kept(t) /\ Stays(t)
  <2>1. CASE Vanish(u)
    BY <2>1, SameRow DEF Vanish
  <2> QED
    BY <1>3, <2>1, CancelKept, PassKept
<1>4. ASSUME NEW u \in Tasks, NEW f \in Fences, Call(u, f) PROVE Kept(t) /\ Stays(t)
  BY <1>4, StartKept, HeartbeatKept, CompleteKept, CheckpointKept, FailKept DEF Call
<1>5. CASE Reap
  BY <1>5, ReapKept
<1>6. CASE UNCHANGED vars
  BY <1>6, SameRow DEF vars
<1> QED
  BY <1>1, <1>2, <1>3, <1>4, <1>5, <1>6 DEF Next

\* An outcome never changes; an uncertain one only to what its worker reports.
THEOREM OutcomesFinalAlways == Spec => OutcomesFinal
<1>1. IInv /\ [Next]_vars =>
        \A t \in Tasks :
          /\ task[t].status \in Final => task'[t] = task[t]
          /\ task[t].status = "uncertain" => task'[t].status \in {"uncertain", "succeeded", "failed"}
  BY NextKept DEF Kept, OutcomeKept, Settled
<1> QED
  BY <1>1, Invariance, PTL DEF Spec, OutcomesFinal

\* A claim that is in time is taken from nobody, not even from a worker that is
\* gone.
THEOREM LiveLeaseKeptAlways == Spec => LiveLeaseKept
<1>1. IInv /\ [Next]_vars =>
        \A t \in Tasks :
          t \in lost /\ task[t].timer > 0 =>
            task'[t].status = task[t].status /\ task'[t].fence = task[t].fence
  BY NextKept DEF Kept, LeaseKept
<1> QED
  BY <1>1, Invariance, PTL DEF Spec, LiveLeaseKept

\* Only startTask and checkpointTask write what a cancellation stops.
LEMMA CancelledKept ==
  ASSUME IInv, IInv', [Next]_vars, NEW t \in Tasks, task'[t].cancel
  PROVE  begun'[t] = begun[t] /\ saved'[t] = saved[t]
<1>1. ASSUME NEW u \in Tasks, NEW f \in Fences, Start(u, f)
      PROVE  begun'[t] = begun[t] /\ saved'[t] = saved[t]
  <2> DEFINE ended(lease) == Ends(u, "running", Larger(task[u].timer, lease))
             new(lease) == [ended(lease) EXCEPT !.attempt = attempts[u][f].number]
  <2>1. ~task[u].cancel /\ task[u] \in Rows /\ attempts[u][f].number \in 0 .. MaxAttempts
    BY <1>1, Tables DEF Start, Typed, Claims
  <2>2. PICK lease \in 1 .. MaxLease : task' = [task EXCEPT ![u] = new(lease)]
    BY <1>1 DEF Start
  <2>3. ended(lease).cancel = task[u].cancel
    BY <2>1 DEF Ends, Rows
  <2>4. new(lease).cancel = task[u].cancel
    <3> HIDE DEF ended
    <3> QED
      BY <2>3
  <2> HIDE DEF new
  <2>5. task'[u] = new(lease)
    BY <2>2, Tables
  <2>6. t # u
    BY <2>1, <2>4, <2>5
  <2>7. begun' = [begun EXCEPT ![u] = @ \cup {f}] /\ saved' = saved
    BY <1>1 DEF Start
  <2> QED
    BY <2>6, <2>7, Tables
<1>2. ASSUME NEW u \in Tasks, NEW f \in Fences, NEW key, NEW expected,
             Checkpoint(u, f, key, expected)
      PROVE  begun'[t] = begun[t] /\ saved'[t] = saved[t]
  <2>1. ~task[u].cancel /\ task[u] \in Rows
    BY <1>2, Tables DEF Checkpoint, Typed
  <2>2. PICK timer : task' = [task EXCEPT ![u].timer = timer]
    BY <1>2 DEF Checkpoint
  <2>3. task'[u].cancel = task[u].cancel
    BY <2>1, <2>2, Tables DEF Rows
  <2>4. t # u
    BY <2>1, <2>3
  <2>5. saved'[t] = saved[t] /\ begun' = begun
    BY <1>2, <2>4, Tables DEF Checkpoint
  <2> QED
    BY <2>5
<1>3. ASSUME begun' = begun, saved' = saved
      PROVE  begun'[t] = begun[t] /\ saved'[t] = saved[t]
  BY <1>3
<1>4. ASSUME NEW u \in Tasks, NEW f \in Fences, Call(u, f)
      PROVE  begun'[t] = begun[t] /\ saved'[t] = saved[t]
  BY <1>1, <1>2, <1>3, <1>4 DEF Call, Heartbeat, Complete, Fail
<1>5. CASE ~ \E u \in Tasks, f \in Fences : Call(u, f)
  <2>1. begun' = begun /\ saved' = saved
    BY <1>5 DEF Next, vars, Submit, Claim, Cancel, Pass, Vanish, Reap
  <2> QED
    BY <2>1
<1> QED
  BY <1>4, <1>5

\* A cancellation that was accepted wins over every later start, checkpoint,
\* retry and completion.
THEOREM CancelRespectedAlways == Spec => CancelRespected
<1>1. IInv /\ IInv' /\ [Next]_vars =>
        \A t \in Tasks : task'[t].cancel =>
          /\ task'[t].status \notin Waiting \cup {"succeeded"}
          /\ begun'[t] = begun[t] /\ saved'[t] = saved[t]
  <2> SUFFICES ASSUME IInv, IInv', [Next]_vars, NEW t \in Tasks, task'[t].cancel
               PROVE  /\ task'[t].status \notin Waiting \cup {"succeeded"}
                      /\ begun'[t] = begun[t] /\ saved'[t] = saved[t]
    OBVIOUS
  <2>1. Stopped(task'[t])
    BY DEF IInv, GoodTask, Good
  <2> QED
    BY <2>1, CancelledKept DEF Stopped, Waiting, Held
<1> QED
  BY <1>1, Invariance, PTL DEF Spec, CancelRespected

-----------------------------------------------------------------------------
(* The bound of a queue *)

\* However tasks are submitted, batch by batch, no queue holds more of them than
\* it may: claims, retries and reaps never add to it.
THEOREM QueueBoundedAlways == Spec => []QueueBounded
<1>1. IsFiniteSet(Tasks)
  BY ConstantsAssumption
<1>2. Init => QueueBounded
  <2> SUFFICES ASSUME Init, NEW q \in Queues PROVE Cardinality(ActiveIn(q)) <= MaxActive
    BY DEF QueueBounded
  <2>1. ActiveIn(q) = {}
    BY DEF Init, ActiveIn, Active, Waiting, Held
  <2> QED
    BY <2>1, FS_EmptySet, ConstantsAssumption
<1>3. IInv /\ QueueBounded /\ [Next]_vars => QueueBounded'
  <2> SUFFICES ASSUME IInv, QueueBounded, [Next]_vars, NEW q \in Queues
               PROVE  Cardinality(ActiveIn(q)') <= MaxActive
    BY DEF QueueBounded
  <2>1. /\ ActiveIn(q)' \subseteq Tasks /\ IsFiniteSet(ActiveIn(q)')
        /\ ActiveIn(q) \subseteq Tasks /\ IsFiniteSet(ActiveIn(q))
    BY <1>1, FS_Subset DEF ActiveIn
  <2>2. /\ Cardinality(ActiveIn(q)) <= MaxActive /\ MaxActive \in Nat
        /\ Cardinality(ActiveIn(q)) \in Nat /\ Cardinality(ActiveIn(q)') \in Nat
    BY <2>1, FS_CardinalityType, ConstantsAssumption DEF QueueBounded
  <2>3. ASSUME ActiveIn(q)' \subseteq ActiveIn(q)
        PROVE  Cardinality(ActiveIn(q)') <= MaxActive
    <3>1. Cardinality(ActiveIn(q)') <= Cardinality(ActiveIn(q))
      BY <2>1, <2>3, FS_Subset
    <3> QED
      BY <2>2, <3>1
  <2>4. ASSUME NEW batch \in SUBSET Tasks, Submit(batch)
        PROVE  Cardinality(ActiveIn(q)') <= MaxActive
    <3> DEFINE new == {u \in batch : QueueOf[u] = q /\ task[u].status = "absent"}
               all == ActiveIn(q) \cup new
    <3>1. ActiveIn(q)' \subseteq all
      BY <2>4 DEF Submit, ActiveIn
    <3>2. CASE new = {}
      BY <2>3, <3>1, <3>2
    <3>3. CASE new # {}
      <4>1. PICK t \in batch : QueueOf[t] = q
        BY <3>3
      <4>2. Cardinality(all) <= MaxActive
        BY <2>4, <4>1 DEF Submit
      <4>3. IsFiniteSet(all)
        <5>1. all \subseteq Tasks
          BY <2>1
        <5> QED
          BY <1>1, <5>1, FS_Subset
      <4> HIDE DEF all
      <4>4. Cardinality(ActiveIn(q)') <= Cardinality(all) /\ Cardinality(all) \in Nat
        BY <3>1, <4>3, FS_Subset, FS_CardinalityType
      <4> QED
        BY <2>2, <4>2, <4>4
    <3> QED
      BY <3>2, <3>3
  <2>5. CASE ~ \E batch \in SUBSET Tasks : Submit(batch)
    <3>1. \A t \in Tasks : Stays(t)
      BY <2>5, NextKept
    <3>2. ActiveIn(q)' \subseteq ActiveIn(q)
      BY <3>1 DEF Stays, ActiveIn
    <3> QED
      BY <2>3, <3>2
  <2> QED
    BY <2>4, <2>5
<1> QED
  BY <1>2, <1>3, Invariance, PTL DEF Spec
=============================================================================
