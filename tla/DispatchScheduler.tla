-------------------------- MODULE DispatchScheduler --------------------------
(***************************************************************************)
(* src/src/lib/tool-dispatch-scheduler.js: the scheduler that runs the     *)
(* tool calls of one host process.                                         *)
(*                                                                         *)
(* A call of run() is a task 1, 2, ... in arrival order.  "read" and       *)
(* "write" tasks take a permit of a counting semaphore; the writes of a    *)
(* lane (one agent session) are chained on the lane's tail promise, the    *)
(* exclusive tasks on one process-wide tail; "control" tasks start inside  *)
(* run().  In serial mode every task is chained on its lane and no permit  *)
(* is taken.                                                               *)
(*                                                                         *)
(* Promise continuations run as microtasks, so anything may happen between *)
(* the settlement of a promise and the step that awaited it: each such     *)
(* continuation is an action of its own.                                   *)
(***************************************************************************)
EXTENDS Naturals, Sequences, FiniteSets

CONSTANTS
  MaxTasks,       \* bound: how many calls of run() a behaviour makes
  Lanes,          \* the lanes (agent sessions) calls arrive on
  Calls,          \* the (kind, lane) pairs run() is called with
  ExclusiveChain, \* stands for exclusiveTail among the chains
  ReadLimit,      \* readConcurrency
  WriteLimit,     \* writeConcurrency
  Serial          \* mode = 'serial' (tools.throughput = strict)

Kinds == {"control", "read", "write", "exclusive"}

ASSUME ConstantsAssumption ==
  /\ Calls \subseteq [kind : Kinds, lane : Lanes]
  /\ MaxTasks \in Nat \ {0}
  /\ ReadLimit \in Nat \ {0}
  /\ WriteLimit \in Nat \ {0}
  /\ Serial \in BOOLEAN
  /\ ExclusiveChain \notin Lanes

Tasks  == 1 .. MaxTasks
Pools  == {"read", "write"}
Chains == Lanes \cup {ExclusiveChain}

Phases ==
  { "new",      \* run() not called yet
    "chained",  \* behind the tail promise it found
    "waiting",  \* in a semaphore's waiters
    "granted",  \* holds a permit, its continuation has not run
    "running",  \* the task body is executing
    "settling", \* the body is over (or was skipped), the permit not released
    "done" }    \* the scheduled promise has settled

VARIABLES
  call,      \* the arguments run() is called with; never changes
  scheduled, \* stats.scheduled
  pc,        \* the phase of each task
  aborted,   \* signal.aborted
  answer,    \* what the caller's promise has settled to
  pred,      \* the task whose tail promise the task chained on, 0 for none
  tail,      \* laneTails and exclusiveTail, 0 for an absent or initial tail
  active,    \* active, of the reads and of the writes semaphore
  waiters    \* waiters, of the reads and of the writes semaphore

vars == <<call, scheduled, pc, aborted, answer, pred, tail, active, waiters>>

-----------------------------------------------------------------------------

Limit(pool) == IF pool = "read" THEN ReadLimit ELSE WriteLimit

\* The semaphore a task goes through.
UsesPool(t, pool) == ~Serial /\ call[t].kind = pool

\* Mutation: reads are chained on their lane as writes are.
IsChainedToo(t) == Serial \/ call[t].kind # "control"

\* The promise chain a task is put on, and whether it is put on one at all.
IsChained(t) == Serial \/ call[t].kind \in {"write", "exclusive"}
Chain(t)     == IF ~Serial /\ call[t].kind = "exclusive"
                THEN ExclusiveChain ELSE call[t].lane

\* Tasks that hold a permit of pool.
Holding == {"granted", "running", "settling"}
Holders(pool) == {t \in Tasks : UsesPool(t, pool) /\ pc[t] \in Holding}

\* waiters.splice(waiters.indexOf(next), 1)
Without(queue, i) ==
  [j \in 1 .. (Len(queue) - 1) |-> IF j < i THEN queue[j] ELSE queue[j + 1]]

-----------------------------------------------------------------------------

Init ==
  /\ call \in [Tasks -> Calls]
  /\ scheduled = 0
  /\ pc      = [t \in Tasks |-> "new"]
  /\ aborted = [t \in Tasks |-> FALSE]
  /\ answer  = [t \in Tasks |-> "none"]
  /\ pred    = [t \in Tasks |-> 0]
  /\ tail    = [c \in Chains |-> 0]
  /\ active  = [p \in Pools |-> 0]
  /\ waiters = [p \in Pools |-> << >>]

\* acquire() with a signal that is not aborted: a free permit is taken at
\* once, otherwise the task joins the waiters.
Acquire(t, pool) ==
  \/ /\ active[pool] < Limit(pool)
     /\ active' = [active EXCEPT ![pool] = @ + 1]
     /\ pc' = [pc EXCEPT ![t] = "granted"]
     /\ UNCHANGED waiters
  \/ /\ active[pool] >= Limit(pool)
     /\ waiters' = [waiters EXCEPT ![pool] = Append(@, t)]
     /\ pc' = [pc EXCEPT ![t] = "waiting"]
     /\ UNCHANGED active

\* run() counts the call before anything else.
Arrive(t) ==
  /\ pc[t] = "new"
  /\ t = scheduled + 1
  /\ scheduled' = t

\* run() with a signal that is already aborted.
RunCancelled(t) ==
  /\ Arrive(t)
  /\ aborted[t]
  /\ pc' = [pc EXCEPT ![t] = "done"]
  /\ answer' = [answer EXCEPT ![t] = "cancelled"]
  /\ UNCHANGED <<call, aborted, pred, tail, active, waiters>>

\* A control task starts inside run().
RunControl(t) ==
  /\ Arrive(t)
  /\ ~aborted[t]
  /\ ~Serial /\ call[t].kind = "control"
  /\ pc' = [pc EXCEPT ![t] = "running"]
  /\ UNCHANGED <<call, aborted, answer, pred, tail, active, waiters>>

\* A read asks for its permit inside run().
RunRead(t) ==
  /\ Arrive(t)
  /\ ~aborted[t]
  /\ UsesPool(t, "read")
  /\ Acquire(t, "read")
  /\ UNCHANGED <<call, aborted, answer, pred, tail>>

\* chainOn(): the task follows the tail it finds and becomes the tail.
RunChained(t) ==
  /\ Arrive(t)
  /\ ~aborted[t]
  /\ IsChained(t)
  /\ pred' = [pred EXCEPT ![t] = tail[Chain(t)]]
  /\ tail' = [tail EXCEPT ![Chain(t)] = t]
  /\ pc' = [pc EXCEPT ![t] = "chained"]
  /\ UNCHANGED <<call, aborted, answer, active, waiters>>

\* Mutation: a chain follows the start of its predecessor, not its end.
PredecessorStarted(t) == pred[t] # 0 => pc[pred[t]] \in {"running", "settling", "done"}

\* The promise the task chained on has settled.
PredecessorSettled(t) == pred[t] # 0 => pc[pred[t]] = "done"

\* A lane's next write, cancelled before its turn: acquire() rejects.
\* Any other chained task, cancelled before its turn: counted() throws.
SkipCancelled(t) ==
  /\ pc[t] = "chained"
  /\ PredecessorSettled(t)
  /\ aborted[t]
  /\ pc' = [pc EXCEPT ![t] = "done"]
  /\ UNCHANGED <<call, scheduled, aborted, answer, pred, tail, active, waiters>>

\* The lane reaches a write: it asks for its permit.
ReachWrite(t) ==
  /\ pc[t] = "chained"
  /\ PredecessorSettled(t)
  /\ ~aborted[t]
  /\ UsesPool(t, "write")
  /\ Acquire(t, "write")
  /\ UNCHANGED <<call, scheduled, aborted, answer, pred, tail>>

\* Mutation: counted() without its test of signal.aborted.
StartChainedAlways(t) ==
  /\ pc[t] = "chained"
  /\ PredecessorSettled(t)
  /\ pc' = [pc EXCEPT ![t] = "running"]
  /\ UNCHANGED <<call, scheduled, aborted, answer, pred, tail, active, waiters>>

\* The chain reaches an exclusive task, or any task in serial mode.
StartChained(t) ==
  /\ pc[t] = "chained"
  /\ PredecessorSettled(t)
  /\ ~aborted[t]
  /\ ~UsesPool(t, "write")
  /\ pc' = [pc EXCEPT ![t] = "running"]
  /\ UNCHANGED <<call, scheduled, aborted, answer, pred, tail, active, waiters>>

\* Mutation: the same omission after a grant.
StartGrantedAlways(t) ==
  /\ pc[t] = "granted"
  /\ pc' = [pc EXCEPT ![t] = "running"]
  /\ UNCHANGED <<call, scheduled, aborted, answer, pred, tail, active, waiters>>

\* counted(), the continuation of a granted permit: it runs the body unless
\* the signal was aborted since the grant.
StartGranted(t) ==
  /\ pc[t] = "granted"
  /\ pc' = [pc EXCEPT ![t] = IF aborted[t] THEN "settling" ELSE "running"]
  /\ UNCHANGED <<call, scheduled, aborted, answer, pred, tail, active, waiters>>

\* The body of the task returns or throws.
Finish(t) ==
  /\ pc[t] = "running"
  /\ pc' = [pc EXCEPT ![t] = "settling"]
  /\ UNCHANGED <<call, scheduled, aborted, answer, pred, tail, active, waiters>>

\* withPermit()'s finally: release() hands the permit to the first waiter or
\* frees it.  The caller's promise settles with the task's unless it lost
\* the race with the cancellation.
Answered(t) == IF answer[t] = "none" THEN "result" ELSE answer[t]

\* Mutation: release() hands the permit over without counting it again.
ReleaseToUncounted(t, pool) ==
  /\ active' = [active EXCEPT ![pool] = @ - 1]
  /\ IF waiters[pool] = << >>
     THEN pc' = [pc EXCEPT ![t] = "done"] /\ UNCHANGED waiters
     ELSE /\ pc' = [pc EXCEPT ![t] = "done", ![Head(waiters[pool])] = "granted"]
          /\ waiters' = [waiters EXCEPT ![pool] = Tail(@)]

\* Mutation: release() wakes nobody.
ReleaseToNobody(t, pool) ==
  /\ active' = [active EXCEPT ![pool] = @ - 1]
  /\ pc' = [pc EXCEPT ![t] = "done"]
  /\ UNCHANGED waiters

\* Mutation: release() wakes the youngest waiter (pop instead of shift).
ReleaseToYoungest(t, pool) ==
  IF waiters[pool] = << >>
  THEN /\ active' = [active EXCEPT ![pool] = @ - 1]
       /\ pc' = [pc EXCEPT ![t] = "done"]
       /\ UNCHANGED waiters
  ELSE LET youngest == waiters[pool][Len(waiters[pool])]
       IN  /\ pc' = [pc EXCEPT ![t] = "done", ![youngest] = "granted"]
           /\ waiters' = [waiters EXCEPT ![pool] = Without(@, Len(@))]
           /\ UNCHANGED active

ReleaseTo(t, pool) ==
  \/ /\ waiters[pool] = << >>
     /\ active' = [active EXCEPT ![pool] = @ - 1]
     /\ pc' = [pc EXCEPT ![t] = "done"]
     /\ UNCHANGED waiters
  \/ /\ waiters[pool] # << >>
     /\ pc' = [pc EXCEPT ![t] = "done", ![Head(waiters[pool])] = "granted"]
     /\ waiters' = [waiters EXCEPT ![pool] = Tail(@)]
     /\ UNCHANGED active

Release(t) ==
  /\ pc[t] = "settling"
  /\ answer' = [answer EXCEPT ![t] = Answered(t)]
  /\ \/ \E pool \in Pools : UsesPool(t, pool) /\ ReleaseTo(t, pool)
     \/ /\ \A pool \in Pools : ~UsesPool(t, pool)
        /\ pc' = [pc EXCEPT ![t] = "done"]
        /\ UNCHANGED <<active, waiters>>
  /\ UNCHANGED <<call, scheduled, aborted, pred, tail>>

\* Mutation: map.delete(key) without the test that the tail is still there.
DropAnyTail(t) ==
  /\ pc[t] = "done"
  /\ Chain(t) # ExclusiveChain
  /\ tail' = [tail EXCEPT ![Chain(t)] = 0]
  /\ UNCHANGED <<call, scheduled, pc, aborted, answer, pred, active, waiters>>

\* tail.then(): a settled tail that is still its lane's tail is forgotten.
\* exclusiveTail is never dropped.
DropTail(t) ==
  /\ pc[t] = "done"
  /\ Chain(t) # ExclusiveChain
  /\ tail[Chain(t)] = t
  /\ tail' = [tail EXCEPT ![Chain(t)] = 0]
  /\ UNCHANGED <<call, scheduled, pc, aborted, answer, pred, active, waiters>>

\* The caller aborts its signal, before the call or before the body starts (a
\* call without a signal is one whose signal is never aborted).  A waiter
\* leaves the queue; a task that has not started answers its caller at once
\* and is skipped later.  Once the body starts, detach() has removed the
\* listener and the scheduler never looks at the signal again.
AbortWaiting(t) ==
  /\ pc[t] = "waiting"
  /\ \E pool \in Pools : \E i \in DOMAIN waiters[pool] :
       /\ waiters[pool][i] = t
       /\ waiters' = [waiters EXCEPT ![pool] = Without(@, i)]
  /\ pc' = [pc EXCEPT ![t] = "done"]
  /\ answer' = [answer EXCEPT ![t] = "cancelled"]

AbortUnstarted(t) ==
  /\ pc[t] \in {"chained", "granted"}
  /\ answer' = [answer EXCEPT ![t] = "cancelled"]
  /\ UNCHANGED <<pc, waiters>>

AbortBeforeCall(t) ==
  /\ pc[t] = "new"
  /\ UNCHANGED <<pc, answer, waiters>>

\* Mutation: cancel() releases a permit the waiter never had.
AbortReleasing(t) ==
  /\ ~aborted[t]
  /\ aborted' = [aborted EXCEPT ![t] = TRUE]
  /\ AbortWaiting(t)
  /\ \E pool \in Pools : UsesPool(t, pool) /\ active' = [active EXCEPT ![pool] = @ - 1]
  /\ UNCHANGED <<call, scheduled, pred, tail>>

Abort(t) ==
  /\ ~aborted[t]
  /\ aborted' = [aborted EXCEPT ![t] = TRUE]
  /\ AbortWaiting(t) \/ AbortUnstarted(t) \/ AbortBeforeCall(t)
  /\ UNCHANGED <<call, scheduled, pred, tail, active>>

Run(t) == RunCancelled(t) \/ RunControl(t) \/ RunRead(t) \/ RunChained(t)

\* The continuations the event loop owes a task, its body excepted.
Continue(t) ==
  \/ SkipCancelled(t) \/ ReachWrite(t) \/ StartChained(t)
  \/ StartGranted(t)  \/ Release(t)

Next == \E t \in Tasks : Run(t) \/ Continue(t) \/ Finish(t) \/ DropTail(t) \/ Abort(t)

Spec == Init /\ [][Next]_vars

\* Microtasks always run.  That tool bodies end is an assumption about the
\* tools (each has its own timeout), so it is kept apart: reads are assumed to
\* end, everything else only where a property says so.
Microtasks == \A t \in Tasks : WF_vars(Continue(t))
BodiesEnd  == \A t \in Tasks : WF_vars(Finish(t))
ReadsEnd   == \A t \in Tasks : WF_vars(call[t].kind = "read" /\ Finish(t))

FairSpec == Spec /\ Microtasks /\ ReadsEnd

-----------------------------------------------------------------------------
(* The abstract scheduler this one implements.  A task that answered
   "cancelled" and still has a step to take is a queued task to be withdrawn. *)

StageOf(t) ==
  CASE pc[t] = "new"                                    -> "future"
    [] pc[t] = "running"                                -> "running"
    [] pc[t] = "settling" /\ answer[t] # "cancelled"    -> "running"
    [] pc[t] = "done"     /\ answer[t] # "cancelled"    -> "over"
    [] pc[t] = "done"     /\ answer[t] = "cancelled"    -> "withdrawn"
    [] OTHER                                            -> "queued"

NoLine == << >>
NoPool == "none"

LineOf(t) == IF IsChained(t) THEN <<Chain(t)>> ELSE NoLine
PoolOf(t) == IF ~Serial /\ call[t].kind \in Pools THEN call[t].kind ELSE NoPool

Ordered == INSTANCE OrderedDispatch WITH
  Ids       <- Tasks,
  Lines     <- {<<c>> : c \in Chains},
  PoolNames <- Pools,
  Size      <- Limit,
  line      <- [t \in Tasks |-> LineOf(t)],
  pool      <- [t \in Tasks |-> PoolOf(t)],
  phase     <- [t \in Tasks |-> StageOf(t)]

-----------------------------------------------------------------------------
(* Properties *)

\* Every variable has its type (the state createDispatchScheduler keeps).
TypeOK ==
  /\ call \in [Tasks -> Calls]
  /\ scheduled \in 0 .. MaxTasks
  /\ pc \in [Tasks -> Phases]
  /\ aborted \in [Tasks -> BOOLEAN]
  /\ answer \in [Tasks -> {"none", "result", "cancelled"}]
  /\ pred \in [Tasks -> 0 .. MaxTasks]
  /\ tail \in [Chains -> 0 .. MaxTasks]
  /\ active \in [Pools -> Nat]
  /\ waiters \in [Pools -> Seq(Tasks)]

\* No permit is lost or counted twice, whatever cancellations and hand-overs
\* happen: a semaphore's active count is the number of tasks that hold a
\* permit, and it never exceeds the limit.
PermitsAccounted ==
  \A pool \in Pools :
    /\ active[pool] = Cardinality(Holders(pool))
    /\ active[pool] <= Limit(pool)

\* "An agent's second write never overtakes its first": a chained task is
\* past its chain only when every earlier task of the chain has settled, so
\* one lane's writes (and all exclusive tasks) never overlap or reorder.
LaneOrder ==
  \A t, u \in Tasks :
    /\ t < u /\ IsChained(t) /\ IsChained(u) /\ Chain(t) = Chain(u)
    /\ pc[u] \in {"waiting", "granted", "running", "settling"}
    => pc[t] = "done"

\* queuedCancellation(): a caller told "cancelled before it started" is told
\* the truth, then and for ever: its task never runs.
CancelledNeverRuns ==
  \A t \in Tasks : answer[t] = "cancelled" => pc[t] # "running"

\* A permit is never idle while a task waits for it.
WorkConserving ==
  \A pool \in Pools : waiters[pool] # << >> => active[pool] = Limit(pool)

\* Permits are granted in the order they were asked for: a read still waiting
\* never sees a later read started.
ReadsInOrder ==
  \A t, u \in Tasks :
    /\ t < u /\ UsesPool(t, "read") /\ UsesPool(u, "read")
    /\ pc[t] = "waiting"
    => pc[u] \notin Holding

\* The semaphores stay right through grants, releases and cancellations: no
\* permit is lost, counted twice or left idle.
PermitsExact == PermitsAccounted /\ WorkConserving

\* Whatever is cancelled in between: lanes and readers keep their order, and a
\* caller told that its task never started was told the truth.
OrderKept == LaneOrder /\ CancelledNeverRuns /\ ReadsInOrder

\* The promises, chains and semaphores implement the header comment's rules:
\* order per line, bounded pools, nothing started twice or after withdrawal.
ImplementsOrderedDispatch == Ordered!Spec

\* Every call is answered, with its result or its cancellation, when bodies end.
EveryCallAnswered ==
  BodiesEnd => \A t \in Tasks : (pc[t] # "new") ~> (answer[t] # "none")

\* "A read never waits behind a write": reads are answered even when no write,
\* exclusive or control body ever ends.
ReadNeverWaitsBehindWrite ==
  \A t \in Tasks :
    (UsesPool(t, "read") /\ pc[t] # "new") ~> (answer[t] # "none")

\* Nobody is left without an answer: reads whatever the other bodies do, and
\* every call when bodies end.
CallsAnswered == EveryCallAnswered /\ ReadNeverWaitsBehindWrite
=============================================================================
