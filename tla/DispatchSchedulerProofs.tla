----------------------- MODULE DispatchSchedulerProofs -----------------------
(***************************************************************************)
(* Proofs about DispatchScheduler, for any number of tasks, lanes and      *)
(* permits and for both modes.                                             *)
(*                                                                         *)
(* LaneOrder is not inductive: that a lane reached a task says nothing     *)
(* about the tasks before its predecessor.  ChainsInOrder strengthens it   *)
(* with what the tails and the predecessors guarantee.                     *)
(***************************************************************************)
EXTENDS DispatchScheduler, FiniteSetTheorems, SequenceTheorems, TLAPS

\* Tasks arrive in order; a task is "new" exactly until it arrives.
Arrivals == \A t \in Tasks : pc[t] = "new" <=> t > scheduled

\* Only an aborted task answers "cancelled", and it is not running.
CancelledIsAborted ==
  \A t \in Tasks :
    answer[t] = "cancelled" =>
      /\ aborted[t]
      /\ pc[t] \in {"chained", "granted", "settling", "done"}

\* A waiter is a waiting task of that pool, and waits once.
WaitersWait ==
  \A pool \in Pools : \A i \in DOMAIN waiters[pool] :
    /\ UsesPool(waiters[pool][i], pool)
    /\ pc[waiters[pool][i]] = "waiting"
    /\ \A j \in DOMAIN waiters[pool] : waiters[pool][i] = waiters[pool][j] => i = j

Before(w, u) == w < u /\ IsChained(w) /\ IsChained(u) /\ Chain(w) = Chain(u)

\* A task past its chain has every earlier task of the chain behind it.
Behind(u) == \A w \in Tasks : Before(w, u) => pc[w] = "done"

\* A chained task and the predecessor it found: nothing of the chain that is
\* not over lies between them.
LinkOK(u) ==
  pc[u] = "chained" =>
    /\ IsChained(u)
    /\ pred[u] # 0 =>
         /\ Before(pred[u], u)
         /\ pc[pred[u]] = "done" => Behind(pred[u])
         /\ \A w \in Tasks : Before(w, u) /\ pred[u] < w => pc[w] = "done"
    /\ pred[u] = 0 => Behind(u)

\* A tail is the chain's last task that is not over, or the chain is over.
TailOK(c) ==
  /\ tail[c] # 0 =>
       /\ IsChained(tail[c]) /\ Chain(tail[c]) = c
       /\ pc[tail[c]] # "new"
       /\ pc[tail[c]] = "done" => Behind(tail[c])
       /\ \A w \in Tasks :
            IsChained(w) /\ Chain(w) = c /\ tail[c] < w /\ pc[w] # "new" => pc[w] = "done"
  /\ tail[c] = 0 =>
       \A w \in Tasks : IsChained(w) /\ Chain(w) = c /\ pc[w] # "new" => pc[w] = "done"

Past == {"waiting", "granted", "running", "settling"}

ChainsInOrder ==
  /\ \A u \in Tasks : (pc[u] \in Past => Behind(u)) /\ LinkOK(u)
  /\ \A c \in Chains : TailOK(c)

IInv == TypeOK /\ Arrivals /\ CancelledIsAborted /\ WaitersWait /\ ChainsInOrder

-----------------------------------------------------------------------------

\* The splice of cancel() yields a queue of the same tasks but one.
LEMMA WithoutType ==
  ASSUME NEW S, NEW q \in Seq(S), NEW i \in DOMAIN q
  PROVE  /\ Without(q, i) \in Seq(S)
         /\ Len(Without(q, i)) = Len(q) - 1
         /\ \A j \in DOMAIN Without(q, i) :
              Without(q, i)[j] = IF j < i THEN q[j] ELSE q[j + 1]
<1>1. Len(q) \in Nat /\ Len(q) >= 1 /\ DOMAIN q = 1 .. Len(q)
  OBVIOUS
<1>2. \A j \in 1 .. (Len(q) - 1) : (IF j < i THEN q[j] ELSE q[j + 1]) \in S
  BY <1>1
<1>3. Without(q, i) \in [1 .. (Len(q) - 1) -> S]
  BY <1>2 DEF Without
<1>4. Len(q) - 1 \in Nat
  BY <1>1
<1> QED
  BY <1>1, <1>2, <1>3, <1>4, Z3 DEF Without

LEMMA HoldersFinite == ASSUME NEW pool PROVE IsFiniteSet(Holders(pool))
<1>1. IsFiniteSet(Tasks)
  BY ConstantsAssumption, FS_Interval DEF Tasks
<1> QED
  BY <1>1, FS_Subset DEF Holders

\* A task that holds a permit is counted: its release cannot go below zero.
LEMMA PermitHeld ==
  ASSUME PermitsAccounted, NEW pool \in Pools, NEW t \in Holders(pool)
  PROVE  active[pool] \in Nat \ {0}
<1>1. Cardinality(Holders(pool)) \in Nat /\ Cardinality(Holders(pool)) # 0
  BY HoldersFinite, FS_CardinalityType, FS_EmptySet
<1> QED
  BY <1>1 DEF PermitsAccounted

\* acquire() keeps the types of what it changes.
LEMMA AcquireType ==
  ASSUME TypeOK, NEW t \in Tasks, NEW pool \in Pools, Acquire(t, pool)
  PROVE  /\ pc' \in [Tasks -> Phases]
         /\ active' \in [Pools -> Nat]
         /\ waiters' \in [Pools -> Seq(Tasks)]
<1>1. CASE active[pool] < Limit(pool) /\ active' = [active EXCEPT ![pool] = @ + 1]
           /\ pc' = [pc EXCEPT ![t] = "granted"] /\ UNCHANGED waiters
  BY <1>1 DEF TypeOK, Phases
<1>2. CASE waiters' = [waiters EXCEPT ![pool] = Append(@, t)]
           /\ pc' = [pc EXCEPT ![t] = "waiting"] /\ UNCHANGED active
  BY <1>2 DEF TypeOK, Phases
<1> QED
  BY <1>1, <1>2 DEF Acquire

\* Every state variable keeps its type.
LEMMA TypeStep == TypeOK /\ PermitsAccounted /\ [Next]_vars => TypeOK'
<1> SUFFICES ASSUME TypeOK, PermitsAccounted, [Next]_vars
             PROVE  TypeOK'
  OBVIOUS
<1> USE DEF TypeOK, Tasks, Pools, Phases
<1>1. ASSUME NEW t \in Tasks, RunCancelled(t) PROVE TypeOK'
  BY <1>1 DEF RunCancelled, Arrive
<1>2. ASSUME NEW t \in Tasks, RunControl(t) PROVE TypeOK'
  BY <1>2 DEF RunControl, Arrive
<1>3. ASSUME NEW t \in Tasks, RunRead(t) PROVE TypeOK'
  BY <1>3, AcquireType DEF RunRead, Arrive
<1>4. ASSUME NEW t \in Tasks, RunChained(t) PROVE TypeOK'
  <2>1. Chain(t) \in Chains
    BY ConstantsAssumption DEF Chain, Chains
  <2> QED BY <1>4, <2>1 DEF RunChained, Arrive
<1>5. ASSUME NEW t \in Tasks, SkipCancelled(t) PROVE TypeOK'
  BY <1>5 DEF SkipCancelled
<1>6. ASSUME NEW t \in Tasks, ReachWrite(t) PROVE TypeOK'
  BY <1>6, AcquireType DEF ReachWrite
<1>7. ASSUME NEW t \in Tasks, StartChained(t) PROVE TypeOK'
  BY <1>7 DEF StartChained
<1>8. ASSUME NEW t \in Tasks, StartGranted(t) PROVE TypeOK'
  BY <1>8 DEF StartGranted
<1>9. ASSUME NEW t \in Tasks, Finish(t) PROVE TypeOK'
  BY <1>9 DEF Finish
<1>10. ASSUME NEW t \in Tasks, Release(t) PROVE TypeOK'
  <2>1. answer' \in [Tasks -> {"none", "result", "cancelled"}]
    BY <1>10 DEF Release, Answered
  <2>2. ASSUME NEW pool \in Pools, UsesPool(t, pool), ReleaseTo(t, pool)
        PROVE  /\ pc' \in [Tasks -> Phases]
               /\ active' \in [Pools -> Nat]
               /\ waiters' \in [Pools -> Seq(Tasks)]
    <3>1. active[pool] \in Nat \ {0}
      BY <1>10, <2>2, PermitHeld DEF Release, Holders, Holding
    <3>2. waiters[pool] # << >> =>
            Head(waiters[pool]) \in Tasks /\ Tail(waiters[pool]) \in Seq(Tasks)
      BY HeadTailProperties
    <3>3. CASE waiters[pool] = << >>
      BY <2>2, <3>1, <3>3 DEF ReleaseTo
    <3>4. CASE waiters[pool] # << >>
      <4>1. pc' = [pc EXCEPT ![t] = "done", ![Head(waiters[pool])] = "granted"]
        BY <2>2, <3>4 DEF ReleaseTo
      <4>2. waiters' = [waiters EXCEPT ![pool] = Tail(waiters[pool])] /\ active' = active
        BY <2>2, <3>4 DEF ReleaseTo
      <4>3. pc' \in [Tasks -> Phases]
        BY <3>2, <3>4, <4>1
      <4> QED
        BY <3>2, <3>4, <4>2, <4>3
    <3> QED
      BY <3>3, <3>4
  <2> QED
    BY <1>10, <2>1, <2>2 DEF Release
<1>11. ASSUME NEW t \in Tasks, DropTail(t) PROVE TypeOK'
  <2>1. 0 \in 0 .. MaxTasks
    BY ConstantsAssumption
  <2> QED
    BY <1>11, <2>1 DEF DropTail
<1>12. ASSUME NEW t \in Tasks, Abort(t) PROVE TypeOK'
  <2>1. ASSUME AbortWaiting(t) PROVE waiters' \in [Pools -> Seq(Tasks)]
    <3>1. PICK pool \in Pools : \E i \in DOMAIN waiters[pool] :
            waiters' = [waiters EXCEPT ![pool] = Without(waiters[pool], i)]
      BY <2>1 DEF AbortWaiting
    <3>2. PICK i \in DOMAIN waiters[pool] :
            waiters' = [waiters EXCEPT ![pool] = Without(waiters[pool], i)]
      BY <3>1
    <3>3. Without(waiters[pool], i) \in Seq(Tasks)
      BY WithoutType
    <3> QED
      BY <3>2, <3>3
  <2> QED
    BY <1>12, <2>1 DEF Abort, AbortWaiting, AbortUnstarted, AbortBeforeCall
<1>13. CASE UNCHANGED vars
  BY <1>13 DEF vars
<1> QED
  BY <1>1, <1>2, <1>3, <1>4, <1>5, <1>6, <1>7, <1>8, <1>9, <1>10, <1>11, <1>12, <1>13
  DEF Next, Run, Continue

-----------------------------------------------------------------------------
(* Cancellation *)

\* What the tasks of a step look like to CancelledIsAborted.
LEMMA CancelStep ==
  TypeOK /\ WaitersWait /\ CancelledIsAborted /\ [Next]_vars => CancelledIsAborted'
<1> SUFFICES ASSUME TypeOK, WaitersWait, CancelledIsAborted, [Next]_vars
             PROVE  CancelledIsAborted'
  OBVIOUS
<1> USE DEF TypeOK, CancelledIsAborted
<1>1. ASSUME NEW t \in Tasks, Run(t) PROVE CancelledIsAborted'
  BY <1>1 DEF Run, Arrive, RunCancelled, RunControl, RunRead, RunChained, Acquire
<1>2. ASSUME NEW t \in Tasks,
             SkipCancelled(t) \/ ReachWrite(t) \/ StartChained(t) \/ StartGranted(t)
      PROVE  CancelledIsAborted'
  BY <1>2 DEF SkipCancelled, ReachWrite, StartChained, StartGranted, Acquire
<1>3. ASSUME NEW t \in Tasks, Release(t) PROVE CancelledIsAborted'
  <2>1. CASE \A pool \in Pools : ~UsesPool(t, pool)
    BY <1>3, <2>1 DEF Release, Answered
  <2>2. ASSUME NEW pool \in Pools, UsesPool(t, pool), ReleaseTo(t, pool)
        PROVE  CancelledIsAborted'
    <3>1. CASE waiters[pool] = << >>
      BY <1>3, <2>2, <3>1 DEF Release, ReleaseTo, Answered
    <3>2. CASE waiters[pool] # << >>
      <4>1. waiters[pool] \in Seq(Tasks) /\ 1 \in DOMAIN waiters[pool]
            /\ Head(waiters[pool]) = waiters[pool][1]
        BY <3>2
      <4>2. pc[Head(waiters[pool])] = "waiting" /\ Head(waiters[pool]) \in Tasks
        BY <4>1 DEF WaitersWait
      <4>3. answer[Head(waiters[pool])] # "cancelled"
        BY <4>2
      <4> QED
        BY <1>3, <2>2, <3>2, <4>2, <4>3 DEF Release, ReleaseTo, Answered
    <3> QED
      BY <3>1, <3>2
  <2> QED
    BY <1>3, <2>1, <2>2 DEF Release
<1>4. ASSUME NEW t \in Tasks, Finish(t) \/ DropTail(t) PROVE CancelledIsAborted'
  BY <1>4 DEF Finish, DropTail
<1>5. ASSUME NEW t \in Tasks, Abort(t) PROVE CancelledIsAborted'
  BY <1>5 DEF Abort, AbortWaiting, AbortUnstarted, AbortBeforeCall
<1>6. CASE UNCHANGED vars
  BY <1>6 DEF vars
<1> QED
  BY <1>1, <1>2, <1>3, <1>4, <1>5, <1>6 DEF Next, Continue

-----------------------------------------------------------------------------
(* Chains *)

\* A task that a lane has reached has its chain behind it.
LEMMA Reached ==
  ASSUME TypeOK, ChainsInOrder, NEW u \in Tasks, pc[u] = "chained", PredecessorSettled(u)
  PROVE  Behind(u)
<1>1. LinkOK(u)
  BY DEF ChainsInOrder
<1>2. CASE pred[u] = 0
  BY <1>1, <1>2 DEF LinkOK
<1>3. CASE pred[u] # 0
  <2> DEFINE p == pred[u]
  <2>1. p \in Tasks /\ Tasks \subseteq Int
    BY <1>3, ConstantsAssumption DEF TypeOK, Tasks
  <2>2. Behind(p) /\ Before(p, u) /\ pc[p] = "done"
    BY <1>1, <1>3 DEF LinkOK, PredecessorSettled
  <2>3. ASSUME NEW w \in Tasks, Before(w, u) PROVE pc[w] = "done"
    <3>1. w < p => Before(w, p)
      BY <2>2, <2>3 DEF Before
    <3>2. p < w => pc[w] = "done"
      BY <1>1, <1>3, <2>3 DEF LinkOK
    <3>3. w < p \/ p < w \/ w = p
      BY <2>1, <2>3, ConstantsAssumption DEF Tasks
    <3> QED
      BY <2>2, <3>1, <3>2, <3>3 DEF Behind
  <2> QED
    BY <2>3 DEF Behind
<1> QED
  BY <1>2, <1>3

\* A step in which tasks past their chain move on, and tasks whose turn has
\* come pass their chain, keeps the chains in order.
LEMMA ChainsMove ==
  ASSUME TypeOK, ChainsInOrder, UNCHANGED <<call, pred, tail>>,
         \A u \in Tasks :
           \/ pc'[u] = pc[u]
           \/ /\ pc[u] \in Past \/ (pc[u] = "chained" /\ PredecessorSettled(u))
              /\ pc'[u] \in Past \cup {"done"}
  PROVE  ChainsInOrder'
<1> USE DEF Past
<1> DEFINE BehindNext(k) == \A w \in Tasks : Before(w, k) => pc'[w] = "done"
<1>1. \A w, u \in Tasks : Before(w, u)' <=> Before(w, u)
  BY DEF Before, IsChained, Chain
<1>2. \A w \in Tasks : pc[w] = "done" => pc'[w] = "done"
  OBVIOUS
<1>3. \A u \in Tasks : Behind(u) => Behind(u)'
  BY <1>1, <1>2 DEF Behind
<1>4. \A u \in Tasks : pc[u] = "chained" /\ PredecessorSettled(u) => Behind(u)
  BY Reached
<1>5. \A u \in Tasks : pc'[u] \in Past \cup {"done"} /\ pc[u] # "done" => Behind(u)
  BY <1>4 DEF ChainsInOrder
<1>6. \A u \in Tasks : pc'[u] \in Past => Behind(u)'
  BY <1>3, <1>5
<1>7. \A u \in Tasks : pc[u] = "new" <=> pc'[u] = "new"
  OBVIOUS
<1>8. ASSUME NEW u \in Tasks PROVE LinkOK(u)'
  <2>1. CASE pc'[u] # "chained"
    BY <2>1 DEF LinkOK
  <2>2. CASE pc'[u] = "chained" /\ pred[u] = 0
    BY <1>3, <2>2 DEF ChainsInOrder, LinkOK, IsChained
  <2>3. CASE pc'[u] = "chained" /\ pred[u] # 0
    <3>1. pred[u] \in Tasks
      BY <2>3, ConstantsAssumption DEF TypeOK, Tasks
    <3>2. pc[u] = "chained" /\ LinkOK(u)
      BY <2>3 DEF ChainsInOrder
    <3>3. pc'[pred[u]] = "done" => BehindNext(pred[u])
      BY <1>2, <1>5, <2>3, <3>1, <3>2 DEF LinkOK, Behind
    <3> QED
      BY <1>2, <2>3, <3>1, <3>2, <3>3 DEF LinkOK, Behind, Before, IsChained, Chain
  <2> QED
    BY <2>1, <2>2, <2>3
<1>9. ASSUME NEW c \in Chains PROVE TailOK(c)'
  <2>1. TailOK(c)
    BY DEF ChainsInOrder
  <2>2. CASE tail[c] = 0
    BY <1>2, <1>7, <2>1, <2>2 DEF TailOK, IsChained, Chain
  <2>3. CASE tail[c] # 0
    <3>1. tail[c] \in Tasks
      BY <2>3, ConstantsAssumption DEF TypeOK, Tasks
    <3>2. pc'[tail[c]] = "done" => BehindNext(tail[c])
      BY <1>2, <1>5, <2>1, <2>3, <3>1 DEF TailOK, Behind
    <3> QED
      BY <1>2, <1>7, <2>1, <2>3, <3>1, <3>2 DEF TailOK, Behind, Before, IsChained, Chain
  <2> QED
    BY <2>2, <2>3
<1> QED
  BY <1>6, <1>8, <1>9 DEF ChainsInOrder

\* A chained call arrives behind its chain's tail.
LEMMA ChainsEnqueue ==
  ASSUME TypeOK, Arrivals, ChainsInOrder, NEW t \in Tasks, RunChained(t)
  PROVE  ChainsInOrder'
<1> DEFINE c == Chain(t)
           BehindNext(k) == \A w \in Tasks : Before(w, k) => pc'[w] = "done"
<1>1. /\ UNCHANGED call
      /\ pred' = [pred EXCEPT ![t] = tail[c]]
      /\ tail' = [tail EXCEPT ![c] = t]
      /\ pc' = [pc EXCEPT ![t] = "chained"]
      /\ pc[t] = "new" /\ IsChained(t)
  BY DEF RunChained, Arrive
<1>2. c \in Chains /\ t # 0
  BY ConstantsAssumption DEF TypeOK, Chain, Chains, Tasks
<1>3. \A w \in Tasks : w > t => pc[w] = "new"
  BY DEF Arrivals, RunChained, Arrive, TypeOK, Tasks
<1>4. \A w \in Tasks : w < t => pc[w] # "new"
  BY DEF Arrivals, RunChained, Arrive, TypeOK, Tasks
<1>5. \A w, u \in Tasks : Before(w, u)' <=> Before(w, u)
  BY <1>1 DEF Before, IsChained, Chain
<1>6. \A u \in Tasks : Behind(u) => Behind(u)'
  BY <1>1, <1>5 DEF Behind, TypeOK
<1>7. \A u \in Tasks : pc'[u] \in Past => Behind(u)'
  BY <1>1, <1>6 DEF ChainsInOrder, Past, TypeOK
<1>8. \A w \in Tasks : pc[w] = "done" => pc'[w] = "done"
  BY <1>1 DEF TypeOK
<1>9. \A k \in Tasks : Behind(k) => BehindNext(k)
  BY <1>8 DEF Behind
<1>10. ASSUME NEW u \in Tasks, u # t PROVE LinkOK(u)'
  <2>1. LinkOK(u) /\ pc'[u] = pc[u] /\ pred'[u] = pred[u] /\ (IsChained(u)' <=> IsChained(u))
    BY <1>1, <1>10 DEF ChainsInOrder, IsChained, TypeOK
  <2>2. CASE pc[u] = "chained" /\ pred[u] # 0
    <3>1. pred[u] \in Tasks /\ pred[u] # t
      BY <1>1, <1>3, <2>1, <2>2, ConstantsAssumption DEF TypeOK, Tasks, LinkOK, Before
    <3>2. pc'[pred[u]] = pc[pred[u]]
      BY <1>1, <3>1 DEF TypeOK
    <3>3. pc[pred[u]] = "done" => BehindNext(pred[u])
      BY <1>9, <2>1, <2>2, <3>1 DEF LinkOK
    <3> QED
      BY <1>1, <1>8, <2>1, <2>2, <3>1, <3>2, <3>3, SMTT(30)
      DEF LinkOK, Behind, Before, IsChained, Chain
  <2>3. CASE pc[u] = "chained" /\ pred[u] = 0
    BY <1>6, <2>1, <2>3 DEF LinkOK
  <2>4. CASE pc[u] # "chained"
    BY <2>1, <2>4 DEF LinkOK
  <2> QED
    BY <2>2, <2>3, <2>4
<1>11. \A w \in Tasks : w < t /\ IsChained(w) /\ Chain(w) = c => Before(w, t)
  BY <1>1 DEF Before
<1>12. LinkOK(t)'
  <2>1. /\ pc'[t] = "chained" /\ pred'[t] = tail[c]
        /\ IsChained(t)' /\ TailOK(c)
    BY <1>1, <1>2 DEF TypeOK, IsChained, ChainsInOrder
  <2>2. CASE tail[c] # 0
    <3>1. tail[c] \in Tasks /\ tail[c] # t
      BY <1>1, <1>2, <2>1, <2>2, ConstantsAssumption DEF TypeOK, Tasks, TailOK
    <3>2. pc'[tail[c]] = pc[tail[c]]
      BY <1>1, <3>1 DEF TypeOK
    <3>3. tail[c] < t
      BY <1>3, <2>1, <2>2, <3>1 DEF TailOK, Tasks
    <3>4. Before(tail[c], t)
      BY <1>11, <2>1, <2>2, <3>1, <3>3 DEF TailOK
    <3>5. pc[tail[c]] = "done" => BehindNext(tail[c])
      BY <1>9, <2>1, <2>2, <3>1 DEF TailOK
    <3>6. \A w \in Tasks : Before(w, t) /\ tail[c] < w => pc[w] = "done"
      BY <1>4, <2>1, <2>2 DEF TailOK, Before
    <3>7. BehindNext(tail[c]) => Behind(pred[t])'
      BY <1>1, <2>1, ZenonT(60) DEF Behind, Before, IsChained, Chain
    <3>8. Before(pred[t], t)'
      BY <1>1, <2>1, <3>4 DEF Before, IsChained, Chain
    <3> QED
      BY <1>5, <1>8, <2>1, <2>2, <3>1, <3>2, <3>5, <3>6, <3>7, <3>8 DEF LinkOK
  <2>3. CASE tail[c] = 0
    <3>1. Behind(t)
      BY <1>4, <2>1, <2>3 DEF TailOK, Behind, Before
    <3> QED
      BY <1>6, <2>1, <2>3, <3>1 DEF LinkOK
  <2> QED
    BY <2>2, <2>3
<1>13. ASSUME NEW d \in Chains, d = c PROVE TailOK(d)'
  <2>1. tail'[d] = t /\ pc'[t] = "chained" /\ (IsChained(t)' <=> IsChained(t)) /\ Chain(t)' = d
    BY <1>1, <1>2, <1>13 DEF TypeOK, IsChained, Chain
  <2>2. \A w \in Tasks : t < w => pc'[w] = "new"
    BY <1>1, <1>3 DEF TypeOK, Tasks
  <2> QED
    BY <1>1, <1>2, <1>13, <2>1, <2>2 DEF TailOK
<1>14. ASSUME NEW d \in Chains, d # c PROVE TailOK(d)'
  <2>1. tail'[d] = tail[d] /\ TailOK(d)
    BY <1>1, <1>14 DEF TypeOK, ChainsInOrder
  <2>2. \A w \in Tasks : /\ IsChained(w)' <=> IsChained(w)
                         /\ Chain(w)' = Chain(w)
                         /\ Chain(w) = d => pc'[w] = pc[w]
    BY <1>1, <1>14 DEF TypeOK, IsChained, Chain
  <2>3. CASE tail[d] = 0
    BY <2>1, <2>2, <2>3 DEF TailOK
  <2>4. CASE tail[d] # 0
    <3>1. tail[d] \in Tasks
      BY <2>4, ConstantsAssumption DEF TypeOK, Tasks
    <3>2. pc[tail[d]] = "done" => BehindNext(tail[d])
      BY <1>9, <2>1, <2>4, <3>1 DEF TailOK
    <3> QED
      BY <1>1, <2>1, <2>2, <2>4, <3>1, <3>2 DEF TailOK, Behind, Before, IsChained, Chain
  <2> QED
    BY <2>3, <2>4
<1>15. \A d \in Chains : TailOK(d)'
  BY <1>13, <1>14
<1>16. \A u \in Tasks : LinkOK(u)'
  BY <1>10, <1>12
<1>17. Chains' = Chains
  OBVIOUS
<1> HIDE DEF c
<1> QED
  BY <1>7, <1>15, <1>16 DEF ChainsInOrder

\* A call that is put on no chain, or that ends at once, disturbs no chain.
LEMMA ChainsArrive ==
  ASSUME TypeOK, Arrivals, ChainsInOrder, NEW t \in Tasks, Arrive(t),
         UNCHANGED <<call, pred, tail>>,
         NEW ph \in Past \cup {"done"}, pc' = [pc EXCEPT ![t] = ph],
         ph # "done" => ~IsChained(t)
  PROVE  ChainsInOrder'
<1> USE DEF Past
<1> DEFINE BehindNext(k) == \A w \in Tasks : Before(w, k) => pc'[w] = "done"
<1>1. /\ pc[t] = "new"
      /\ \A u \in Tasks : u # t => pc'[u] = pc[u]
      /\ pc'[t] = ph
      /\ \A u \in Tasks : u > t => pc[u] = "new"
  BY DEF Arrive, Arrivals, TypeOK, Tasks
<1>2. \A w \in Tasks : pc[w] = "done" => pc'[w] = "done"
  BY <1>1
<1>3. \A k \in Tasks : Behind(k) => BehindNext(k)
  BY <1>2 DEF Behind
<1>4. ASSUME NEW u \in Tasks, pc'[u] \in Past PROVE Behind(u)'
  <2>1. BehindNext(u)
    BY <1>1, <1>3, <1>4 DEF ChainsInOrder, Before
  <2> QED
    BY <2>1 DEF Behind, Before, IsChained, Chain
<1>5. ASSUME NEW u \in Tasks PROVE LinkOK(u)'
  <2>1. CASE pc'[u] # "chained"
    BY <2>1 DEF LinkOK
  <2>2. CASE pc'[u] = "chained" /\ pred[u] = 0
    <3>1. LinkOK(u) /\ pc[u] = "chained"
      BY <1>1, <2>2 DEF ChainsInOrder
    <3>2. IsChained(u) /\ BehindNext(u)
      BY <1>3, <2>2, <3>1 DEF LinkOK
    <3> QED
      BY <2>2, <3>2 DEF LinkOK, Behind, Before, IsChained, Chain
  <2>3. CASE pc'[u] = "chained" /\ pred[u] # 0
    <3>1. LinkOK(u) /\ pc[u] = "chained" /\ pred[u] \in Tasks
      BY <1>1, <2>3, ConstantsAssumption DEF ChainsInOrder, TypeOK, Tasks
    <3>2. pred[u] # t
      BY <1>1, <2>3, <3>1 DEF LinkOK, Before, Tasks
    <3>3. pc'[pred[u]] = "done" => BehindNext(pred[u])
      BY <1>1, <1>3, <2>3, <3>1, <3>2 DEF LinkOK
    <3> QED
      BY <1>2, <2>3, <3>1, <3>3 DEF LinkOK, Behind, Before, IsChained, Chain
  <2> QED
    BY <2>1, <2>2, <2>3
<1>6. ASSUME NEW c \in Chains PROVE TailOK(c)'
  <2>1. TailOK(c)
    BY DEF ChainsInOrder
  <2>2. \A w \in Tasks : IsChained(w) /\ pc[w] # pc'[w] => pc'[w] = "done"
    BY <1>1
  <2>3. CASE tail[c] = 0
    BY <1>1, <2>1, <2>2, <2>3 DEF TailOK, IsChained, Chain
  <2>4. CASE tail[c] # 0
    <3>1. tail[c] \in Tasks /\ tail[c] # t
      BY <1>1, <2>1, <2>4, ConstantsAssumption DEF TypeOK, Tasks, TailOK
    <3>2. pc'[tail[c]] = "done" => BehindNext(tail[c])
      BY <1>1, <1>3, <2>1, <2>4, <3>1 DEF TailOK
    <3> QED
      BY <1>1, <2>1, <2>2, <2>4, <3>1, <3>2 DEF TailOK, Behind, Before, IsChained, Chain
  <2> QED
    BY <2>3, <2>4
<1> QED
  BY <1>4, <1>5, <1>6 DEF ChainsInOrder

\* Forgetting a settled tail leaves a chain with nothing unfinished on it.
LEMMA ChainsDropTail ==
  ASSUME TypeOK, ChainsInOrder, NEW t \in Tasks, DropTail(t)
  PROVE  ChainsInOrder'
<1> DEFINE e == Chain(t)
<1>1. /\ UNCHANGED <<call, pred, pc>>
      /\ pc[t] = "done" /\ tail[e] = t /\ tail' = [tail EXCEPT ![e] = 0]
  BY DEF DropTail
<1>2. e \in Chains /\ t # 0
  BY ConstantsAssumption DEF TypeOK, Chain, Chains, Tasks
<1>3. \A u \in Tasks : (pc'[u] \in Past => Behind(u)') /\ LinkOK(u)'
  BY <1>1 DEF ChainsInOrder, Behind, LinkOK, Before, IsChained, Chain
<1>4. ASSUME NEW c \in Chains, c = e PROVE TailOK(c)'
  <2>1. TailOK(c) /\ tail[c] = t /\ tail'[c] = 0
    BY <1>1, <1>4 DEF ChainsInOrder, TypeOK
  <2>2. IsChained(t) /\ Chain(t) = c /\ Behind(t)
    BY <1>1, <1>2, <2>1 DEF TailOK
  <2>3. ASSUME NEW w \in Tasks, IsChained(w), Chain(w) = c, pc[w] # "new"
        PROVE  pc[w] = "done"
    <3>1. CASE w < t
      BY <2>2, <2>3, <3>1 DEF Behind, Before
    <3>2. CASE t < w
      BY <1>2, <2>1, <2>3, <3>2 DEF TailOK
    <3> QED
      BY <1>1, <3>1, <3>2 DEF Tasks
  <2> QED
    BY <1>1, <2>1, <2>3 DEF TailOK, IsChained, Chain
<1>5. ASSUME NEW c \in Chains, c # e PROVE TailOK(c)'
  <2>1. tail'[c] = tail[c] /\ TailOK(c)
    BY <1>1, <1>5 DEF ChainsInOrder, TypeOK
  <2> QED
    BY <1>1, <2>1 DEF TailOK, Behind, Before, IsChained, Chain
<1>6. \A c \in Chains : TailOK(c)'
  BY <1>4, <1>5
<1> QED
  BY <1>3, <1>6 DEF ChainsInOrder

\* The first waiter is a waiting task of its pool.
LEMMA HeadWaits ==
  ASSUME TypeOK, WaitersWait, NEW pool \in Pools, waiters[pool] # << >>
  PROVE  /\ Head(waiters[pool]) \in Tasks
         /\ pc[Head(waiters[pool])] = "waiting"
         /\ UsesPool(Head(waiters[pool]), pool)
<1>1. waiters[pool] \in Seq(Tasks) /\ 1 \in DOMAIN waiters[pool]
      /\ Head(waiters[pool]) = waiters[pool][1]
  BY DEF TypeOK
<1> QED
  BY <1>1 DEF WaitersWait

LEMMA ChainsStep ==
  TypeOK /\ Arrivals /\ WaitersWait /\ ChainsInOrder /\ [Next]_vars => ChainsInOrder'
<1> SUFFICES ASSUME TypeOK, Arrivals, WaitersWait, ChainsInOrder, [Next]_vars
             PROVE  ChainsInOrder'
  OBVIOUS
<1> DEFINE Moves(u) ==
             \/ pc'[u] = pc[u]
             \/ /\ pc[u] \in Past \/ (pc[u] = "chained" /\ PredecessorSettled(u))
                /\ pc'[u] \in Past \cup {"done"}
<1> USE DEF Past
<1>1. ASSUME NEW t \in Tasks, RunCancelled(t) PROVE ChainsInOrder'
  BY <1>1, ChainsArrive DEF RunCancelled
<1>2. ASSUME NEW t \in Tasks, RunControl(t) PROVE ChainsInOrder'
  BY <1>2, ChainsArrive DEF RunControl, IsChained
<1>3. ASSUME NEW t \in Tasks, RunRead(t) PROVE ChainsInOrder'
  <2>1. PICK ph \in {"waiting", "granted"} : pc' = [pc EXCEPT ![t] = ph]
    BY <1>3 DEF RunRead, Acquire
  <2>2. ~IsChained(t) /\ Arrive(t) /\ UNCHANGED <<call, pred, tail>>
    BY <1>3 DEF RunRead, UsesPool, IsChained
  <2> QED
    BY <2>1, <2>2, ChainsArrive
<1>4. ASSUME NEW t \in Tasks, RunChained(t) PROVE ChainsInOrder'
  BY <1>4, ChainsEnqueue
<1>5. ASSUME NEW t \in Tasks, SkipCancelled(t) PROVE ChainsInOrder'
  <2>1. \A u \in Tasks : Moves(u)
    BY <1>5 DEF SkipCancelled, TypeOK
  <2> QED
    BY <1>5, <2>1, ChainsMove DEF SkipCancelled
<1>6. ASSUME NEW t \in Tasks, ReachWrite(t) PROVE ChainsInOrder'
  <2>1. \A u \in Tasks : Moves(u)
    BY <1>6 DEF ReachWrite, Acquire, TypeOK
  <2> QED
    BY <1>6, <2>1, ChainsMove DEF ReachWrite
<1>7. ASSUME NEW t \in Tasks, StartChained(t) PROVE ChainsInOrder'
  <2>1. \A u \in Tasks : Moves(u)
    BY <1>7 DEF StartChained, TypeOK
  <2> QED
    BY <1>7, <2>1, ChainsMove DEF StartChained
<1>8. ASSUME NEW t \in Tasks, StartGranted(t) PROVE ChainsInOrder'
  <2>1. \A u \in Tasks : Moves(u)
    BY <1>8 DEF StartGranted, TypeOK
  <2> QED
    BY <1>8, <2>1, ChainsMove DEF StartGranted
<1>9. ASSUME NEW t \in Tasks, Finish(t) PROVE ChainsInOrder'
  <2>1. \A u \in Tasks : Moves(u)
    BY <1>9 DEF Finish, TypeOK
  <2> QED
    BY <1>9, <2>1, ChainsMove DEF Finish
<1>10. ASSUME NEW t \in Tasks, Release(t) PROVE ChainsInOrder'
  <2>1. ASSUME NEW pool \in Pools, ReleaseTo(t, pool) PROVE \A u \in Tasks : Moves(u)
    BY <1>10, <2>1, HeadWaits DEF Release, ReleaseTo, TypeOK
  <2>2. ASSUME pc' = [pc EXCEPT ![t] = "done"] PROVE \A u \in Tasks : Moves(u)
    BY <1>10, <2>2 DEF Release, TypeOK
  <2>3. \A u \in Tasks : Moves(u)
    BY <1>10, <2>1, <2>2 DEF Release
  <2> QED
    BY <1>10, <2>3, ChainsMove DEF Release
<1>11. ASSUME NEW t \in Tasks, DropTail(t) PROVE ChainsInOrder'
  BY <1>11, ChainsDropTail
<1>12. ASSUME NEW t \in Tasks, Abort(t) PROVE ChainsInOrder'
  <2>1. \A u \in Tasks : Moves(u)
    BY <1>12 DEF Abort, AbortWaiting, AbortUnstarted, AbortBeforeCall, TypeOK
  <2> QED
    BY <1>12, <2>1, ChainsMove DEF Abort
<1>13. CASE UNCHANGED vars
  BY <1>13, ChainsMove DEF vars
<1> QED
  BY <1>1, <1>2, <1>3, <1>4, <1>5, <1>6, <1>7, <1>8, <1>9, <1>10, <1>11, <1>12, <1>13
  DEF Next, Run, Continue

-----------------------------------------------------------------------------
(* Arrivals and waiters *)

LEMMA ArrivalsStep ==
  TypeOK /\ Arrivals /\ WaitersWait /\ [Next]_vars => Arrivals'
<1> SUFFICES ASSUME TypeOK, Arrivals, WaitersWait, [Next]_vars
             PROVE  Arrivals'
  OBVIOUS
<1> USE DEF TypeOK, Arrivals, Tasks
<1>1. ASSUME NEW t \in Tasks, Run(t) PROVE Arrivals'
  <2>1. PICK ph \in Phases \ {"new"} : pc' = [pc EXCEPT ![t] = ph]
    BY <1>1 DEF Run, RunCancelled, RunControl, RunRead, RunChained, Acquire, Phases
  <2>2. pc[t] = "new" /\ t = scheduled + 1 /\ scheduled' = t
    BY <1>1 DEF Run, RunCancelled, RunControl, RunRead, RunChained, Arrive
  <2> QED
    BY <2>1, <2>2
<1>2. ASSUME NEW t \in Tasks,
             SkipCancelled(t) \/ ReachWrite(t) \/ StartChained(t) \/ StartGranted(t)
      PROVE  Arrivals'
  BY <1>2 DEF SkipCancelled, ReachWrite, StartChained, StartGranted, Acquire
<1>3. ASSUME NEW t \in Tasks, Release(t) PROVE Arrivals'
  <2>1. scheduled' = scheduled /\ pc[t] = "settling"
    BY <1>3 DEF Release
  <2>2. ASSUME NEW pool \in Pools, ReleaseTo(t, pool) PROVE Arrivals'
    BY <2>1, <2>2, HeadWaits DEF ReleaseTo
  <2>3. ASSUME pc' = [pc EXCEPT ![t] = "done"] PROVE Arrivals'
    BY <2>1, <2>3
  <2> QED
    BY <1>3, <2>2, <2>3 DEF Release
<1>4. ASSUME NEW t \in Tasks, Finish(t) \/ DropTail(t) PROVE Arrivals'
  BY <1>4 DEF Finish, DropTail
<1>5. ASSUME NEW t \in Tasks, Abort(t) PROVE Arrivals'
  BY <1>5 DEF Abort, AbortWaiting, AbortUnstarted, AbortBeforeCall
<1>6. CASE UNCHANGED vars
  BY <1>6 DEF vars
<1> QED
  BY <1>1, <1>2, <1>3, <1>4, <1>5, <1>6 DEF Next, Continue

LEMMA WaitersKept ==
  ASSUME TypeOK, WaitersWait, UNCHANGED <<call, waiters>>,
         \A u \in Tasks : pc[u] = "waiting" => pc'[u] = "waiting"
  PROVE  WaitersWait'
<1>1. \A pool \in Pools : \A i \in DOMAIN waiters[pool] : waiters[pool][i] \in Tasks
  BY DEF TypeOK
<1> QED
  BY <1>1 DEF WaitersWait, UsesPool

\* A task that asks for a permit of its pool joins the queue once.
LEMMA WaitersAcquire ==
  ASSUME TypeOK, WaitersWait, NEW t \in Tasks, NEW pool \in Pools,
         pc[t] \in {"new", "chained"}, UsesPool(t, pool), Acquire(t, pool), UNCHANGED call
  PROVE  WaitersWait'
<1>1. CASE UNCHANGED waiters
  <2>1. \A u \in Tasks : pc[u] = "waiting" => pc'[u] = "waiting"
    BY DEF Acquire, TypeOK
  <2> QED
    BY <1>1, <2>1, WaitersKept
<1>2. CASE /\ waiters' = [waiters EXCEPT ![pool] = Append(waiters[pool], t)]
           /\ pc' = [pc EXCEPT ![t] = "waiting"]
  <2> DEFINE q == waiters[pool]
  <2>1. /\ q \in Seq(Tasks) /\ waiters'[pool] = Append(q, t)
        /\ \A p \in Pools : p # pool => waiters'[p] = waiters[p]
        /\ \A i \in DOMAIN q : q[i] \in Tasks /\ q[i] # t
        /\ pc'[t] = "waiting" /\ \A u \in Tasks : u # t => pc'[u] = pc[u]
    BY <1>2 DEF TypeOK, WaitersWait
  <2>2. /\ DOMAIN Append(q, t) = 1 .. (Len(q) + 1) /\ DOMAIN q = 1 .. Len(q)
        /\ Len(q) \in Nat
        /\ Append(q, t)[Len(q) + 1] = t
        /\ \A i \in 1 .. Len(q) : Append(q, t)[i] = q[i]
    BY <2>1
  <2> HIDE DEF q
  <2>3. ASSUME NEW i \in DOMAIN waiters'[pool]
        PROVE  /\ UsesPool(waiters'[pool][i], pool) /\ pc'[waiters'[pool][i]] = "waiting"
               /\ \A j \in DOMAIN waiters'[pool] :
                    waiters'[pool][i] = waiters'[pool][j] => i = j
    BY <2>1, <2>2, <2>3 DEF WaitersWait, q
  <2>4. ASSUME NEW p \in Pools, p # pool, NEW i \in DOMAIN waiters[p]
        PROVE  /\ UsesPool(waiters[p][i], p) /\ pc'[waiters[p][i]] = "waiting"
               /\ \A j \in DOMAIN waiters[p] : waiters[p][i] = waiters[p][j] => i = j
    <3>1. waiters[p][i] \in Tasks /\ waiters[p][i] # t
      BY <2>4 DEF TypeOK, WaitersWait
    <3> QED
      BY <2>1, <2>4, <3>1 DEF WaitersWait
  <2>5. ASSUME NEW p \in Pools, NEW i \in DOMAIN waiters'[p]
        PROVE  /\ UsesPool(waiters'[p][i], p) /\ pc'[waiters'[p][i]] = "waiting"
               /\ \A j \in DOMAIN waiters'[p] :
                    waiters'[p][i] = waiters'[p][j] => i = j
    <3>1. CASE p = pool
      BY <2>3, <2>5, <3>1
    <3>2. CASE p # pool
      BY <2>1, <2>4, <2>5, <3>2
    <3> QED
      BY <3>1, <3>2
  <2> QED
    BY <2>5 DEF WaitersWait, UsesPool
<1> QED
  BY <1>1, <1>2 DEF Acquire

\* A task is a waiter of one semaphore only.
LEMMA OnePool ==
  ASSUME NEW t, NEW p \in Pools, NEW r \in Pools, UsesPool(t, p), UsesPool(t, r)
  PROVE  p = r
BY DEF UsesPool

\* One task t leaves one queue, from place k; it is not waiting any more.
LEMMA WaitersLeave ==
  ASSUME TypeOK, WaitersWait, UNCHANGED call, NEW pool \in Pools,
         NEW k \in DOMAIN waiters[pool],
         waiters' = [waiters EXCEPT ![pool] = Without(waiters[pool], k)],
         \A u \in Tasks : u # waiters[pool][k] /\ pc[u] = "waiting" => pc'[u] = "waiting"
  PROVE  WaitersWait'
<1> DEFINE q == waiters[pool]
           r == Without(q, k)
<1>1. /\ q \in Seq(Tasks) /\ waiters'[pool] = r
      /\ \A p \in Pools : p # pool => waiters'[p] = waiters[p]
  BY DEF TypeOK
<1>2. /\ DOMAIN q = 1 .. Len(q) /\ DOMAIN r = 1 .. (Len(q) - 1) /\ Len(q) \in Nat
      /\ \A j \in DOMAIN r : r[j] = IF j < k THEN q[j] ELSE q[j + 1]
  BY <1>1, WithoutType DEF Without
<1>3. \A i \in DOMAIN q : /\ q[i] \in Tasks /\ UsesPool(q[i], pool) /\ pc[q[i]] = "waiting"
                          /\ \A j \in DOMAIN q : q[i] = q[j] => i = j
  BY <1>1 DEF WaitersWait
<1> HIDE DEF q, r
<1>4. ASSUME NEW i \in DOMAIN r
      PROVE  /\ UsesPool(r[i], pool) /\ pc'[r[i]] = "waiting"
             /\ \A j \in DOMAIN r : r[i] = r[j] => i = j
  <2> DEFINE at(j) == IF j < k THEN j ELSE j + 1
  <2>1. k \in 1 .. Len(q)
    BY <1>2 DEF q
  <2>2. \A j \in DOMAIN r : at(j) \in DOMAIN q /\ at(j) # k /\ r[j] = q[at(j)]
    BY <1>2, <2>1
  <2>3. \A j \in DOMAIN r : at(i) = at(j) => i = j
    BY <1>2, <2>1
  <2>4. q[at(i)] # q[k]
    BY <1>2, <1>3, <2>1, <2>2
  <2> HIDE DEF at
  <2> QED
    BY <1>2, <1>3, <2>1, <2>2, <2>3, <2>4 DEF q
<1>5. ASSUME NEW p \in Pools, p # pool, NEW i \in DOMAIN waiters[p]
      PROVE  /\ UsesPool(waiters[p][i], p) /\ pc'[waiters[p][i]] = "waiting"
             /\ \A j \in DOMAIN waiters[p] : waiters[p][i] = waiters[p][j] => i = j
  <2>1. /\ waiters[p][i] \in Tasks /\ UsesPool(waiters[p][i], p)
        /\ pc[waiters[p][i]] = "waiting"
    BY DEF TypeOK, WaitersWait
  <2>2. waiters[p][i] # waiters[pool][k]
    BY <1>3, <1>5, <2>1, OnePool DEF q
  <2> QED
    BY <2>1, <2>2 DEF WaitersWait
<1> QED
  BY <1>1, <1>4, <1>5 DEF WaitersWait, UsesPool

LEMMA WaitersStep == TypeOK /\ WaitersWait /\ [Next]_vars => WaitersWait'
<1> SUFFICES ASSUME TypeOK, WaitersWait, [Next]_vars
             PROVE  WaitersWait'
  OBVIOUS
<1>1. ASSUME NEW t \in Tasks, RunCancelled(t) \/ RunControl(t) \/ RunChained(t)
      PROVE  WaitersWait'
  BY <1>1, WaitersKept DEF RunCancelled, RunControl, RunChained, Arrive, TypeOK
<1>2. ASSUME NEW t \in Tasks, RunRead(t) PROVE WaitersWait'
  BY <1>2, WaitersAcquire DEF RunRead, Arrive, Pools
<1>3. ASSUME NEW t \in Tasks, ReachWrite(t) PROVE WaitersWait'
  BY <1>3, WaitersAcquire DEF ReachWrite, Pools
<1>4. ASSUME NEW t \in Tasks, SkipCancelled(t) \/ StartChained(t) \/ StartGranted(t) \/ Finish(t)
      PROVE  WaitersWait'
  BY <1>4, WaitersKept DEF SkipCancelled, StartChained, StartGranted, Finish, TypeOK
<1>5. ASSUME NEW t \in Tasks, Release(t) PROVE WaitersWait'
  <2>1. UNCHANGED call /\ pc[t] = "settling"
    BY <1>5 DEF Release
  <2>2. ASSUME UNCHANGED waiters, pc' = [pc EXCEPT ![t] = "done"] PROVE WaitersWait'
    BY <2>1, <2>2, WaitersKept DEF TypeOK
  <2>3. ASSUME NEW pool \in Pools, ReleaseTo(t, pool), waiters[pool] # << >>
        PROVE  WaitersWait'
    <3> DEFINE q == waiters[pool]
    <3>1. q \in Seq(Tasks) /\ 1 \in DOMAIN q /\ Head(q) = q[1]
      BY <2>3 DEF TypeOK
    <3>2. /\ pc' = [pc EXCEPT ![t] = "done", ![Head(q)] = "granted"]
          /\ waiters' = [waiters EXCEPT ![pool] = Tail(q)]
      BY <2>3 DEF ReleaseTo
    <3>3. Tail(q) = Without(q, 1)
      BY <3>1, Z3 DEF Without
    <3>4. \A u \in Tasks : u # q[1] /\ pc[u] = "waiting" => pc'[u] = "waiting"
      BY <2>1, <3>1, <3>2 DEF TypeOK
    <3> QED
      BY <2>1, <3>1, <3>2, <3>3, <3>4, WaitersLeave
  <2> QED
    BY <1>5, <2>2, <2>3 DEF Release, ReleaseTo
<1>6. ASSUME NEW t \in Tasks, DropTail(t) PROVE WaitersWait'
  BY <1>6, WaitersKept DEF DropTail
<1>7. ASSUME NEW t \in Tasks, Abort(t) PROVE WaitersWait'
  <2>1. ASSUME AbortWaiting(t) PROVE WaitersWait'
    <3>1. PICK pool \in Pools : \E i \in DOMAIN waiters[pool] :
            /\ waiters[pool][i] = t
            /\ waiters' = [waiters EXCEPT ![pool] = Without(waiters[pool], i)]
      BY <2>1 DEF AbortWaiting
    <3>2. PICK i \in DOMAIN waiters[pool] :
            /\ waiters[pool][i] = t
            /\ waiters' = [waiters EXCEPT ![pool] = Without(waiters[pool], i)]
      BY <3>1
    <3>3. \A u \in Tasks : u # t /\ pc[u] = "waiting" => pc'[u] = "waiting"
      BY <2>1 DEF AbortWaiting, TypeOK
    <3>4. UNCHANGED call
      BY <1>7 DEF Abort
    <3> QED
      BY <3>2, <3>3, <3>4, WaitersLeave
  <2>2. ASSUME AbortUnstarted(t) \/ AbortBeforeCall(t) PROVE WaitersWait'
    BY <1>7, <2>2, WaitersKept DEF Abort, AbortUnstarted, AbortBeforeCall
  <2> QED
    BY <1>7, <2>1, <2>2 DEF Abort
<1>8. CASE UNCHANGED vars
  BY <1>8, WaitersKept DEF vars
<1> QED
  BY <1>1, <1>2, <1>3, <1>4, <1>5, <1>6, <1>7, <1>8 DEF Next, Run, Continue

-----------------------------------------------------------------------------
(* Permits *)

\* The permits of both pools, and that none is idle while a task waits.
Permits == PermitsAccounted /\ WorkConserving

\* A step that grants and frees nothing.
LEMMA PermitsKept ==
  ASSUME TypeOK, Permits, UNCHANGED <<call, active>>,
         \A p \in Pools : waiters'[p] # << >> => waiters[p] # << >>,
         \A u \in Tasks : \A p \in Pools :
           UsesPool(u, p) => (pc'[u] \in Holding <=> pc[u] \in Holding)
  PROVE  Permits'
<1>1. \A p \in Pools : Holders(p)' = Holders(p)
  BY DEF Holders, UsesPool
<1> QED
  BY <1>1 DEF Permits, PermitsAccounted, WorkConserving, Limit

LEMMA PermitsAcquire ==
  ASSUME TypeOK, Permits, NEW t \in Tasks, NEW pool \in Pools,
         pc[t] \in {"new", "chained"}, UsesPool(t, pool), Acquire(t, pool), UNCHANGED call
  PROVE  Permits'
<1> USE DEF Holding
<1>1. CASE /\ active[pool] < Limit(pool)
           /\ active' = [active EXCEPT ![pool] = @ + 1]
           /\ pc' = [pc EXCEPT ![t] = "granted"]
           /\ UNCHANGED waiters
  <2>1. Holders(pool)' = Holders(pool) \cup {t} /\ t \notin Holders(pool)
    BY <1>1 DEF Holders, UsesPool, TypeOK
  <2>2. Cardinality(Holders(pool)') = Cardinality(Holders(pool)) + 1
    BY <2>1, HoldersFinite, FS_AddElement
  <2>3. Limit(pool) \in Nat /\ active[pool] \in Nat
    BY ConstantsAssumption DEF Limit, TypeOK
  <2>4. ASSUME NEW p \in Pools, p # pool PROVE Holders(p)' = Holders(p)
    BY <1>1, <2>4 DEF Holders, UsesPool, TypeOK
  <2>5. active'[pool] = active[pool] + 1 /\ \A p \in Pools : p # pool => active'[p] = active[p]
    BY <1>1 DEF TypeOK
  <2>6. waiters[pool] = << >>
    BY <1>1, <2>3 DEF Permits, WorkConserving
  <2>7. PermitsAccounted'
    BY <1>1, <2>2, <2>3, <2>4, <2>5 DEF Permits, PermitsAccounted, Limit
  <2>8. WorkConserving'
    BY <1>1, <2>5, <2>6 DEF Permits, WorkConserving, Limit
  <2> QED
    BY <2>7, <2>8 DEF Permits
<1>2. CASE /\ active[pool] >= Limit(pool)
           /\ waiters' = [waiters EXCEPT ![pool] = Append(@, t)]
           /\ pc' = [pc EXCEPT ![t] = "waiting"]
           /\ UNCHANGED active
  <2>1. \A p \in Pools : Holders(p)' = Holders(p)
    BY <1>2 DEF Holders, UsesPool, TypeOK
  <2>2. PermitsAccounted'
    BY <1>2, <2>1 DEF Permits, PermitsAccounted, Limit
  <2>3. active[pool] = Limit(pool)
    BY <1>2, ConstantsAssumption DEF Permits, PermitsAccounted, Limit, TypeOK
  <2>4. \A p \in Pools : p # pool => waiters'[p] = waiters[p]
    BY <1>2 DEF TypeOK
  <2>5. WorkConserving'
    BY <1>2, <2>3, <2>4 DEF Permits, WorkConserving, Limit
  <2> QED
    BY <2>2, <2>5 DEF Permits
<1> QED
  BY <1>1, <1>2 DEF Acquire

\* release() hands the permit to the first waiter, or frees it.
LEMMA PermitsRelease ==
  ASSUME TypeOK, WaitersWait, Permits, NEW t \in Tasks, NEW pool \in Pools,
         pc[t] = "settling", UsesPool(t, pool), ReleaseTo(t, pool), UNCHANGED call
  PROVE  Permits'
<1> USE DEF Holding
<1>1. CASE /\ waiters[pool] = << >>
           /\ active' = [active EXCEPT ![pool] = @ - 1]
           /\ pc' = [pc EXCEPT ![t] = "done"]
           /\ UNCHANGED waiters
  <2>1. Holders(pool)' = Holders(pool) \ {t} /\ t \in Holders(pool)
    BY <1>1 DEF Holders, UsesPool, TypeOK
  <2>2. Cardinality(Holders(pool)') = Cardinality(Holders(pool)) - 1
    BY <2>1, HoldersFinite, FS_RemoveElement
  <2>3. Limit(pool) \in Nat /\ active[pool] \in Nat
    BY ConstantsAssumption DEF Limit, TypeOK
  <2>4. ASSUME NEW p \in Pools, p # pool PROVE Holders(p)' = Holders(p)
    <3>1. ~UsesPool(t, p)
      BY <2>4, OnePool
    <3> QED
      BY <1>1, <3>1 DEF Holders, UsesPool, TypeOK
  <2>5. active'[pool] = active[pool] - 1 /\ \A p \in Pools : p # pool => active'[p] = active[p]
    BY <1>1 DEF TypeOK
  <2>6. PermitsAccounted'
    BY <2>2, <2>3, <2>4, <2>5 DEF Permits, PermitsAccounted, Limit
  <2>7. WorkConserving'
    BY <1>1, <2>5 DEF Permits, WorkConserving, Limit
  <2> QED
    BY <2>6, <2>7 DEF Permits
<1>2. CASE /\ waiters[pool] # << >>
           /\ pc' = [pc EXCEPT ![t] = "done", ![Head(waiters[pool])] = "granted"]
           /\ waiters' = [waiters EXCEPT ![pool] = Tail(@)]
           /\ UNCHANGED active
  <2> DEFINE h == Head(waiters[pool])
  <2>1. h \in Tasks /\ pc[h] = "waiting" /\ UsesPool(h, pool) /\ h # t
    BY <1>2, HeadWaits
  <2> HIDE DEF h
  <2>2. pc' = [pc EXCEPT ![t] = "done", ![h] = "granted"]
    BY <1>2 DEF h
  <2>3. Holders(pool)' = (Holders(pool) \ {t}) \cup {h}
    BY <2>1, <2>2 DEF Holders, UsesPool, TypeOK
  <2>4. t \in Holders(pool) /\ h \notin Holders(pool) \ {t}
    BY <2>1 DEF Holders
  <2>5. IsFiniteSet(Holders(pool) \ {t})
        /\ Cardinality(Holders(pool) \ {t}) = Cardinality(Holders(pool)) - 1
    BY <2>4, HoldersFinite, FS_RemoveElement
  <2>6. Cardinality(Holders(pool)') = Cardinality(Holders(pool))
    <3>1. Cardinality(Holders(pool)) \in Nat
      BY HoldersFinite, FS_CardinalityType
    <3>2. Cardinality((Holders(pool) \ {t}) \cup {h}) = Cardinality(Holders(pool) \ {t}) + 1
      BY <2>4, <2>5, FS_AddElement
    <3> QED
      BY <2>3, <2>5, <3>1, <3>2
  <2>7. ASSUME NEW p \in Pools, p # pool PROVE Holders(p)' = Holders(p)
    <3>1. ~UsesPool(t, p) /\ ~UsesPool(h, p)
      BY <2>1, <2>7, OnePool
    <3> QED
      BY <2>1, <2>2, <3>1 DEF Holders, UsesPool, TypeOK
  <2>8. PermitsAccounted'
    BY <1>2, <2>6, <2>7 DEF Permits, PermitsAccounted, Limit
  <2>9. \A p \in Pools : p # pool => waiters'[p] = waiters[p]
    BY <1>2 DEF TypeOK
  <2>10. WorkConserving'
    BY <1>2, <2>9 DEF Permits, WorkConserving, Limit
  <2> QED
    BY <2>8, <2>10 DEF Permits
<1> QED
  BY <1>1, <1>2 DEF ReleaseTo

LEMMA PermitsStep ==
  TypeOK /\ WaitersWait /\ ChainsInOrder /\ Permits /\ [Next]_vars => Permits'
<1> SUFFICES ASSUME TypeOK, WaitersWait, ChainsInOrder, Permits, [Next]_vars
             PROVE  Permits'
  OBVIOUS
<1>1. ASSUME NEW t \in Tasks, RunCancelled(t) \/ RunChained(t) PROVE Permits'
  BY <1>1, PermitsKept DEF RunCancelled, RunChained, Arrive, TypeOK, Holding
<1>2. ASSUME NEW t \in Tasks, RunControl(t) PROVE Permits'
  <2>1. \A p \in Pools : ~UsesPool(t, p)
    BY <1>2 DEF RunControl, UsesPool, Pools
  <2> QED
    BY <1>2, <2>1, PermitsKept DEF RunControl, Arrive, TypeOK
<1>3. ASSUME NEW t \in Tasks, RunRead(t) PROVE Permits'
  BY <1>3, PermitsAcquire DEF RunRead, Arrive, Pools
<1>4. ASSUME NEW t \in Tasks, SkipCancelled(t) \/ StartGranted(t) \/ Finish(t) PROVE Permits'
  BY <1>4, PermitsKept DEF SkipCancelled, StartGranted, Finish, TypeOK, Holding
<1>5. ASSUME NEW t \in Tasks, ReachWrite(t) PROVE Permits'
  BY <1>5, PermitsAcquire DEF ReachWrite, Pools
<1>6. ASSUME NEW t \in Tasks, StartChained(t) PROVE Permits'
  <2>1. \A p \in Pools : ~UsesPool(t, p)
    BY <1>6 DEF StartChained, ChainsInOrder, LinkOK, IsChained, UsesPool, Pools
  <2> QED
    BY <1>6, <2>1, PermitsKept DEF StartChained, TypeOK
<1>7. ASSUME NEW t \in Tasks, Release(t) PROVE Permits'
  <2>1. CASE \A p \in Pools : ~UsesPool(t, p)
    BY <1>7, <2>1, PermitsKept DEF Release, TypeOK
  <2>2. ASSUME NEW pool \in Pools, UsesPool(t, pool), ReleaseTo(t, pool) PROVE Permits'
    BY <1>7, <2>2, PermitsRelease DEF Release
  <2> QED
    BY <1>7, <2>1, <2>2 DEF Release
<1>8. ASSUME NEW t \in Tasks, DropTail(t) PROVE Permits'
  BY <1>8, PermitsKept DEF DropTail
<1>9. ASSUME NEW t \in Tasks, Abort(t) PROVE Permits'
  <2>1. \A p \in Pools : waiters'[p] # << >> => waiters[p] # << >>
    BY <1>9 DEF Abort, AbortWaiting, AbortUnstarted, AbortBeforeCall, TypeOK
  <2>2. \A u \in Tasks : pc'[u] \in Holding <=> pc[u] \in Holding
    BY <1>9 DEF Abort, AbortWaiting, AbortUnstarted, AbortBeforeCall, TypeOK, Holding
  <2> QED
    BY <1>9, <2>1, <2>2, PermitsKept DEF Abort
<1>10. CASE UNCHANGED vars
  BY <1>10, PermitsKept DEF vars
<1> QED
  BY <1>1, <1>2, <1>3, <1>4, <1>5, <1>6, <1>7, <1>8, <1>9, <1>10 DEF Next, Run, Continue

-----------------------------------------------------------------------------
(* The order of reads *)

Reader(t) == t \in Tasks /\ UsesPool(t, "read")

\* Every waiting read is in the queue, and the queue is in the order of arrival.
ReadQueue ==
  /\ \A i, j \in DOMAIN waiters["read"] : i < j => waiters["read"][i] < waiters["read"][j]
  /\ \A t \in Tasks : Reader(t) /\ pc[t] = "waiting" =>
       \E i \in DOMAIN waiters["read"] : waiters["read"][i] = t

Readers == ReadQueue /\ ReadsInOrder

\* A step that neither grants a permit to a read nor makes one wait.
LEMMA ReadersKept ==
  ASSUME TypeOK, Readers, UNCHANGED call, waiters'["read"] = waiters["read"],
         \A t \in Tasks : Reader(t) =>
           /\ pc'[t] = "waiting" <=> pc[t] = "waiting"
           /\ pc'[t] \in Holding => pc[t] \in Holding
  PROVE  Readers'
  BY DEF Readers, ReadQueue, ReadsInOrder, Reader, UsesPool

\* A read asks for its permit: every earlier read that waits is before it.
LEMMA ReadersAcquire ==
  ASSUME TypeOK, Arrivals, WaitersWait, Permits, Readers, NEW t \in Tasks, RunRead(t)
  PROVE  Readers'
<1> DEFINE q == waiters["read"]
<1>1. q \in Seq(Tasks) /\ "read" \in Pools /\ Reader(t)
  BY DEF TypeOK, Pools, RunRead, Reader
<1>2. /\ call' = call /\ pc[t] = "new" /\ t = scheduled + 1
      /\ pc \in [Tasks -> Phases] /\ scheduled \in Nat /\ Tasks \subseteq Nat
  BY DEF RunRead, Arrive, TypeOK, Tasks
<1>3. \A u \in Tasks : u > t => pc[u] = "new"
  BY <1>2 DEF Arrivals
<1>4. \A u \in Tasks : pc[u] # "new" => u < t
  BY <1>2 DEF Arrivals
<1>5. CASE /\ active["read"] < Limit("read")
           /\ pc' = [pc EXCEPT ![t] = "granted"]
           /\ UNCHANGED waiters
  <2>1. q = << >>
    BY <1>1, <1>5, ConstantsAssumption DEF Permits, WorkConserving, Limit, TypeOK
  <2>2. \A u \in Tasks : Reader(u) => pc[u] # "waiting"
    BY <1>1, <2>1 DEF Readers, ReadQueue
  <2>3. \A u \in Tasks : Reader(u) => pc'[u] # "waiting"
    BY <1>2, <1>5, <2>2
  <2> QED
    BY <1>2, <1>5, <2>1, <2>3 DEF Readers, ReadQueue, ReadsInOrder, Reader, UsesPool
<1>6. CASE /\ waiters' = [waiters EXCEPT !["read"] = Append(q, t)]
           /\ pc' = [pc EXCEPT ![t] = "waiting"]
  <2>1. /\ waiters'["read"] = Append(q, t)
        /\ DOMAIN Append(q, t) = 1 .. (Len(q) + 1) /\ DOMAIN q = 1 .. Len(q) /\ Len(q) \in Nat
        /\ Append(q, t)[Len(q) + 1] = t
        /\ \A i \in 1 .. Len(q) : Append(q, t)[i] = q[i]
    BY <1>1, <1>6 DEF TypeOK
  <2>2. \A i \in DOMAIN q : q[i] \in Tasks /\ q[i] < t
    <3>1. \A i \in DOMAIN q : q[i] \in Tasks /\ pc[q[i]] = "waiting"
      BY <1>1 DEF WaitersWait
    <3> QED
      BY <1>4, <3>1
  <2>3. \A i, j \in DOMAIN q : i < j => q[i] < q[j]
    BY DEF Readers, ReadQueue
  <2>4. \A u \in Tasks : Reader(u) /\ pc[u] = "waiting" => \E i \in DOMAIN q : q[i] = u
    BY DEF Readers, ReadQueue
  <2> HIDE DEF q
  <2>5. \A i, j \in DOMAIN Append(q, t) : i < j => Append(q, t)[i] < Append(q, t)[j]
    BY <2>1, <2>2, <2>3
  <2>6. \A u \in Tasks : Reader(u) /\ pc'[u] = "waiting" =>
          \E i \in DOMAIN Append(q, t) : Append(q, t)[i] = u
    <3> SUFFICES ASSUME NEW u \in Tasks, Reader(u), pc'[u] = "waiting"
                 PROVE  \E i \in DOMAIN Append(q, t) : Append(q, t)[i] = u
      OBVIOUS
    <3>1. CASE u = t
      BY <2>1, <3>1
    <3>2. CASE u # t
      <4>1. PICK i \in DOMAIN q : q[i] = u
        BY <1>2, <1>6, <2>4, <3>2
      <4> QED
        BY <2>1, <4>1
    <3> QED
      BY <3>1, <3>2
  <2>7. ReadQueue'
    BY <1>2, <2>1, <2>5, <2>6 DEF ReadQueue, Reader, UsesPool
  <2>8. ReadsInOrder'
    BY <1>2, <1>3, <1>6 DEF Readers, ReadsInOrder, UsesPool, Holding
  <2> QED
    BY <2>7, <2>8 DEF Readers
<1> QED
  BY <1>5, <1>6 DEF RunRead, Acquire

\* A read leaves the queue, from place k: only its permit, if it is the first.
LEMMA ReadersLeave ==
  ASSUME TypeOK, Readers, UNCHANGED call,
         NEW k \in DOMAIN waiters["read"],
         waiters'["read"] = Without(waiters["read"], k),
         pc'[waiters["read"][k]] # "waiting",
         pc'[waiters["read"][k]] \in Holding => k = 1,
         \A u \in Tasks : Reader(u) /\ u # waiters["read"][k] =>
           /\ pc'[u] = "waiting" <=> pc[u] = "waiting"
           /\ pc'[u] \in Holding => pc[u] \in Holding
  PROVE  Readers'
<1> DEFINE q == waiters["read"]
           r == Without(q, k)
<1>1. /\ q \in Seq(Tasks) /\ Tasks \subseteq Nat
      /\ DOMAIN q = 1 .. Len(q) /\ DOMAIN r = 1 .. (Len(q) - 1) /\ Len(q) \in Nat
      /\ \A j \in DOMAIN r : r[j] = IF j < k THEN q[j] ELSE q[j + 1]
  BY WithoutType DEF TypeOK, Without, Pools, Tasks
<1>2. \A i \in DOMAIN q : q[i] \in Tasks
  BY <1>1
<1>3. \A i, j \in DOMAIN q : i < j => q[i] < q[j]
  BY DEF Readers, ReadQueue
<1>4. \A u \in Tasks : Reader(u) /\ pc[u] = "waiting" => \E i \in DOMAIN q : q[i] = u
  BY DEF Readers, ReadQueue
<1>5. q[k] = waiters["read"][k] /\ k \in DOMAIN q
  OBVIOUS
<1> HIDE DEF q, r
<1>6. \A i, j \in DOMAIN r : i < j => r[i] < r[j]
  <2> SUFFICES ASSUME NEW i \in DOMAIN r, NEW j \in DOMAIN r, i < j PROVE r[i] < r[j]
    OBVIOUS
  <2> DEFINE at(m) == IF m < k THEN m ELSE m + 1
  <2>1. at(i) \in DOMAIN q /\ at(j) \in DOMAIN q /\ at(i) < at(j)
    BY <1>1, <1>5
  <2>2. r[i] = q[at(i)] /\ r[j] = q[at(j)]
    BY <1>1
  <2> HIDE DEF at
  <2> QED
    BY <1>3, <2>1, <2>2
<1>7. \A u \in Tasks : Reader(u) /\ pc'[u] = "waiting" => \E i \in DOMAIN r : r[i] = u
  <2> SUFFICES ASSUME NEW u \in Tasks, Reader(u), pc'[u] = "waiting"
               PROVE  \E i \in DOMAIN r : r[i] = u
    OBVIOUS
  <2>1. u # q[k] /\ pc[u] = "waiting"
    BY <1>5
  <2>2. PICK i \in DOMAIN q : q[i] = u
    BY <1>4, <2>1
  <2>3. i # k
    BY <2>1, <2>2
  <2>4. CASE i < k
    BY <1>1, <1>5, <2>2, <2>4
  <2>5. CASE i > k
    <3>1. i - 1 \in DOMAIN r /\ ~(i - 1 < k) /\ (i - 1) + 1 = i
      BY <1>1, <1>5, <2>5
    <3> QED
      BY <1>1, <2>2, <3>1
  <2> QED
    BY <1>1, <1>5, <2>3, <2>4, <2>5
<1>8. ReadQueue'
  <2>1. waiters'["read"] = r
    BY DEF r, q
  <2> QED
    BY <1>6, <1>7, <2>1 DEF ReadQueue, Reader, UsesPool
<1>9. ReadsInOrder'
  <2> SUFFICES ASSUME NEW t \in Tasks, NEW u \in Tasks, t < u, Reader(t), Reader(u), pc'[t] = "waiting"
               PROVE  pc'[u] \notin Holding
    BY DEF ReadsInOrder, Reader, UsesPool
  <2>1. t # q[k] /\ pc[t] = "waiting"
    BY <1>5
  <2>2. CASE u # q[k]
    BY <1>5, <2>1, <2>2 DEF Readers, ReadsInOrder, Reader
  <2>3. CASE u = q[k] /\ k = 1
    <3>1. PICK i \in DOMAIN q : q[i] = t
      BY <1>4, <2>1
    <3>2. i > 1
      BY <1>1, <2>1, <2>3, <3>1
    <3>3. q[1] < q[i]
      BY <1>3, <1>5, <2>3, <3>1, <3>2
    <3> QED
      BY <1>1, <2>3, <3>1, <3>3
  <2>4. CASE u = q[k] /\ k # 1
    BY <1>5, <2>4
  <2> QED
    BY <2>2, <2>3, <2>4
<1> QED
  BY <1>8, <1>9 DEF Readers

LEMMA ReadersStep ==
  TypeOK /\ Arrivals /\ WaitersWait /\ ChainsInOrder /\ Permits /\ Readers /\ [Next]_vars => Readers'
<1> SUFFICES ASSUME TypeOK, Arrivals, WaitersWait, ChainsInOrder, Permits, Readers, [Next]_vars
             PROVE  Readers'
  OBVIOUS
<1>1. ASSUME NEW t \in Tasks, RunCancelled(t) \/ RunControl(t) \/ RunChained(t) PROVE Readers'
  BY <1>1, ReadersKept DEF RunCancelled, RunControl, RunChained, Arrive, TypeOK, Holding, Reader,
                           UsesPool, IsChained
<1>2. ASSUME NEW t \in Tasks, RunRead(t) PROVE Readers'
  BY <1>2, ReadersAcquire
<1>3. ASSUME NEW t \in Tasks, ReachWrite(t) PROVE Readers'
  <2>1. ~Reader(t) /\ UNCHANGED call
    BY <1>3 DEF ReachWrite, Reader, UsesPool
  <2>2. waiters'["read"] = waiters["read"] /\ \A u \in Tasks : u # t => pc'[u] = pc[u]
    BY <1>3 DEF ReachWrite, Acquire, TypeOK, Pools
  <2> QED
    BY <2>1, <2>2, ReadersKept
<1>4. ASSUME NEW t \in Tasks, SkipCancelled(t) \/ StartChained(t) \/ StartGranted(t) \/ Finish(t)
      PROVE  Readers'
  <2>1. Reader(t) => pc[t] # "chained"
    BY DEF ChainsInOrder, LinkOK, IsChained, Reader, UsesPool
  <2> QED
    BY <1>4, <2>1, ReadersKept DEF SkipCancelled, StartChained, StartGranted, Finish, TypeOK, Holding
<1>5. ASSUME NEW t \in Tasks, Release(t) PROVE Readers'
  <2>1. UNCHANGED call /\ pc[t] = "settling" /\ "read" \in Pools
    BY <1>5 DEF Release, Pools
  <2>2. CASE UNCHANGED waiters /\ pc' = [pc EXCEPT ![t] = "done"]
    BY <2>1, <2>2, ReadersKept DEF TypeOK, Holding
  <2>3. ASSUME NEW pool \in Pools, waiters[pool] # << >>, ReleaseTo(t, pool) PROVE Readers'
    <3> DEFINE h == Head(waiters[pool])
    <3>1. h \in Tasks /\ pc[h] = "waiting" /\ UsesPool(h, pool) /\ h # t
      BY <2>1, <2>3, HeadWaits
    <3>2. waiters[pool] \in Seq(Tasks) /\ 1 \in DOMAIN waiters[pool] /\ h = waiters[pool][1]
      BY <2>3 DEF TypeOK
    <3>3. /\ pc' = [pc EXCEPT ![t] = "done", ![h] = "granted"]
          /\ waiters' = [waiters EXCEPT ![pool] = Tail(waiters[pool])]
      BY <2>3 DEF ReleaseTo
    <3> HIDE DEF h
    <3>4. /\ pc'[h] = "granted" /\ pc'[t] = "done"
          /\ \A u \in Tasks : u # h /\ u # t => pc'[u] = pc[u]
      BY <3>1, <3>3 DEF TypeOK
    <3>5. CASE pool = "read"
      <4>1. Tail(waiters["read"]) = Without(waiters["read"], 1)
        BY <3>2, <3>5, Z3 DEF Without
      <4>2. waiters'["read"] = Without(waiters["read"], 1)
        BY <3>3, <3>5, <4>1 DEF TypeOK
      <4> QED
        BY <2>1, <3>1, <3>2, <3>4, <3>5, <4>2, ReadersLeave DEF Holding
    <3>6. CASE pool # "read"
      <4>1. ~Reader(h)
        BY <3>1, <3>6 DEF Reader, UsesPool
      <4>2. waiters'["read"] = waiters["read"]
        BY <2>1, <3>3, <3>6 DEF TypeOK
      <4> QED
        BY <2>1, <3>1, <3>4, <4>1, <4>2, ReadersKept DEF Holding
    <3> QED
      BY <3>5, <3>6
  <2> QED
    BY <1>5, <2>2, <2>3 DEF Release, ReleaseTo
<1>6. ASSUME NEW t \in Tasks, DropTail(t) PROVE Readers'
  BY <1>6, ReadersKept DEF DropTail
<1>7. ASSUME NEW t \in Tasks, Abort(t) PROVE Readers'
  <2>1. ASSUME AbortWaiting(t) PROVE Readers'
    <3>1. PICK pool \in Pools : \E i \in DOMAIN waiters[pool] :
            /\ waiters[pool][i] = t
            /\ waiters' = [waiters EXCEPT ![pool] = Without(waiters[pool], i)]
      BY <2>1 DEF AbortWaiting
    <3>2. PICK i \in DOMAIN waiters[pool] :
            /\ waiters[pool][i] = t
            /\ waiters' = [waiters EXCEPT ![pool] = Without(waiters[pool], i)]
      BY <3>1
    <3>3. UNCHANGED call /\ "read" \in Pools /\ UsesPool(t, pool)
      BY <1>7, <3>2 DEF Abort, Pools, WaitersWait
    <3>4. pc'[t] = "done" /\ \A u \in Tasks : u # t => pc'[u] = pc[u]
      BY <2>1 DEF AbortWaiting, TypeOK
    <3>5. CASE pool = "read"
      <4>1. waiters'["read"] = Without(waiters["read"], i)
        BY <3>2, <3>5 DEF TypeOK
      <4> QED
        BY <3>2, <3>3, <3>4, <3>5, <4>1, ReadersLeave DEF Holding
    <3>6. CASE pool # "read"
      <4>1. ~Reader(t) /\ waiters'["read"] = waiters["read"]
        BY <3>2, <3>3, <3>6 DEF Reader, UsesPool, TypeOK
      <4> QED
        BY <3>3, <3>4, <4>1, ReadersKept
    <3> QED
      BY <3>5, <3>6
  <2>2. ASSUME AbortUnstarted(t) \/ AbortBeforeCall(t) PROVE Readers'
    BY <1>7, <2>2, ReadersKept DEF Abort, AbortUnstarted, AbortBeforeCall
  <2> QED
    BY <1>7, <2>1, <2>2 DEF Abort
<1>8. CASE UNCHANGED vars
  BY <1>8, ReadersKept DEF vars
<1> QED
  BY <1>1, <1>2, <1>3, <1>4, <1>5, <1>6, <1>7, <1>8 DEF Next, Run, Continue

-----------------------------------------------------------------------------
(* The theorems *)

\* What holds of every reachable state.
Reachable == IInv /\ Permits /\ Readers

LEMMA Initially == Init => Reachable
<1> SUFFICES ASSUME Init PROVE Reachable
  OBVIOUS
<1>1. TypeOK
  BY ConstantsAssumption DEF Init, TypeOK, Phases
<1>2. \A pool \in Pools : Holders(pool) = {}
  BY DEF Init, Holders, Holding
<1>3. Permits
  <2>1. Cardinality({}) = 0
    BY FS_EmptySet
  <2>2. \A pool \in Pools : Cardinality(Holders(pool)) = 0 /\ active[pool] = 0
    BY <1>2, <2>1 DEF Init
  <2> QED
    BY <2>2, ConstantsAssumption
    DEF Init, Permits, PermitsAccounted, WorkConserving, Limit
<1>4. Arrivals
  BY ConstantsAssumption DEF Init, Arrivals, Tasks
<1>5. CancelledIsAborted /\ WaitersWait
  BY DEF Init, CancelledIsAborted, WaitersWait
<1>6. ChainsInOrder
  BY DEF Init, ChainsInOrder, LinkOK, TailOK, Past
<1>7. Readers
  BY DEF Init, Readers, ReadQueue, ReadsInOrder, Pools
<1> QED
  BY <1>1, <1>3, <1>4, <1>5, <1>6, <1>7 DEF Reachable, IInv

\* Reachable is an inductive invariant of the scheduler.
THEOREM Invariance == Spec => []Reachable
<1>1. Reachable /\ [Next]_vars => Reachable'
  BY TypeStep, ArrivalsStep, CancelStep, WaitersStep, ChainsStep, PermitsStep, ReadersStep
  DEF Reachable, IInv, Permits
<1> QED
  BY <1>1, Initially, PTL DEF Spec

\* Every variable of the scheduler keeps its type.
THEOREM TypeCorrect == Spec => []TypeOK
<1>1. Reachable => TypeOK
  BY DEF Reachable, IInv
<1> QED
  BY <1>1, Invariance, PTL

\* The semaphores stay right: active counts the holders of each and never
\* exceeds its limit, and no permit is idle while a task waits for it.
THEOREM PermitsCorrect == Spec => []PermitsExact
<1>1. Reachable => PermitsExact
  BY DEF Reachable, Permits, PermitsExact
<1> QED
  BY <1>1, Invariance, PTL

\* Lanes and readers keep their order, and a caller told that its call was
\* cancelled before it started was told so of a call that does not run.
THEOREM OrderCorrect == Spec => []OrderKept
<1>1. Reachable => LaneOrder
  BY DEF Reachable, IInv, ChainsInOrder, LaneOrder, Past, Behind, Before
<1>2. Reachable => CancelledNeverRuns
  BY DEF Reachable, IInv, CancelledIsAborted, CancelledNeverRuns
<1>3. Reachable => ReadsInOrder
  BY DEF Reachable, Readers
<1>4. Reachable => OrderKept
  BY <1>1, <1>2, <1>3 DEF OrderKept
<1> QED
  BY <1>4, Invariance, PTL

-----------------------------------------------------------------------------
(* The refinement of OrderedDispatch *)

\* An aborted task does not wait, and has answered if it has not started.
AbortAnswered ==
  \A t \in Tasks : aborted[t] =>
    /\ pc[t] # "waiting"
    /\ pc[t] \in {"chained", "granted"} => answer[t] = "cancelled"

LEMMA AbortStep == Reachable /\ AbortAnswered /\ [Next]_vars => AbortAnswered'
<1> SUFFICES ASSUME TypeOK, WaitersWait, AbortAnswered, [Next]_vars PROVE AbortAnswered'
  BY DEF Reachable, IInv
<1> USE DEF AbortAnswered
<1>1. ASSUME NEW t \in Tasks, Run(t) PROVE AbortAnswered'
  BY <1>1 DEF TypeOK, Run, Arrive, RunCancelled, RunControl, RunRead, RunChained, Acquire
<1>2. ASSUME NEW t \in Tasks, SkipCancelled(t) \/ ReachWrite(t) \/ StartChained(t)
                               \/ StartGranted(t) \/ Finish(t)
      PROVE  AbortAnswered'
  BY <1>2 DEF TypeOK, SkipCancelled, ReachWrite, StartChained, StartGranted, Finish, Acquire
<1>3. ASSUME NEW t \in Tasks, Release(t) PROVE AbortAnswered'
  <2>1. /\ pc[t] = "settling" /\ UNCHANGED aborted
        /\ \A u \in Tasks : u # t => answer'[u] = answer[u]
    BY <1>3 DEF Release, TypeOK
  <2>2. CASE pc' = [pc EXCEPT ![t] = "done"]
    BY <2>1, <2>2 DEF TypeOK
  <2>3. ASSUME NEW pool \in Pools, waiters[pool] # << >>, ReleaseTo(t, pool)
        PROVE  AbortAnswered'
    <3> DEFINE h == Head(waiters[pool])
    <3>1. h \in Tasks /\ pc[h] = "waiting"
      BY <2>3, HeadWaits
    <3>2. pc' = [pc EXCEPT ![t] = "done", ![h] = "granted"]
      BY <2>3 DEF ReleaseTo
    <3> HIDE DEF h
    <3> QED
      BY <2>1, <3>1, <3>2 DEF TypeOK
  <2> QED
    BY <1>3, <2>2, <2>3 DEF Release, ReleaseTo
<1>4. ASSUME NEW t \in Tasks, DropTail(t) PROVE AbortAnswered'
  BY <1>4 DEF DropTail
<1>5. ASSUME NEW t \in Tasks, Abort(t) PROVE AbortAnswered'
  BY <1>5 DEF TypeOK, Abort, AbortWaiting, AbortUnstarted, AbortBeforeCall
<1>6. CASE UNCHANGED vars
  BY <1>6 DEF vars
<1> QED
  BY <1>1, <1>2, <1>3, <1>4, <1>5, <1>6 DEF Next, Continue

\* What the refinement needs of a state.
Mapped == Reachable /\ AbortAnswered

\* The abstract variables.
Image == <<[t \in Tasks |-> LineOf(t)], [t \in Tasks |-> PoolOf(t)], [t \in Tasks |-> StageOf(t)]>>

\* The lines and pools of the calls never change.
LEMMA LinesKept ==
  ASSUME UNCHANGED call
  PROVE  /\ [t \in Tasks |-> LineOf(t)]' = [t \in Tasks |-> LineOf(t)]
         /\ [t \in Tasks |-> PoolOf(t)]' = [t \in Tasks |-> PoolOf(t)]
BY DEF LineOf, PoolOf, IsChained, Chain

\* A step that changes no stage is a stutter of the abstract scheduler.
LEMMA StagesStutter ==
  ASSUME UNCHANGED call, \A u \in Tasks : StageOf(u)' = StageOf(u)
  PROVE  UNCHANGED Image
<1>1. [t \in Tasks |-> StageOf(t)]' = [t \in Tasks |-> StageOf(t)]
  OBVIOUS
<1> QED
  BY <1>1, LinesKept DEF Image

\* A step that changes one task's stage changes it in the abstract scheduler.
LEMMA StageMoves ==
  ASSUME NEW t \in Tasks, NEW s, StageOf(t)' = s,
         \A u \in Tasks : u # t => StageOf(u)' = StageOf(u)
  PROVE  [u \in Tasks |-> StageOf(u)]' = [[u \in Tasks |-> StageOf(u)] EXCEPT ![t] = s]
OBVIOUS

\* A call arrives.
LEMMA MapsSubmit ==
  ASSUME Mapped, NEW t \in Tasks, Arrive(t), UNCHANGED call,
         StageOf(t)' \in {"queued", "withdrawn"}
           \/ (StageOf(t)' = "running" /\ LineOf(t) = NoLine /\ PoolOf(t) = NoPool),
         \A u \in Tasks : u # t => StageOf(u)' = StageOf(u)
  PROVE  Ordered!Next
<1> DEFINE stages == [u \in Tasks |-> StageOf(u)]
<1>1. StageOf(t) = "future"
  BY DEF Arrive, StageOf
<1>2. \A j \in Tasks : j < t => StageOf(j) # "future"
  <2>1. \A j \in Tasks : j < t => pc[j] # "new"
    BY DEF Mapped, Reachable, IInv, Arrivals, Arrive, TypeOK, Tasks
  <2> QED
    BY <2>1 DEF StageOf
<1>3. stages' = [stages EXCEPT ![t] = StageOf(t)']
  BY StageMoves
<1>4. NoLine \notin {<<c>> : c \in Chains} /\ NoPool \notin Pools
  BY DEF NoLine, NoPool, Pools
<1>5. Ordered!Submit(t)
  BY <1>1, <1>2, <1>3, <1>4 DEF Ordered!Submit
<1> QED
  BY <1>5, LinesKept DEF Ordered!Next

\* A queued call is withdrawn.
LEMMA MapsWithdraw ==
  ASSUME NEW t \in Tasks, UNCHANGED call, StageOf(t) = "queued", StageOf(t)' = "withdrawn",
         \A u \in Tasks : u # t => StageOf(u)' = StageOf(u)
  PROVE  Ordered!Next
<1>1. [u \in Tasks |-> StageOf(u)]' = [[u \in Tasks |-> StageOf(u)] EXCEPT ![t] = "withdrawn"]
  BY StageMoves
<1>2. Ordered!Withdraw(t)
  BY <1>1 DEF Ordered!Withdraw
<1> QED
  BY <1>2, LinesKept DEF Ordered!Next

\* A running call ends.
LEMMA MapsEnd ==
  ASSUME NEW t \in Tasks, UNCHANGED call, StageOf(t) = "running", StageOf(t)' = "over",
         \A u \in Tasks : u # t => StageOf(u)' = StageOf(u)
  PROVE  Ordered!Next
<1>1. [u \in Tasks |-> StageOf(u)]' = [[u \in Tasks |-> StageOf(u)] EXCEPT ![t] = "over"]
  BY StageMoves
<1>2. Ordered!End(t)
  BY <1>1 DEF Ordered!End
<1> QED
  BY <1>2, LinesKept DEF Ordered!Next

\* While a task holds its permit unstarted, the others leave room for it.
LEMMA RoomToRun ==
  ASSUME TypeOK, Permits, NEW t \in Tasks, pc[t] = "granted", NEW p \in Pools, UsesPool(t, p)
  PROVE  /\ IsFiniteSet(Ordered!RunningIn(p))
         /\ Cardinality(Ordered!RunningIn(p)) < Limit(p)
<1> DEFINE R == Ordered!RunningIn(p)
<1>1. R \subseteq Holders(p) \ {t}
  <2> SUFFICES ASSUME NEW u \in R PROVE u \in Holders(p) \ {t}
    OBVIOUS
  <2>1. u \in Tasks /\ PoolOf(u) = p /\ StageOf(u) = "running"
    BY DEF Ordered!RunningIn
  <2>2. p # NoPool
    BY DEF NoPool, Pools
  <2>3. UsesPool(u, p)
    BY <2>1, <2>2 DEF PoolOf, UsesPool
  <2>4. pc[u] \in {"running", "settling"}
    BY <2>1 DEF StageOf
  <2> QED
    BY <2>1, <2>3, <2>4 DEF Holders, Holding
<1>2. t \in Holders(p) /\ IsFiniteSet(Holders(p))
  BY HoldersFinite DEF Holders, Holding
<1>3. IsFiniteSet(Holders(p) \ {t}) /\ Cardinality(Holders(p) \ {t}) = Cardinality(Holders(p)) - 1
  BY <1>2, FS_RemoveElement
<1>4. IsFiniteSet(R) /\ Cardinality(R) <= Cardinality(Holders(p)) - 1
  BY <1>1, <1>3, FS_Subset
<1>5. Cardinality(Holders(p)) \in Nat /\ Cardinality(Holders(p)) <= Limit(p) /\ Limit(p) \in Nat
  BY <1>2, FS_CardinalityType, ConstantsAssumption DEF Permits, PermitsAccounted, Limit, TypeOK
<1>6. Cardinality(R) \in Nat
  BY <1>4, FS_CardinalityType
<1> QED
  BY <1>4, <1>5, <1>6

\* The abstract module counts as this one does.
LEMMA SameCardinality == ASSUME NEW S PROVE Ordered!Cardinality(S) = Cardinality(S)
BY DEF Ordered!Cardinality, Cardinality

\* A call whose turn has come starts.
LEMMA MapsStart ==
  ASSUME Mapped, NEW t \in Tasks, UNCHANGED call, StageOf(t) = "queued", StageOf(t)' = "running",
         \A u \in Tasks : u # t => StageOf(u)' = StageOf(u),
         IsChained(t) => Behind(t),
         pc[t] = "granted" \/ PoolOf(t) = NoPool
  PROVE  Ordered!Next
<1> DEFINE stages == [u \in Tasks |-> StageOf(u)]
           lines == [u \in Tasks |-> LineOf(u)]
           pools == [u \in Tasks |-> PoolOf(u)]
<1>1. stages' = [stages EXCEPT ![t] = "running"]
  BY StageMoves
<1>2. ASSUME lines[t] \in {<<c>> : c \in Chains}, NEW j \in Tasks, j < t, lines[j] = lines[t]
      PROVE  stages[j] \in {"over", "withdrawn"}
  <2>1. IsChained(t)
    BY <1>2 DEF LineOf, NoLine
  <2>2. IsChained(j) /\ Chain(j) = Chain(t)
    BY <1>2, <2>1 DEF LineOf, NoLine
  <2>3. pc[j] = "done"
    BY <1>2, <2>1, <2>2 DEF Behind, Before
  <2> QED
    BY <2>3 DEF StageOf
<1>3. pools[t] \in Pools => Ordered!Cardinality(Ordered!RunningIn(pools[t])) < Limit(pools[t])
  <2> SUFFICES ASSUME pools[t] \in Pools
               PROVE  Ordered!Cardinality(Ordered!RunningIn(pools[t])) < Limit(pools[t])
    OBVIOUS
  <2>1. UsesPool(t, pools[t]) /\ pools[t] # NoPool
    BY DEF PoolOf, UsesPool, NoPool, Pools
  <2> QED
    BY <2>1, RoomToRun, SameCardinality DEF Mapped, Reachable, IInv
<1>4. Ordered!Start(t)
  BY <1>1, <1>2, <1>3 DEF Ordered!Start
<1> QED
  BY <1>4, LinesKept DEF Ordered!Next

\* The stage of a task depends on its phase and its answer alone.
LEMMA SameStage ==
  ASSUME NEW u, pc'[u] = pc[u], answer'[u] = answer[u]
  PROVE  StageOf(u)' = StageOf(u)
BY DEF StageOf

\* What each step of the promises is to the abstract scheduler.
LEMMA MapsStep == Mapped /\ [Next]_vars => [Ordered!Next]_Image
<1> SUFFICES ASSUME Mapped, [Next]_vars PROVE Ordered!Next \/ UNCHANGED Image
  OBVIOUS
<1> USE DEF TypeOK
<1>1. TypeOK /\ ChainsInOrder /\ WaitersWait /\ CancelledIsAborted /\ AbortAnswered
  BY DEF Mapped, Reachable, IInv
<1>2. ASSUME NEW t \in Tasks, RunCancelled(t) PROVE Ordered!Next
  <2>1. pc'[t] = "done" /\ answer'[t] = "cancelled" /\ UNCHANGED call
    BY <1>1, <1>2 DEF RunCancelled
  <2>2. \A u \in Tasks : u # t => StageOf(u)' = StageOf(u)
    BY <1>1, <1>2, SameStage DEF RunCancelled
  <2>3. StageOf(t)' = "withdrawn"
    BY <2>1 DEF StageOf
  <2> QED
    BY <1>2, <2>1, <2>2, <2>3, MapsSubmit DEF RunCancelled
<1>3. ASSUME NEW t \in Tasks, RunControl(t) PROVE Ordered!Next
  <2>1. pc'[t] = "running" /\ UNCHANGED call /\ Arrive(t)
    BY <1>1, <1>3 DEF RunControl
  <2>2. \A u \in Tasks : u # t => StageOf(u)' = StageOf(u)
    BY <1>1, <1>3, SameStage DEF RunControl
  <2>3. StageOf(t)' = "running"
    BY <2>1 DEF StageOf
  <2>4. LineOf(t) = NoLine /\ PoolOf(t) = NoPool
    BY <1>3 DEF RunControl, LineOf, PoolOf, IsChained, Pools
  <2> QED
    BY <2>1, <2>2, <2>3, <2>4, MapsSubmit
<1>4. ASSUME NEW t \in Tasks, RunRead(t) \/ RunChained(t) PROVE Ordered!Next
  <2>1. pc'[t] \in {"chained", "waiting", "granted"} /\ UNCHANGED call /\ Arrive(t)
    BY <1>1, <1>4 DEF RunRead, RunChained, Acquire
  <2>2. \A u \in Tasks : u # t => StageOf(u)' = StageOf(u)
    BY <1>1, <1>4, SameStage DEF RunRead, RunChained, Acquire
  <2>3. StageOf(t)' = "queued"
    BY <2>1 DEF StageOf
  <2> QED
    BY <2>1, <2>2, <2>3, MapsSubmit
<1>5. ASSUME NEW t \in Tasks, SkipCancelled(t) PROVE Ordered!Next
  <2>1. pc[t] = "chained" /\ pc'[t] = "done" /\ answer'[t] = "cancelled" /\ UNCHANGED call
    BY <1>1, <1>5 DEF SkipCancelled, AbortAnswered
  <2>2. \A u \in Tasks : u # t => StageOf(u)' = StageOf(u)
    BY <1>1, <1>5, SameStage DEF SkipCancelled
  <2>3. StageOf(t) = "queued" /\ StageOf(t)' = "withdrawn"
    BY <2>1 DEF StageOf
  <2> QED
    BY <2>1, <2>2, <2>3, MapsWithdraw
<1>6. ASSUME NEW t \in Tasks, ReachWrite(t) PROVE UNCHANGED Image
  <2>1. /\ pc[t] = "chained" /\ pc'[t] \in {"waiting", "granted"} /\ UNCHANGED call
        /\ answer' = answer
    BY <1>1, <1>6 DEF ReachWrite, Acquire
  <2>2. \A u \in Tasks : u # t => StageOf(u)' = StageOf(u)
    BY <1>1, <1>6, SameStage DEF ReachWrite, Acquire
  <2>3. StageOf(t) = "queued" /\ StageOf(t)' = "queued"
    BY <2>1 DEF StageOf
  <2> QED
    BY <2>1, <2>2, <2>3, StagesStutter
<1>7. ASSUME NEW t \in Tasks, StartChained(t) PROVE Ordered!Next
  <2>1. pc[t] = "chained" /\ pc'[t] = "running" /\ UNCHANGED call
    BY <1>1, <1>7 DEF StartChained
  <2>2. \A u \in Tasks : u # t => StageOf(u)' = StageOf(u)
    BY <1>1, <1>7, SameStage DEF StartChained
  <2>3. StageOf(t) = "queued" /\ StageOf(t)' = "running"
    BY <2>1 DEF StageOf
  <2>4. Behind(t)
    BY <1>1, <1>7, <2>1, Reached DEF StartChained
  <2>5. IsChained(t) /\ ~UsesPool(t, "write")
    BY <1>1, <1>7, <2>1 DEF StartChained, ChainsInOrder, LinkOK
  <2>6. PoolOf(t) = NoPool
    BY <2>5 DEF IsChained, UsesPool, PoolOf, Pools
  <2> QED
    BY <2>1, <2>2, <2>3, <2>4, <2>6, MapsStart
<1>8. ASSUME NEW t \in Tasks, StartGranted(t) PROVE Ordered!Next \/ UNCHANGED Image
  <2>1. pc[t] = "granted" /\ UNCHANGED call /\ answer' = answer
    BY <1>1, <1>8 DEF StartGranted
  <2>2. \A u \in Tasks : u # t => StageOf(u)' = StageOf(u)
    BY <1>1, <1>8, SameStage DEF StartGranted
  <2>3. StageOf(t) = "queued"
    BY <2>1 DEF StageOf
  <2>4. CASE aborted[t]
    <3>1. pc'[t] = "settling" /\ answer[t] = "cancelled"
      BY <1>1, <1>8, <2>1, <2>4 DEF StartGranted, AbortAnswered
    <3>2. StageOf(t)' = "queued"
      BY <2>1, <3>1 DEF StageOf
    <3> QED
      BY <2>1, <2>2, <2>3, <3>2, StagesStutter
  <2>5. CASE ~aborted[t]
    <3>1. pc'[t] = "running"
      BY <1>1, <1>8, <2>5 DEF StartGranted
    <3>2. StageOf(t)' = "running"
      BY <3>1 DEF StageOf
    <3>3. Behind(t)
      BY <1>1, <2>1 DEF ChainsInOrder, Past
    <3> QED
      BY <2>1, <2>2, <2>3, <3>2, <3>3, MapsStart
  <2> QED
    BY <2>4, <2>5
<1>9. ASSUME NEW t \in Tasks, Finish(t) PROVE UNCHANGED Image
  <2>1. /\ pc[t] = "running" /\ pc'[t] = "settling" /\ UNCHANGED call
        /\ answer' = answer /\ answer[t] # "cancelled"
    BY <1>1, <1>9 DEF Finish, CancelledIsAborted
  <2>2. \A u \in Tasks : u # t => StageOf(u)' = StageOf(u)
    BY <1>1, <1>9, SameStage DEF Finish
  <2>3. StageOf(t) = "running" /\ StageOf(t)' = "running"
    BY <2>1 DEF StageOf
  <2> QED
    BY <2>1, <2>2, <2>3, StagesStutter
<1>10. ASSUME NEW t \in Tasks, Release(t) PROVE Ordered!Next
  <2>1. pc[t] = "settling" /\ UNCHANGED call /\ answer' = [answer EXCEPT ![t] = Answered(t)]
    BY <1>10 DEF Release
  <2>2. pc'[t] = "done" /\ \A u \in Tasks : u # t => StageOf(u)' = StageOf(u)
    <3>1. CASE pc' = [pc EXCEPT ![t] = "done"]
      BY <1>1, <2>1, <3>1, SameStage
    <3>2. ASSUME NEW pool \in Pools, waiters[pool] # << >>, ReleaseTo(t, pool)
          PROVE  pc'[t] = "done" /\ \A u \in Tasks : u # t => StageOf(u)' = StageOf(u)
      <4>1. PICK h \in Tasks : h = Head(waiters[pool]) /\ pc[h] = "waiting"
        BY <1>1, <3>2, HeadWaits
      <4>2. pc' = [pc EXCEPT ![t] = "done", ![h] = "granted"]
        BY <3>2, <4>1 DEF ReleaseTo
      <4>3. pc \in [Tasks -> Phases] /\ answer \in [Tasks -> {"none", "result", "cancelled"}]
        BY <1>1
      <4>4. pc'[t] = "done" /\ pc'[h] = "granted" /\ h # t
        BY <2>1, <4>1, <4>2, <4>3
      <4>5. StageOf(h) = "queued" /\ StageOf(h)' = "queued"
        BY <4>1, <4>4 DEF StageOf
      <4>6. ASSUME NEW u \in Tasks, u # t, u # h PROVE StageOf(u)' = StageOf(u)
        <5>1. pc'[u] = pc[u] /\ answer'[u] = answer[u]
          BY <2>1, <4>2, <4>3, <4>6
        <5> QED
          BY <5>1, SameStage
      <4> QED
        BY <4>4, <4>5, <4>6
    <3> QED
      BY <1>10, <3>1, <3>2 DEF Release, ReleaseTo
  <2>3. CASE answer[t] = "cancelled"
    <3>1. answer'[t] = "cancelled"
      BY <1>1, <2>1, <2>3 DEF Answered
    <3>2. StageOf(t) = "queued" /\ StageOf(t)' = "withdrawn"
      BY <2>1, <2>2, <2>3, <3>1 DEF StageOf
    <3> QED
      BY <2>1, <2>2, <3>2, MapsWithdraw
  <2>4. CASE answer[t] # "cancelled"
    <3>1. answer'[t] # "cancelled"
      BY <1>1, <2>1, <2>4 DEF Answered
    <3>2. StageOf(t) = "running" /\ StageOf(t)' = "over"
      BY <2>1, <2>2, <2>4, <3>1 DEF StageOf
    <3> QED
      BY <2>1, <2>2, <3>2, MapsEnd
  <2> QED
    BY <2>3, <2>4
<1>11. ASSUME NEW t \in Tasks, DropTail(t) PROVE UNCHANGED Image
  BY <1>11, SameStage, StagesStutter DEF DropTail
<1>12. ASSUME NEW t \in Tasks, Abort(t) PROVE Ordered!Next \/ UNCHANGED Image
  <2>1. UNCHANGED call
    BY <1>12 DEF Abort
  <2>2. \A u \in Tasks : u # t => StageOf(u)' = StageOf(u)
    BY <1>1, <1>12, SameStage DEF Abort, AbortWaiting, AbortUnstarted, AbortBeforeCall
  <2>3. CASE AbortWaiting(t)
    <3>1. pc[t] = "waiting" /\ pc'[t] = "done" /\ answer'[t] = "cancelled"
      BY <1>1, <2>3 DEF AbortWaiting
    <3>2. StageOf(t) = "queued" /\ StageOf(t)' = "withdrawn"
      BY <3>1 DEF StageOf
    <3> QED
      BY <2>1, <2>2, <3>2, MapsWithdraw
  <2>4. CASE AbortUnstarted(t) \/ AbortBeforeCall(t)
    <3>1. pc' = pc /\ pc[t] \in {"new", "chained", "granted"}
      BY <2>4 DEF AbortUnstarted, AbortBeforeCall
    <3>2. StageOf(t)' = StageOf(t)
      BY <3>1 DEF StageOf
    <3> QED
      BY <2>1, <2>2, <3>2, StagesStutter
  <2> QED
    BY <1>12, <2>3, <2>4 DEF Abort
<1>13. CASE UNCHANGED vars
  BY <1>13, SameStage, StagesStutter DEF vars
<1> QED
  BY <1>2, <1>3, <1>4, <1>5, <1>6, <1>7, <1>8, <1>9, <1>10, <1>11, <1>12, <1>13
  DEF Next, Run, Continue

\* The promise chains and semaphores implement the abstract scheduler: calls
\* of a line start in order, each once the earlier ones are over or withdrawn,
\* a pool never runs more calls than its size, and no call starts twice or
\* after its withdrawal.
THEOREM Refinement == Spec => ImplementsOrderedDispatch
<1>1. Init => Ordered!Init
  BY DEF Init, Ordered!Init, StageOf
<1>2. Init => AbortAnswered
  BY DEF Init, AbortAnswered
<1>3. Spec => []AbortAnswered
  BY <1>2, AbortStep, Invariance, PTL DEF Spec
<1>4. Mapped /\ [Next]_vars
        => [Ordered!Next]_<<[t \in Tasks |-> LineOf(t)], [t \in Tasks |-> PoolOf(t)],
                            [t \in Tasks |-> StageOf(t)]>>
  BY MapsStep DEF Image
<1> QED
  BY <1>1, <1>3, <1>4, Invariance, PTL DEF Spec, Mapped, ImplementsOrderedDispatch, Ordered!Spec
=============================================================================
