--------------------------- MODULE OrderedDispatch ---------------------------
(***************************************************************************)
(* What the dispatch scheduler promises (the header comment of             *)
(* src/src/lib/tool-dispatch-scheduler.js), with no promise, tail or       *)
(* semaphore: a call that belongs to a line starts only when every earlier *)
(* call of the line is over or withdrawn, and the calls that run from one  *)
(* pool never exceed the pool's size.                                      *)
(***************************************************************************)
EXTENDS Naturals, FiniteSets

CONSTANTS Ids,        \* calls, numbered in arrival order
          Lines,      \* the ordered lines
          PoolNames,  \* the bounded pools
          Size(_)     \* how many calls of a pool may run at once

VARIABLES line,       \* the line of each call, or a value outside Lines
          pool,       \* the pool of each call, or a value outside PoolNames
          phase       \* how far each call has come

Stages == {"future", "queued", "running", "over", "withdrawn"}

RunningIn(p) == {i \in Ids : pool[i] = p /\ phase[i] = "running"}

Init == phase = [i \in Ids |-> "future"]

\* A call arrives; a call of no line and no pool starts on arrival, and a
\* cancelled call is withdrawn on arrival.
Submit(i) ==
  /\ phase[i] = "future"
  /\ \A j \in Ids : j < i => phase[j] # "future"
  /\ \E to \in {"queued", "withdrawn"} \cup
               (IF line[i] \notin Lines /\ pool[i] \notin PoolNames
                THEN {"running"} ELSE {}) :
       phase' = [phase EXCEPT ![i] = to]

Start(i) ==
  /\ phase[i] = "queued"
  /\ line[i] \in Lines =>
       \A j \in Ids : j < i /\ line[j] = line[i] => phase[j] \in {"over", "withdrawn"}
  /\ pool[i] \in PoolNames => Cardinality(RunningIn(pool[i])) < Size(pool[i])
  /\ phase' = [phase EXCEPT ![i] = "running"]

Withdraw(i) ==
  /\ phase[i] = "queued"
  /\ phase' = [phase EXCEPT ![i] = "withdrawn"]

End(i) ==
  /\ phase[i] = "running"
  /\ phase' = [phase EXCEPT ![i] = "over"]

Next ==
  /\ \E i \in Ids : Submit(i) \/ Start(i) \/ Withdraw(i) \/ End(i)
  /\ UNCHANGED <<line, pool>>

Spec == Init /\ [][Next]_<<line, pool, phase>>
=============================================================================
