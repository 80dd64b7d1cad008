----------------------------- MODULE MCTaskQueue -----------------------------
(* The instance of TaskQueue: a task that is safe to retry and one that is not. *)
EXTENDS TaskQueue

CONSTANTS t1, t2, q

OneQueue == [t \in Tasks |-> q]
=============================================================================
