------------------------ MODULE MCDispatchScheduler ------------------------
(* TLC instances of DispatchScheduler: a few calls, one permit per pool. *)
EXTENDS DispatchScheduler

CONSTANTS a1, a2

\* Parallel mode: reads, two agents' writes and an exclusive tool.
MixedCalls ==
  {[kind |-> "read", lane |-> a1], [kind |-> "exclusive", lane |-> a1]}
    \cup {[kind |-> "write", lane |-> l] : l \in Lanes}

\* The same with a control call, for the runs of three calls.
ControlToo == MixedCalls \cup {[kind |-> "control", lane |-> a1]}

=============================================================================
