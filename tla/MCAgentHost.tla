----------------------------- MODULE MCAgentHost -----------------------------
(* Instances of AgentHost. *)
EXTENDS AgentHost, TLC

Interchangeable == Permutations(Messages) \cup Permutations(Requests)

\* What the environment does not do in a run.
Never == [w \in Inputs |-> 0]
NeverAtAll == [event \in BOOLEAN |-> Never]

\* An app-server's worker: tool calls, steering and a hold, with a restart of
\* the host, a lost save and a person being asked.  An agent whose answer is the
\* whole turn: a refused turn, one without an answer, and a new session.
ControlLimit ==
  [event \in BOOLEAN |->
     IF event THEN [Never EXCEPT !["restart"] = 1, !["refuse"] = 1, !["uncertain"] = 1,
                                 !["hold"] = 1]
     ELSE [Never EXCEPT !["crash"] = 1, !["save"] = 1, !["resume"] = 1, !["ask"] = 1,
                        !["hold"] = 1, !["calls"] = 2, !["unbound"] = 1]]

\* The courier with a refused turn, one the host gives up though the program works
\* on it, a program that exits and new work; an agent whose answer is the whole turn
\* is stopped, or its session replaced.
CourierLimit ==
  [event \in BOOLEAN |->
     IF event THEN [Never EXCEPT !["restart"] = 1, !["stop"] = 1]
     ELSE [Never EXCEPT !["assign"] = 1, !["refuse"] = 1, !["exit"] = 1, !["unbound"] = 1]]
=============================================================================
