---------------------------- MODULE MailboxQueues ----------------------------
(***************************************************************************)
(* What the message broker promises to its senders, whatever processes      *)
(* share its state file and whichever of them dies: each recipient has one  *)
(* queue; only the head of a queue is handed to the transport; a letter     *)
(* that may have reached its recipient is never handed over again; a letter *)
(* leaves its queue as delivered only when it did reach the recipient; and  *)
(* a hand-off to the model is held until it is confirmed or given up.       *)
(*                                                                          *)
(* A letter is the sequence number the broker gives an accepted message.    *)
(***************************************************************************)
EXTENDS Naturals, Sequences, Functions, Subsequences

CONSTANTS Letters, Recipients

VARIABLES
  queue,    \* per recipient, the letters accepted and not yet settled
  air,      \* letters handed to the transport that may still arrive
  landed,   \* letters that have reached their recipient
  held      \* delivered letters whose model has not confirmed them

vars == <<queue, air, landed, held>>

Queued == UNION {Range(queue[r]) : r \in Recipients}

TypeOK ==
  /\ queue \in [Recipients -> Seq(Letters)]
  /\ air \subseteq Letters
  /\ landed \subseteq Letters
  /\ held \subseteq Letters

Init ==
  /\ queue = [r \in Recipients |-> <<>>]
  /\ air = {}
  /\ landed = {}
  /\ held = {}

Accept(r, s) ==
  /\ s \notin Queued \cup air \cup landed \cup held
  /\ queue' = [queue EXCEPT ![r] = Append(@, s)]
  /\ UNCHANGED <<air, landed, held>>

\* Only the head, and only if no earlier attempt can have reached anybody.
Offer(r) ==
  /\ queue[r] # <<>>
  /\ Head(queue[r]) \notin air \cup landed
  /\ air' = air \cup {Head(queue[r])}
  /\ UNCHANGED <<queue, landed, held>>

Land(s) ==
  /\ s \in air
  /\ air' = air \ {s}
  /\ landed' = landed \cup {s}
  /\ UNCHANGED <<queue, held>>

\* The transport says that the letter did not and will not arrive.
Refuse(s) ==
  /\ s \in air
  /\ air' = air \ {s}
  /\ UNCHANGED <<queue, landed, held>>

Deliver(r) ==
  /\ queue[r] # <<>>
  /\ Head(queue[r]) \in landed
  /\ queue' = [queue EXCEPT ![r] = Tail(@)]
  /\ held' \in {held, held \cup {Head(queue[r])}}
  /\ UNCHANGED <<air, landed>>

\* A recipient that is not known any more: its letters leave the queue.
Discard(gone) ==
  /\ queue' = [r \in Recipients |->
                Subsequence(queue[r], {k \in DOMAIN queue[r] : queue[r][k] \notin gone})]
  /\ UNCHANGED <<air, landed, held>>

\* A hand-off whose receipt is all that is left is held under a new number.
Hold(s) ==
  /\ s \notin Queued \cup air \cup landed \cup held
  /\ held' = held \cup {s}
  /\ UNCHANGED <<queue, air, landed>>

\* The model confirmed the letter, or the recipient's queue was given up.
Settle(s) ==
  /\ s \in held
  /\ held' = held \ {s}
  /\ UNCHANGED <<queue, air, landed>>

Next ==
  \/ \E r \in Recipients, s \in Letters : Accept(r, s)
  \/ \E r \in Recipients : Offer(r) \/ Deliver(r)
  \/ \E s \in Letters : Land(s) \/ Refuse(s) \/ Hold(s) \/ Settle(s)
  \/ \E gone \in SUBSET Letters : Discard(gone)

Spec == Init /\ [][Next]_vars
=============================================================================
