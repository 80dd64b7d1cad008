------------------------------- MODULE Broker -------------------------------
(***************************************************************************)
(* The agent message broker (src/src/lib/agent-comms/broker.js).  Every      *)
(* broker object of every process of a machine works on one state file; a    *)
(* mutation is one read, change and write of that file under a lock, so it   *)
(* is one step here.  What is not one step is a delivery: the entry is       *)
(* claimed, the transport is awaited, and a second mutation records what     *)
(* came of it, while other brokers run and any process may die.              *)
(*                                                                          *)
(* Data: a message is its id and its recipient.  An id whose body changed    *)
(* is refused by every operation without a change of state, so an id has one *)
(* body.  Senders do not remember an id for longer than the broker keeps     *)
(* its receipt (broker.js:33-38), so an id the retention dropped is not sent *)
(* again.                                                                    *)
(***************************************************************************)
EXTENDS Naturals, Sequences, FiniteSets, Functions, Subsequences

CONSTANTS
  Ids, Recipients, To,     \* messages, agents, and who each message is for
  LocalAgents,             \* the agents reached on this machine
  IdleAgents,              \* the agents whose reports may say that they are idle
  Procs, Brokers,
  Placements,              \* the processes the brokers may live in
  Rosters,                 \* the rosters a broker may be built on
  HandoffBrokers,          \* the brokers built with retainModelHandoffs
  DeliveryRetention, DeadLetterRetention,
  Nobody, NoClaim,
  MaxSequence, MaxIncidents   \* bounds of the exploration

ASSUME BrokerAssumption ==
  /\ To \in [Ids -> Recipients]
  /\ LocalAgents \subseteq Recipients /\ IdleAgents \subseteq Recipients
  /\ Placements \subseteq [Brokers -> Procs]
  /\ Rosters \in [Brokers -> SUBSET SUBSET Recipients]
  /\ HandoffBrokers \subseteq Brokers
  /\ DeliveryRetention \in Nat \ {0} /\ DeadLetterRetention \in Nat \ {0}
  /\ Nobody \notin Recipients
  /\ MaxSequence \in Nat /\ MaxIncidents \in Nat

VARIABLES
  \* the state file
  spool,          \* accepted and not settled, in the order of their sequence
  deliveries,     \* receipts, oldest first
  deadLetters,    \* oldest first
  deferred,       \* delivered, not yet confirmed by the recipient's model
  nextSequence,
  wakeCooldowns,  \* the agents woken within the last cooldown
  \* the brokers
  pc, at, directory,
  scope,          \* the recipient of a send that has not listed its entries yet
  entries,        \* what is left of the drain's snapshot
  blocked,        \* the recipients the drain has given up on
  generation,     \* per process, how often it has been restarted
  incidents,      \* crashes, failed mutations and wakes so far
  \* the world outside
  air, landed,    \* sequences that may still arrive, that have arrived
  sent            \* ids ever accepted

file == <<spool, deliveries, deadLetters, deferred, nextSequence, wakeCooldowns>>
drainVars == <<scope, entries, blocked>>
world == <<air, landed, sent>>
vars == <<file, pc, at, directory, drainVars, generation, incidents, world>>

Sequences == 1..MaxSequence
Claims == [by : Brokers, at : Procs, generation : 0..MaxIncidents]
ASSUME NoClaimAssumption == NoClaim \notin Claims
Entries == [sequence : Sequences, id : Ids, uncertain : BOOLEAN, claim : Claims \cup {NoClaim}]

To_(e) == To[e.id]
HasId(log, id) == \E k \in DOMAIN log : log[k].id = id
EntryOf(id) == CHOOSE e \in Range(spool) : e.id = id
WithEntry(e) == [k \in DOMAIN spool |-> IF spool[k].id = e.id THEN e ELSE spool[k]]
Without(log, id) == Subsequence(log, {k \in DOMAIN log : log[k].id # id})
Pending(id) == {d \in deferred : d.id = id}

\* Mutation: the logs are never trimmed.
TrimNothing(log, n) == log

\* trimOldest
Trim(log, n) == IF Len(log) > n THEN SubSeq(log, Len(log) - n + 1, Len(log)) ELSE log

-----------------------------------------------------------------------------
(* Who owns a claim *)

ClaimOf(b) == [by |-> b, at |-> at[b], generation |-> generation[at[b]]]

\* ACTIVE_DELIVERY_CLAIMS: the attempts this process is still awaiting
Active(e) ==
  /\ pc[e.claim.by] = "sending"
  /\ Head(entries[e.claim.by]).sequence = e.sequence
  /\ e.claim = ClaimOf(e.claim.by)

\* Mutation: a claim of the broker's own process is always an abandoned one.
OwnProcessAbandoned(b, e, blind) ==
  IF e.claim = NoClaim THEN "NONE"
  ELSE IF e.claim.at = at[b] /\ e.claim.generation = generation[at[b]] THEN "UNCERTAIN"
  ELSE IF e.claim.at \in blind THEN "UNKNOWN"
  ELSE IF e.claim.generation # generation[e.claim.at] THEN "UNCERTAIN"
  ELSE "ACTIVE"

\* reconcileDeliveryClaim, where the identity of the processes in blind
\* cannot be read
Disposition(b, e, blind) ==
  IF e.claim = NoClaim THEN "NONE"
  ELSE IF /\ e.claim.at = at[b] /\ e.claim.generation = generation[at[b]]
          /\ ~Active(e) THEN "UNCERTAIN"
  ELSE IF e.claim.at \in blind THEN "UNKNOWN"
  ELSE IF e.claim.generation # generation[e.claim.at] THEN "UNCERTAIN"
  ELSE "ACTIVE"

\* Mutation: an abandoned claim is dropped and nothing says that it was there.
JustReleased(e) == [e EXCEPT !.claim = NoClaim]

Abandoned(e) == [e EXCEPT !.uncertain = TRUE, !.claim = NoClaim]

Reconciled(b, e, blind) ==
  IF Disposition(b, e, blind) = "UNCERTAIN" THEN Abandoned(e) ELSE e

-----------------------------------------------------------------------------
Init ==
  /\ spool = <<>> /\ deliveries = <<>> /\ deadLetters = <<>> /\ deferred = {}
  /\ nextSequence = 1 /\ wakeCooldowns = {}
  /\ pc = [b \in Brokers |-> "closed"]
  /\ at \in Placements
  /\ directory = [b \in Brokers |-> {}]
  /\ scope = [b \in Brokers |-> Nobody]
  /\ entries = [b \in Brokers |-> <<>>]
  /\ blocked = [b \in Brokers |-> {}]
  /\ generation = [p \in Procs |-> 0]
  /\ incidents = 0
  /\ air = {} /\ landed = {} /\ sent = {}

\* createBroker in the process at[b]: one sweep over the stored state.
Open(b, known, blind) ==
  LET swept == [k \in DOMAIN spool |-> Reconciled(b, spool[k], blind)]
      undelivered == {k \in DOMAIN spool : ~HasId(deliveries, spool[k].id)}
      kept == {k \in undelivered : swept[k].claim # NoClaim \/ To_(spool[k]) \in known}
  IN /\ pc[b] = "closed"
     /\ pc' = [pc EXCEPT ![b] = "idle"]
     /\ directory' = [directory EXCEPT ![b] = known]
     /\ spool' = Subsequence(swept, kept)
     /\ deadLetters' = Trim(deadLetters \o Subsequence(swept, undelivered \ kept),
                            DeadLetterRetention)
     /\ deliveries' = Trim(deliveries, DeliveryRetention)
     /\ UNCHANGED <<deferred, nextSequence, wakeCooldowns, at, drainVars, generation, incidents, world>>

\* A broker that is no longer used: the next one is built on another roster.
Drop(b) ==
  /\ pc[b] = "idle"
  /\ pc' = [pc EXCEPT ![b] = "closed"]
  /\ directory' = [directory EXCEPT ![b] = {}]
  /\ UNCHANGED <<file, at, drainVars, generation, incidents, world>>

\* The operation of b ends, whatever its result.
Ends(b) ==
  /\ pc' = [pc EXCEPT ![b] = "idle"]
  /\ scope' = [scope EXCEPT ![b] = Nobody]
  /\ entries' = [entries EXCEPT ![b] = <<>>]
  /\ blocked' = [blocked EXCEPT ![b] = {}]

\* A mutation that fails to take the lock or to write: the file is as it was
\* and the error ends the operation.
MutationFails(b) ==
  /\ incidents < MaxIncidents
  /\ incidents' = incidents + 1
  /\ Ends(b)
  /\ UNCHANGED file

-----------------------------------------------------------------------------
(* send and drain *)

\* enqueue: a remembered id is answered without a change; a queued one is
\* drained again; a new one gets the next sequence.
Enqueue(b, id) ==
  /\ ~HasId(deadLetters, id) /\ ~HasId(deliveries, id) /\ Pending(id) = {}
  /\ IF HasId(spool, id)
     THEN UNCHANGED <<spool, nextSequence, sent>>
     ELSE /\ id \notin sent
          /\ nextSequence <= MaxSequence
          /\ spool' = Append(spool, [sequence |-> nextSequence, id |-> id,
                                     uncertain |-> FALSE, claim |-> NoClaim])
          /\ nextSequence' = nextSequence + 1
          /\ sent' = sent \cup {id}
  /\ UNCHANGED <<deliveries, deadLetters, deferred, wakeCooldowns>>

Send(b, id) ==
  /\ pc[b] = "idle"
  /\ To[id] \in directory[b]
  /\ Enqueue(b, id)
  /\ pc' = [pc EXCEPT ![b] = "listing"]
  /\ scope' = [scope EXCEPT ![b] = To[id]]
  /\ UNCHANGED <<at, directory, entries, blocked, generation, incidents, air, landed>>

\* What a drain uses of the entries in its snapshot: the claims and the
\* outcomes it acts on are read again when it reserves one.
Seen(e) == [sequence |-> e.sequence, id |-> e.id, uncertain |-> e.uncertain]

\* drainInternal's snapshot, of one recipient's entries or of all
Lists(b, drained) ==
  LET found == Subsequence(spool, {k \in DOMAIN spool : To_(spool[k]) \in drained})
  IN /\ IF found = <<>>
        THEN Ends(b)
        ELSE /\ pc' = [pc EXCEPT ![b] = "draining"]
             /\ entries' = [entries EXCEPT ![b] = [k \in DOMAIN found |-> Seen(found[k])]]
             /\ scope' = [scope EXCEPT ![b] = Nobody]
             /\ UNCHANGED blocked
     /\ UNCHANGED <<file, at, directory, generation, incidents, world>>

List(b) == pc[b] = "listing" /\ Lists(b, {scope[b]})

Drain(b) == pc[b] = "idle" /\ \E drained \in {Recipients} \cup {{r} : r \in Recipients} : Lists(b, drained)

\* Mutation: the drain stays at an entry until it is delivered.
StaysAt(b, delivered) ==
  IF delivered /\ Len(entries[b]) = 1
  THEN Ends(b)
  ELSE /\ pc' = [pc EXCEPT ![b] = "draining"]
       /\ entries' = IF delivered THEN [entries EXCEPT ![b] = Tail(@)] ELSE entries
       /\ UNCHANGED <<blocked, scope>>

\* The drain goes on with the entry after the first, and leaves the recipient
\* alone from now on unless the first was delivered.
GoesOn(b, delivered) ==
  IF Len(entries[b]) = 1
  THEN Ends(b)
  ELSE /\ pc' = [pc EXCEPT ![b] = "draining"]
       /\ entries' = [entries EXCEPT ![b] = Tail(@)]
       /\ blocked' = IF delivered THEN blocked
                     ELSE [blocked EXCEPT ![b] = @ \cup {To_(Head(entries[b]))}]
       /\ UNCHANGED scope

\* Uncertain, of nobody in the roster, or behind an entry that stays.
Excluded(b) ==
  LET e == Head(entries[b])
  IN e.uncertain \/ To_(e) \notin directory[b] \/ To_(e) \in blocked[b]

\* The entry is excluded; or the recipient's presence cannot be measured, or
\* it is a peer that is away, or it is idle and may not be woken.
Skip(b) ==
  /\ pc[b] = "draining"
  /\ GoesOn(b, FALSE)
  /\ UNCHANGED <<file, at, directory, generation, incidents, world>>

\* maybeWake: an idle recipient is woken first, at most once per cooldown,
\* which is reserved before the wake is requested.
RequestWake(b) ==
  LET to == To_(Head(entries[b]))
  IN /\ pc[b] = "draining"
     /\ ~Excluded(b)
     /\ to \in IdleAgents
     /\ \/ /\ to \notin wakeCooldowns
           /\ wakeCooldowns' = wakeCooldowns \cup {to}
           /\ pc' = [pc EXCEPT ![b] = "waking"]
           /\ incidents < MaxIncidents /\ incidents' = incidents + 1
           /\ UNCHANGED <<spool, deliveries, deadLetters, deferred, nextSequence, drainVars>>
        \/ to \notin wakeCooldowns /\ MutationFails(b)
     /\ UNCHANGED <<at, directory, generation, world>>

WakeAnswered(b, executed) ==
  /\ pc[b] = "waking"
  /\ IF executed
     THEN pc' = [pc EXCEPT ![b] = "awake"] /\ UNCHANGED drainVars
     ELSE GoesOn(b, FALSE)
  /\ UNCHANGED <<file, at, directory, generation, incidents, world>>

CooldownEnds(to) ==
  /\ to \in wakeCooldowns
  /\ wakeCooldowns' = wakeCooldowns \ {to}
  /\ UNCHANGED <<spool, deliveries, deadLetters, deferred, nextSequence,
                 pc, at, directory, drainVars, generation, incidents, world>>

-----------------------------------------------------------------------------
(* deliverEntry *)

Attempting(b) == pc[b] = "awake" \/ (pc[b] = "draining" /\ ~Excluded(b))

\* reserveDelivery succeeds, and the transport is called in the same step.
Reserve(b) ==
  LET id == Head(entries[b]).id
      e == EntryOf(id)
  IN /\ Attempting(b)
     /\ HasId(spool, id)
     /\ ~e.uncertain /\ e.claim = NoClaim
     /\ spool' = WithEntry([e EXCEPT !.claim = ClaimOf(b)])
     /\ pc' = [pc EXCEPT ![b] = "sending"]
     /\ air' = air \cup {e.sequence}
     /\ UNCHANGED <<deliveries, deadLetters, deferred, nextSequence, wakeCooldowns, at,
                    directory, drainVars, generation, incidents, landed, sent>>

\* reserveDelivery does not: the entry is gone, uncertain or claimed, or the
\* broker cannot read its own process identity.  A claim nobody holds any
\* more makes the entry uncertain.
ReserveRefused(b, blind) ==
  LET id == Head(entries[b]).id
      e == EntryOf(id)
  IN /\ Attempting(b)
     /\ HasId(spool, id) /\ e.claim = NoClaim => e.uncertain \/ at[b] \in blind
     /\ spool' = IF HasId(spool, id) THEN WithEntry(Reconciled(b, e, blind)) ELSE spool
     /\ GoesOn(b, ~HasId(spool, id) /\ HasId(deliveries, id))
     /\ UNCHANGED <<deliveries, deadLetters, deferred, nextSequence, wakeCooldowns, at,
                    directory, generation, incidents, world>>

ReserveFails(b) ==
  /\ Attempting(b)
  /\ MutationFails(b)
  /\ UNCHANGED <<at, directory, generation, world>>

Lands(s) ==
  /\ s \in air
  /\ air' = air \ {s}
  /\ landed' = landed \cup {s}
  /\ UNCHANGED <<file, pc, at, directory, drainVars, generation, incidents, sent>>

Sending(b) == pc[b] = "sending"
Current(b) == EntryOf(Head(entries[b]).id)
OwnsIt(b) == HasId(spool, Head(entries[b]).id) /\ Current(b).claim = ClaimOf(b)

\* recordDelivery: the receipt replaces the entry; the hand-off to the model
\* of a local recipient is deferred with it.
Delivered(b) ==
  LET e == Current(b)
      keeps == b \in HandoffBrokers /\ To_(e) \in directory[b] \cap LocalAgents
  IN /\ Sending(b) /\ OwnsIt(b)
     /\ e.sequence \in landed
     /\ spool' = Without(spool, e.id)
     /\ deliveries' = Trim(Append(deliveries, [id |-> e.id, confirmed |-> FALSE]), DeliveryRetention)
     /\ deferred' = IF keeps THEN deferred \cup {[sequence |-> e.sequence, id |-> e.id, waiting |-> TRUE]}
                    ELSE deferred
     /\ GoesOn(b, TRUE)
     /\ UNCHANGED <<deadLetters, nextSequence, wakeCooldowns, at, directory, generation, incidents, world>>

\* A definite failure, or an answer that is no receipt: the claim is released.
NotDelivered(b) ==
  LET e == Current(b)
  IN /\ Sending(b) /\ OwnsIt(b)
     /\ e.sequence \notin landed
     /\ air' = air \ {e.sequence}
     /\ spool' = WithEntry([e EXCEPT !.claim = NoClaim])
     /\ GoesOn(b, FALSE)
     /\ UNCHANGED <<deliveries, deadLetters, deferred, nextSequence, wakeCooldowns, at,
                    directory, generation, incidents, landed, sent>>

\* The transport cannot tell: recordTransportUncertain.
Unsure(b) ==
  /\ Sending(b) /\ OwnsIt(b)
  /\ spool' = WithEntry(Abandoned(Current(b)))
  /\ GoesOn(b, FALSE)
  /\ UNCHANGED <<deliveries, deadLetters, deferred, nextSequence, wakeCooldowns, at,
                 directory, generation, incidents, world>>

\* The transport answered and its answer could not be recorded: the claim
\* stays in the file, and is no longer active.
RecordFails(b) ==
  /\ Sending(b)
  /\ MutationFails(b)
  /\ UNCHANGED <<at, directory, generation, world>>

-----------------------------------------------------------------------------
(* The host's hand-over of a delivered message to the recipient's model *)

Remembered(id) == HasId(deliveries, id) \/ Pending(id) # {}
Confirmed(id) == \E k \in DOMAIN deliveries : deliveries[k].id = id /\ deliveries[k].confirmed

HostCall(b, id) ==
  /\ pc[b] = "idle"
  /\ To[id] \in directory[b]
  /\ ~HasId(deadLetters, id)
  /\ Remembered(id)
  /\ UNCHANGED <<spool, wakeCooldowns, pc, at, directory, drainVars, generation, incidents, world>>

\* deadLetter, for RECIPIENT_QUEUE_DISCARDED
DeadLetter(b, id) ==
  /\ HostCall(b, id)
  /\ nextSequence <= MaxSequence
  /\ deliveries' = Without(deliveries, id)
  /\ deferred' = deferred \ Pending(id)
  /\ deadLetters' = Trim(Append(deadLetters, [sequence |-> nextSequence, id |-> id,
                                              uncertain |-> FALSE, claim |-> NoClaim]),
                         DeadLetterRetention)
  /\ nextSequence' = nextSequence + 1

\* deferDelivery
DeferDelivery(b, id) ==
  /\ HostCall(b, id)
  /\ ~Confirmed(id)
  /\ IF Pending(id) # {}
     THEN /\ deferred' = (deferred \ Pending(id)) \cup {[d EXCEPT !.waiting = FALSE] : d \in Pending(id)}
          /\ UNCHANGED nextSequence
     ELSE /\ nextSequence <= MaxSequence
          /\ deferred' = deferred \cup {[sequence |-> nextSequence, id |-> id, waiting |-> FALSE]}
          /\ nextSequence' = nextSequence + 1
  /\ UNCHANGED <<deliveries, deadLetters>>

\* acknowledgeDeferredDelivery
Acknowledge(b, id) ==
  LET receipt == [id |-> id, confirmed |-> TRUE]
  IN /\ HostCall(b, id)
     /\ ~Confirmed(id)
     /\ deferred' = deferred \ Pending(id)
     /\ deliveries' = IF HasId(deliveries, id)
                      THEN [k \in DOMAIN deliveries |->
                              IF deliveries[k].id = id THEN receipt ELSE deliveries[k]]
                      ELSE Trim(Append(deliveries, receipt), DeliveryRetention)
     /\ UNCHANGED <<deadLetters, nextSequence>>

-----------------------------------------------------------------------------
\* A process dies with every broker in it; its pid names another generation,
\* or nobody, from then on.
Crash(p) ==
  LET dead == {b \in Brokers : at[b] = p}
  IN /\ incidents < MaxIncidents
     /\ incidents' = incidents + 1
     /\ generation' = [generation EXCEPT ![p] = @ + 1]
     /\ pc' = [b \in Brokers |-> IF b \in dead THEN "closed" ELSE pc[b]]
     /\ directory' = [b \in Brokers |-> IF b \in dead THEN {} ELSE directory[b]]
     /\ scope' = [b \in Brokers |-> IF b \in dead THEN Nobody ELSE scope[b]]
     /\ entries' = [b \in Brokers |-> IF b \in dead THEN <<>> ELSE entries[b]]
     /\ blocked' = [b \in Brokers |-> IF b \in dead THEN {} ELSE blocked[b]]
     /\ UNCHANGED <<file, at, world>>

Step(b) ==
  \/ List(b) \/ Skip(b) \/ RequestWake(b) \/ Reserve(b) \/ ReserveFails(b)
  \/ \E executed \in BOOLEAN : WakeAnswered(b, executed)
  \/ \E blind \in SUBSET Procs : ReserveRefused(b, blind)
  \/ Delivered(b) \/ NotDelivered(b) \/ Unsure(b) \/ RecordFails(b)

Next ==
  \/ \E b \in Brokers :
       \/ Step(b) \/ Drain(b) \/ Drop(b)
       \/ \E known \in Rosters[b], blind \in SUBSET Procs : Open(b, known, blind)
       \/ \E id \in Ids : \/ Send(b, id) \/ DeadLetter(b, id)
                          \/ DeferDelivery(b, id) \/ Acknowledge(b, id)
  \/ \E s \in Sequences : Lands(s)
  \/ \E to \in Recipients : CooldownEnds(to)
  \/ \E p \in Procs : Crash(p)

Fairness == \A b \in Brokers : WF_vars(Step(b))

Spec == Init /\ [][Next]_vars /\ Fairness

-----------------------------------------------------------------------------
(* Properties *)

\* The kinds of the variables, the retention bounds among them (trimOldest).
TypeOK ==
  /\ spool \in Seq(Entries)
  /\ deliveries \in Seq([id : Ids, confirmed : BOOLEAN]) /\ Len(deliveries) <= DeliveryRetention
  /\ deadLetters \in Seq(Entries) /\ Len(deadLetters) <= DeadLetterRetention
  /\ deferred \subseteq [sequence : Sequences, id : Ids, waiting : BOOLEAN]
  /\ nextSequence \in 1..(MaxSequence + 1)
  /\ wakeCooldowns \subseteq Recipients
  /\ pc \in [Brokers -> {"closed", "idle", "listing", "draining", "waking", "awake", "sending"}]
  /\ at \in [Brokers -> Procs]
  /\ directory \in [Brokers -> SUBSET Recipients]
  /\ scope \in [Brokers -> Recipients \cup {Nobody}]
  /\ entries \in [Brokers -> Seq([sequence : Sequences, id : Ids, uncertain : BOOLEAN])]
  /\ blocked \in [Brokers -> SUBSET Recipients]
  /\ generation \in [Procs -> 0..MaxIncidents]
  /\ incidents \in 0..MaxIncidents
  /\ air \subseteq Sequences /\ landed \subseteq Sequences
  /\ sent \subseteq Ids

\* Every state the brokers write passes validateStoredState (broker.js:526):
\* a state that does not is refused by every later operation of every process.
StoredStateValid ==
  LET IdsOf(log) == {e.id : e \in Range(log)}
      SequencesOf(log) == {e.sequence : e \in Range(log)}
      Pairwise(log) == \A i, j \in DOMAIN log :
                         log[i].id = log[j].id \/ log[i].sequence = log[j].sequence => i = j
      Apart(ids, sequences, log) == ids \cap IdsOf(log) = {} /\ sequences \cap SequencesOf(log) = {}
      later == {d.id : d \in deferred}
      laterSequences == {d.sequence : d \in deferred}
  IN /\ Pairwise(spool) /\ Pairwise(deadLetters)
     /\ \A d, other \in deferred : d.id = other.id \/ d.sequence = other.sequence => d = other
     /\ Apart(IdsOf(spool), SequencesOf(spool), deadLetters)
     /\ Apart(later, laterSequences, spool) /\ Apart(later, laterSequences, deadLetters)
     /\ \A i, j \in DOMAIN deliveries : deliveries[i].id = deliveries[j].id => i = j
     /\ \A k \in DOMAIN deliveries : /\ deliveries[k].id \notin IdsOf(deadLetters)
                                     /\ deliveries[k].confirmed => deliveries[k].id \notin later
     /\ \A s \in SequencesOf(spool) \cup SequencesOf(deadLetters) \cup laterSequences : s < nextSequence
     /\ \A e \in Range(spool) \cup Range(deadLetters) : ~(e.uncertain /\ e.claim # NoClaim)

\* While a broker awaits the transport, the claim in the file is its own: no
\* other broker, of its process or of another, opening or reserving, takes
\* the claim of a live attempt (the three "could not be recorded" failures of
\* deliverEntry, broker.js:1438-1480, are never reached).
OwnClaimKept == \A b \in Brokers : Sending(b) => OwnsIt(b)

\* Whatever the other processes do meanwhile, every state they write is one
\* all of them can read again (StoredStateValid), and the claim of an attempt
\* is its owner's until he knows what came of it (OwnClaimKept).
FileKept == StoredStateValid /\ OwnClaimKept

\* The queues the senders were promised, whoever shares or loses the file.
Mailboxes == INSTANCE MailboxQueues WITH
  Letters <- Sequences,
  queue <- [r \in Recipients |->
              LET mine == Subsequence(spool, {k \in DOMAIN spool : To_(spool[k]) = r})
              IN [k \in DOMAIN mine |-> mine[k].sequence]],
  held <- {d.sequence : d \in deferred}

\* Through crashes, lost claims and failed writes, a message that may have
\* reached its recipient is never handed to the transport again, the messages
\* of a recipient are handed over in the order they were accepted, and a
\* hand-off to the model is never dropped by the retention of receipts.
ImplementsMailboxes == Mailboxes!Init /\ [][Mailboxes!Next]_(Mailboxes!vars)

\* Every send and drain ends: nothing a second broker or a crash does to the
\* entries of a drain leaves it without a next step, and no entry is tried
\* again within one drain.
OperationsEnd ==
  \A b \in Brokers : pc[b] \notin {"idle", "closed"} ~> pc[b] \in {"idle", "closed"}
=============================================================================
