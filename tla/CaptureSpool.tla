----------------------------- MODULE CaptureSpool -----------------------------
(***************************************************************************)
(* The spool of the owner's words and of the suggestions for his ledgers      *)
(* (src/src/lib/owner-capture-spool.js), with the suggestions' life           *)
(* (r-ledger-proposals.js): a record is one file, in pending/ until somebody  *)
(* decides about it and in reconciled/ from then on.  Every move is a copy    *)
(* and a removal, with other custodians and crashes in between.               *)
(***************************************************************************)
EXTENDS Naturals, FiniteSets

CONSTANTS
  Records,
  Misdiscarded,   \* records that an agent may have discarded (before the guard)
  Procs,          \* the custodians: processes of the host and its tools
  NoFile, NoRecord,
  MaxFilings      \* bound: how often words are filed

\* What is assumed of the constants.
SpoolConstants ==
  /\ Misdiscarded \subseteq Records /\ MaxFilings \in Nat
  /\ NoFile \notin {"pending", "unfiled", "not-in-ledger", "in-ledger", "discarded", "misdiscarded"}

VARIABLES
  pending, reconciled,   \* the outcome a record's file states, or NoFile
  filed,                 \* how often the ledger took the words
  filings,               \* the same, for all records
  pc, at,                \* what a custodian does, and with which record
  stale                  \* the misdiscarded records a recovery has listed

spoolVars == <<pending, reconciled, filed, filings, pc, at, stale>>

Undecided == {"pending", "unfiled", "not-in-ledger"}
Decided == {"in-ledger", "discarded"}

SpoolInit ==
  /\ pending = [r \in Records |-> NoFile]
  /\ \E discarded \in SUBSET Misdiscarded :
       reconciled = [r \in Records |-> IF r \in discarded THEN "misdiscarded" ELSE NoFile]
  /\ filed = [r \in Records |-> FALSE]
  /\ filings = 0
  /\ pc = [p \in Procs |-> "idle"]
  /\ at = [p \in Procs |-> NoRecord]
  /\ stale = [p \in Procs |-> {}]

Goto(p, place) == pc' = [pc EXCEPT ![p] = place]

\* writeAhead (propose): a new file, complete or absent
WriteAhead(p, r) ==
  /\ pc[p] = "idle"
  /\ pending[r] = NoFile /\ reconciled[r] = NoFile
  /\ pending' = [pending EXCEPT ![r] = "pending"]
  /\ UNCHANGED <<reconciled, filed, filings, pc, at, stale>>

\* listPending, findPending: the record is held from here on as it was read
Find(p, r) ==
  /\ pc[p] = "idle"
  /\ pending[r] # NoFile
  /\ Goto(p, "found")
  /\ at' = [at EXCEPT ![p] = r]
  /\ UNCHANGED <<pending, reconciled, filed, filings, stale>>

\* accept: the words are filed first ...
File(p) ==
  /\ pc[p] = "found"
  /\ filings < MaxFilings
  /\ filings' = filings + 1
  /\ filed' = [filed EXCEPT ![at[p]] = TRUE]
  /\ Goto(p, "filed")
  /\ UNCHANGED <<pending, reconciled, at, stale>>

\* ... and then the record is settled: markReconciled writes the copy.
MarkReconciled(p) ==
  /\ pc[p] = "filed"
  /\ reconciled' = [reconciled EXCEPT ![at[p]] = "in-ledger"]
  /\ Goto(p, "settled")
  /\ UNCHANGED <<pending, filed, filings, at, stale>>

\* Mutation: the pending record is removed before the settled copy is written.
DiscardRemovesFirst(p) ==
  /\ pc[p] = "found"
  /\ pending' = [pending EXCEPT ![at[p]] = NoFile]
  /\ Goto(p, "settled")
  /\ UNCHANGED <<reconciled, filed, filings, at, stale>>

\* decline: markDiscarded, for the person
MarkDiscarded(p) ==
  /\ pc[p] = "found"
  /\ reconciled' = [reconciled EXCEPT ![at[p]] = "discarded"]
  /\ Goto(p, "settled")
  /\ UNCHANGED <<pending, filed, filings, at, stale>>

\* removePendingRecord: ENOENT is no error.
RemovePending(p) ==
  /\ pc[p] = "settled"
  /\ pending' = [pending EXCEPT ![at[p]] = NoFile]
  /\ Goto(p, "idle")
  /\ at' = [at EXCEPT ![p] = NoRecord]
  /\ UNCHANGED <<reconciled, filed, filings, stale>>

\* markUnfiled and annotatePending rewrite the file of the record they hold.
Annotate(p) ==
  /\ pc[p] = "found"
  /\ \E outcome \in Undecided \ {"pending"} : pending' = [pending EXCEPT ![at[p]] = outcome]
  /\ Goto(p, "idle")
  /\ at' = [at EXCEPT ![p] = NoRecord]
  /\ UNCHANGED <<reconciled, filed, filings, stale>>

\* recoverMisdiscarded: the list, and for each record of it the write and the
\* removal of the other copy.
ListMisdiscarded(p) ==
  /\ pc[p] = "idle"
  /\ stale' = [stale EXCEPT ![p] = {r \in Records : reconciled[r] = "misdiscarded"}]
  /\ stale'[p] # {}
  /\ Goto(p, "recovering")
  /\ UNCHANGED <<pending, reconciled, filed, filings, at>>

Restore(p, r) ==
  /\ pc[p] = "recovering"
  /\ r \in stale[p]
  /\ pending' = [pending EXCEPT ![r] = "unfiled"]
  /\ Goto(p, "restored")
  /\ at' = [at EXCEPT ![p] = r]
  /\ UNCHANGED <<reconciled, filed, filings, stale>>

RemoveReconciled(p) ==
  /\ pc[p] = "restored"
  /\ reconciled' = [reconciled EXCEPT ![at[p]] = NoFile]
  /\ stale' = [stale EXCEPT ![p] = @ \ {at[p]}]
  /\ Goto(p, IF stale'[p] = {} THEN "idle" ELSE "recovering")
  /\ at' = [at EXCEPT ![p] = NoRecord]
  /\ UNCHANGED <<pending, filed, filings>>

\* A step failed, or the custodian died: the rest is not done.
Abandon(p) ==
  /\ pc[p] # "idle"
  /\ Goto(p, "idle")
  /\ at' = [at EXCEPT ![p] = NoRecord]
  /\ stale' = [stale EXCEPT ![p] = {}]
  /\ UNCHANGED <<pending, reconciled, filed, filings>>

SpoolNext ==
  \E p \in Procs :
    \/ \E r \in Records : WriteAhead(p, r) \/ Find(p, r) \/ Restore(p, r)
    \/ File(p) \/ MarkReconciled(p) \/ MarkDiscarded(p) \/ RemovePending(p) \/ Annotate(p)
    \/ ListMisdiscarded(p) \/ RemoveReconciled(p) \/ Abandon(p)

SpoolSpec == SpoolInit /\ [][SpoolNext]_spoolVars

-----------------------------------------------------------------------------
(* Properties *)

SpoolTypeOK ==
  /\ pending \in [Records -> Undecided \cup {NoFile}]
  /\ reconciled \in [Records -> Decided \cup {"misdiscarded", NoFile}]
  /\ filed \in [Records -> BOOLEAN]
  /\ filings \in 0..MaxFilings
  /\ pc \in [Procs -> {"idle", "found", "filed", "settled", "recovering", "restored"}]
  /\ at \in [Procs -> Records \cup {NoRecord}]
  /\ stale \in [Procs -> SUBSET Records]

\* "AND ONLY A DECISION LEAVES pending/": whatever was interrupted, a record
\* that is no longer pending is settled, and says of itself what was decided;
\* one that says the ledger has its words is right.  A record is never in
\* neither place.
OnlyADecisionLeaves ==
  [][\A r \in Records : pending[r] # NoFile /\ pending'[r] = NoFile => reconciled'[r] \in Decided]_spoolVars
NeverInNeither ==
  [][\A r \in Records : pending[r] # NoFile \/ reconciled[r] # NoFile
                        => pending'[r] # NoFile \/ reconciled'[r] # NoFile]_spoolVars
SettledIsTrue == \A r \in Records : reconciled[r] = "in-ledger" => filed[r]
SpoolKept == OnlyADecisionLeaves /\ NeverInNeither /\ []SettledIsTrue
=============================================================================
