-------------------------- MODULE AuditProofs --------------------------
(***************************************************************************)
(* Proofs about AuditLedger, for any number of processes, records and      *)
(* faults, and any window and slack of the retention, and about            *)
(* AuditAdmission, for any number of records and calls and any size of a   *)
(* batch, with the worker thread and without it.                           *)
(*                                                                         *)
(* RecordsKept and ArchiveExact are not inductive: what a process is about *)
(* to write, what a spool still holds and what the open transaction sees   *)
(* decide what the next commit makes of the ledger.  LedgerInv says it.    *)
(* Nor is LedgerKept: what the messages between the lane and its thread    *)
(* say, and which of them can still come, decides what a late answer or a  *)
(* fallback does.  LaneInv says it.                                        *)
(***************************************************************************)
EXTENDS MCAudit, SubsequenceTheorems, FiniteSetTheorems, SequenceTheorems, TLAPS

Of(q)   == {q[i] : i \in DOMAIN q}
Once(q) == \A i, j \in DOMAIN q : q[i] = q[j] => i = j

\* b begins with a.
Extends(b, a) == Len(a) <= Len(b) /\ \A i \in 1 .. Len(a) : b[i] = a[i]

\* The events that are in the spool or in one of the renamed files.
Spooled == UNION {Of(f) : f \in ingests \cup {spool}}

Busy(p) == work[p].at \notin {"idle", "clear"}

\* After AppendRecords, until COMMIT.
Appending == {"intent", "anchor", "project", "archive", "rebuild", "commit"}

-----------------------------------------------------------------------------
(* What a process is doing *)

\* Only admissions carry records, and what they decided goes with their place.
Carries(p) ==
  /\ ~Recording(p) \/ ~Busy(p) => work[p].items = << >>
  /\ Recording(p) /\ Busy(p) => work[p].items # << >>
  /\ Len(work[p].items) <= MaxTogether
  /\ work[p].at \in {"verify", "lock", "reconcile", "append", "intent", "anchor", "spool"}
       => Recording(p)
  /\ work[p].at \in {"look", "store", "consume", "inspect", "heal"} => ~Recording(p)

Decides(p) ==
  /\ work[p].roll => work[p].anchored
  /\ work[p].anchored => Recording(p) /\ work[p].at \in Appending
  /\ work[p].at \in {"intent", "anchor"} => work[p].anchored
  /\ work[p].at \in {"archive", "rebuild"} => work[p].roll

WorkOK == \A p \in Procs : Carries(p) /\ Decides(p)

-----------------------------------------------------------------------------
(* The open transaction *)

\* What it has appended, and what it has archived.
Appends(p) ==
  /\ work[p].at \in {"reconcile", "append"} => tx = db
  /\ work[p].at \in Appending => tx.chain = db.chain \o work[p].items
  /\ work[p].at \in {"intent", "anchor", "project"} => tx.boundary = db.boundary

\* It archives only as long as more than the window stays.
Leaves(p) ==
  /\ work[p].roll /\ work[p].at \in {"intent", "anchor", "project", "archive"}
       => Len(tx.chain) - tx.boundary > Window
  /\ work[p].at \in Appending =>
       \/ tx.boundary = db.boundary
       \/ work[p].roll /\ Len(tx.chain) - tx.boundary >= Window

\* Once it has stored its anchor, that names its last row until COMMIT.
Names(p) ==
  work[p].anchored /\ work[p].at \in {"project", "archive", "rebuild", "commit"}
    => anchor = tx.chain

TxOK == \A p \in Procs : Appends(p) /\ Leaves(p) /\ Names(p)

ArchiveOK ==
  /\ Len(archive) <= Len(db.chain)
  /\ \A i \in DOMAIN archive : archive[i] = Hash(db.chain, i)
  /\ db.boundary <= tx.boundary /\ tx.boundary <= Len(archive)
  /\ db.boundary # 0 => db.boundary < Len(db.chain)
  /\ IF anchor = << >> THEN db.boundary = 0 ELSE Len(anchor) > db.boundary

-----------------------------------------------------------------------------
(* The records *)

\* A record that is being admitted is nowhere else.
Pending(p) ==
  /\ Once(work[p].items)
  /\ ItemsOf(p) \cap Of(db.chain) = {}
  /\ ItemsOf(p) \cap Spooled = {}
  /\ \A q \in Procs : q # p => ItemsOf(p) \cap ItemsOf(q) = {}

\* What is in a file has not been archived, and is not in the ledger while it rolls.
FilesOK ==
  /\ \A f \in ingests \cup {spool} : Once(f)
  /\ \A i \in 1 .. db.boundary : db.chain[i] \notin Spooled
  /\ witness # {} => Spooled = {} /\ ingests = {} /\ spool = << >>
  /\ \A p \in Procs :
       /\ work[p].roll => Spooled \cap Of(db.chain) = {}
       /\ work[p].at = "unlink" => Of(work[p].file) \subseteq Of(db.chain)

\* Events are numbered as they are made.
MadeOK ==
  /\ \A e \in Of(db.chain) \cup Spooled : e <= made
  /\ \A p \in Procs :
       /\ \A e \in ItemsOf(p) : e <= made
       /\ \A e \in Of(intents[p]) : e <= made
  /\ \A o \in orphans : \A e \in Of(o) : e <= made

\* Whoever was told is right.
ToldOK ==
  \A e \in Events :
    /\ told[e] \in {"durable", "anchored"} => e \in Of(db.chain)
    /\ told[e] = "spooled" => e \in Of(db.chain) \cup Spooled
    /\ told[e] = "anchored" =>
         \E i \in DOMAIN db.chain :
           /\ db.chain[i] = e /\ i <= Len(anchor)
           /\ \A k \in 1 .. i : anchor[k] = db.chain[k]

RecordsOK == Once(db.chain) /\ (\A p \in Procs : Pending(p)) /\ FilesOK /\ MadeOK /\ ToldOK

-----------------------------------------------------------------------------
(* The intents *)

\* An intent names a chain that no other file names, and events that are not
\* admitted by anyone else.
IntentsOwn ==
  /\ \A p, q \in Procs : p # q /\ intents[p] = intents[q] => intents[p] = << >>
  /\ \A p \in Procs : intents[p] \in orphans => intents[p] = << >>
  /\ << >> \notin orphans
  /\ \A p \in Procs :
       /\ \A q \in Procs : q # p => ItemsOf(p) \cap Of(intents[q]) = {}
       /\ \A o \in orphans : ItemsOf(p) \cap Of(o) = {}
       /\ work[p].at \notin Appending \cup {"spool"} => ItemsOf(p) \cap Of(intents[p]) = {}

\* What a process found when it reconciled the anchor, and what becomes of it.
Proves(p) ==
  /\ work[p].at \in {"append", "intent"} =>
       anchor = << >> \/ InChain(db) \/ (intents[p] = anchor => p \in work[p].fork)
  /\ work[p].at = "anchor" => intents[p] \in {<< >>, tx.chain}
  /\ work[p].anchored /\ work[p].at \in {"project", "archive", "rebuild", "commit"}
       => intents[p] \in {<< >>, tx.chain}
  /\ work[p].at = "clear" => Extends(db.chain, intents[p])

IntentsOK == IntentsOwn /\ \A p \in Procs : Proves(p)

\* Whoever reconciles the anchor without the lock has read rows that stay.  Once
\* it has stored the last of them, the anchor is a row, or of a later event.
Seen(p) ==
  /\ work[p].at \in {"store", "consume"} => Extends(db.chain, work[p].row)
  /\ work[p].at = "consume" => InChain(db) \/ Len(anchor) > Len(work[p].row)

SeenOK == \A p \in Procs : Seen(p)

LedgerInv == LedgerTypeOK /\ WorkOK /\ TxOK /\ ArchiveOK /\ RecordsOK /\ IntentsOK /\ SeenOK

-----------------------------------------------------------------------------
(* Sequences *)

\* Two sequences with the same elements at the same places are one.
LEMMA SameSeq ==
  ASSUME NEW S, NEW a \in Seq(S), NEW b \in Seq(S), Len(a) = Len(b),
         \A i \in 1 .. Len(a) : a[i] = b[i]
  PROVE  a = b
OBVIOUS

\* The hash of row k has k rows, those of the chain.
LEMMA HashIs ==
  ASSUME NEW S, NEW c \in Seq(S), NEW k \in 0 .. Len(c)
  PROVE  /\ Hash(c, k) \in Seq(S)
         /\ Len(Hash(c, k)) = k
         /\ \A i \in 1 .. k : Hash(c, k)[i] = c[i]
BY DEF Hash

\* Chains that begin alike have the same hashes.
LEMMA SameHash ==
  ASSUME NEW S, NEW a \in Seq(S), NEW b \in Seq(S), Extends(b, a), NEW k \in 0 .. Len(a)
  PROVE  Hash(b, k) = Hash(a, k)
<1>1. k \in 0 .. Len(b)
  BY DEF Extends
<1>2. /\ Hash(a, k) \in Seq(S) /\ Len(Hash(a, k)) = k /\ \A i \in 1 .. k : Hash(a, k)[i] = a[i]
  BY HashIs
<1>3. /\ Hash(b, k) \in Seq(S) /\ Len(Hash(b, k)) = k /\ \A i \in 1 .. k : Hash(b, k)[i] = b[i]
  BY <1>1, HashIs
<1>4. \A i \in 1 .. k : a[i] = b[i]
  BY DEF Extends
<1> QED
  BY <1>2, <1>3, <1>4, SameSeq

\* A prefix is the hash of its length.
LEMMA PrefixIsHash ==
  ASSUME NEW S, NEW a \in Seq(S), NEW b \in Seq(S)
  PROVE  Extends(b, a) <=> Len(a) <= Len(b) /\ a = Hash(b, Len(a))
<1>1. ASSUME Extends(b, a) PROVE Len(a) <= Len(b) /\ a = Hash(b, Len(a))
  <2>1. Len(a) \in 0 .. Len(a) /\ Len(a) <= Len(b)
    BY <1>1 DEF Extends
  <2>2. Hash(b, Len(a)) = Hash(a, Len(a))
    BY <1>1, <2>1, SameHash
  <2>3. Hash(a, Len(a)) \in Seq(S) /\ Len(Hash(a, Len(a))) = Len(a)
        /\ \A i \in 1 .. Len(a) : Hash(a, Len(a))[i] = a[i]
    BY <2>1, HashIs
  <2> QED
    BY <2>1, <2>2, <2>3, SameSeq
<1>2. ASSUME Len(a) <= Len(b), a = Hash(b, Len(a)) PROVE Extends(b, a)
  <2>1. Len(a) \in 0 .. Len(b)
    BY <1>2
  <2>2. \A i \in 1 .. Len(a) : Hash(b, Len(a))[i] = b[i]
    BY <2>1, HashIs
  <2> QED
    BY <1>2, <2>2 DEF Extends
<1> QED
  BY <1>1, <1>2

LEMMA ExtendsSelf == ASSUME NEW S, NEW a \in Seq(S) PROVE Extends(a, a)
BY DEF Extends

LEMMA ExtendsTwice ==
  ASSUME NEW S, NEW a \in Seq(S), NEW b \in Seq(S), NEW c \in Seq(S), Extends(b, a), Extends(c, b)
  PROVE  Extends(c, a)
BY DEF Extends

\* What is appended follows what was there.
LEMMA AppendedIs ==
  ASSUME NEW S, NEW a \in Seq(S), NEW b \in Seq(S)
  PROVE  /\ a \o b \in Seq(S)
         /\ Len(a \o b) = Len(a) + Len(b)
         /\ Extends(a \o b, a)
         /\ Of(a \o b) = Of(a) \cup Of(b)
         /\ Once(a) /\ Once(b) /\ Of(a) \cap Of(b) = {} => Once(a \o b)
<1> DEFINE c == a \o b
<1>1. /\ c \in Seq(S) /\ Len(c) = Len(a) + Len(b) /\ DOMAIN c = 1 .. (Len(a) + Len(b))
      /\ \A i \in 1 .. (Len(a) + Len(b)) : c[i] = IF i <= Len(a) THEN a[i] ELSE b[i - Len(a)]
      /\ Len(a) \in Nat /\ Len(b) \in Nat /\ DOMAIN a = 1 .. Len(a) /\ DOMAIN b = 1 .. Len(b)
  OBVIOUS
<1> HIDE DEF c
<1>2. Extends(c, a)
  BY <1>1 DEF Extends
<1>3. /\ \A i \in DOMAIN a : i \in DOMAIN c /\ c[i] = a[i]
      /\ \A j \in DOMAIN b : Len(a) + j \in DOMAIN c /\ c[Len(a) + j] = b[j]
      /\ \A i \in DOMAIN c : i <= Len(a) => i \in DOMAIN a
      /\ \A i \in DOMAIN c : ~(i <= Len(a)) => i - Len(a) \in DOMAIN b /\ c[i] = b[i - Len(a)]
  BY <1>1
<1>4. Of(c) = Of(a) \cup Of(b)
  <2>1. ASSUME NEW e \in Of(a) \cup Of(b) PROVE e \in Of(c)
    <3>1. CASE e \in Of(a)
      BY <1>3, <3>1, Zenon DEF Of
    <3>2. CASE e \in Of(b)
      <4>1. PICK j \in DOMAIN b : e = b[j]
        BY <3>2, Zenon DEF Of
      <4>2. Len(a) + j \in DOMAIN c /\ e = c[Len(a) + j]
        BY <1>3, <4>1
      <4> QED
        BY <4>2, Zenon DEF Of
    <3> QED
      BY <2>1, <3>1, <3>2
  <2>2. \A i \in DOMAIN c : c[i] \in Of(a) \cup Of(b)
    BY <1>3, Zenon DEF Of
  <2> QED
    BY <2>1, <2>2 DEF Of
<1>5. ASSUME Once(a), Once(b), Of(a) \cap Of(b) = {} PROVE Once(c)
  <2> SUFFICES ASSUME NEW i \in DOMAIN c, NEW j \in DOMAIN c, c[i] = c[j] PROVE i = j
    BY DEF Once
  <2>1. CASE i <= Len(a) /\ j <= Len(a)
    BY <1>3, <1>5, <2>1, Zenon DEF Once
  <2>2. CASE ~(i <= Len(a)) /\ ~(j <= Len(a))
    <3>1. i - Len(a) \in DOMAIN b /\ j - Len(a) \in DOMAIN b /\ b[i - Len(a)] = b[j - Len(a)]
      BY <1>3, <2>2, Zenon
    <3>2. i - Len(a) = j - Len(a)
      BY <1>5, <3>1 DEF Once
    <3> QED
      BY <1>1, <3>2
  <2>3. ASSUME NEW x \in DOMAIN c, NEW y \in DOMAIN c, x <= Len(a), ~(y <= Len(a)) PROVE c[x] # c[y]
    <3>1. c[x] \in Of(a) /\ c[y] \in Of(b)
      BY <1>3, <2>3, Zenon DEF Of
    <3> QED
      BY <1>5, <3>1
  <2> QED
    BY <2>1, <2>2, <2>3
<1> QED
  BY <1>1, <1>2, <1>4, <1>5 DEF c

\* A subsequence has the elements of its positions.
LEMMA SubsequenceIs ==
  ASSUME NEW S, NEW q \in Seq(S), NEW P \in SUBSET DOMAIN q
  PROVE  /\ Subsequence(q, P) \in Seq(S)
         /\ Of(Subsequence(q, P)) = {q[i] : i \in P}
         /\ Once(q) => Once(Subsequence(q, P))
<1> DEFINE s == Subsequence(q, P)
           n == Cardinality(P)
<1>1. /\ n \in Nat
      /\ \A i \in P : Rank(P, i) \in 1 .. n /\ Nth(P, Rank(P, i)) = i
      /\ \A j \in 1 .. n : Nth(P, j) \in P /\ Rank(P, Nth(P, j)) = j
  <2>1. P \in SUBSET (1 .. Len(q)) /\ Len(q) \in Nat
    OBVIOUS
  <2> QED
    BY <2>1, RanksCount
<1>2. /\ DOMAIN s = 1 .. n
      /\ \A j \in 1 .. n : s[j] = q[Nth(P, j)]
  BY DEF Subsequence
<1>3. s \in Seq(S)
  <2>1. \A j \in 1 .. n : q[Nth(P, j)] \in S
    BY <1>1
  <2> QED
    BY <1>1, <2>1 DEF Subsequence
<1> HIDE DEF s, n
<1>4. Of(s) = {q[i] : i \in P}
  <2>1. \A i \in P : q[i] = s[Rank(P, i)]
    BY <1>1, <1>2
  <2> QED
    BY <1>1, <1>2, <2>1 DEF Of
<1>5. ASSUME Once(q) PROVE Once(s)
  <2> SUFFICES ASSUME NEW i \in 1 .. n, NEW j \in 1 .. n, s[i] = s[j] PROVE i = j
    BY <1>2 DEF Once
  <2>1. Nth(P, i) = Nth(P, j)
    BY <1>1, <1>2, <1>5 DEF Once
  <2> QED
    BY <1>1, <2>1
<1> QED
  BY <1>3, <1>4, <1>5 DEF s

-----------------------------------------------------------------------------
(* Types *)

Work == [at : Places, kind : {"record", "required", "status", "verify", "flush"},
         items : Chains, todo : SUBSET Chains, file : Chains, advance : BOOLEAN,
         fork : SUBSET Procs, left : SUBSET Chains, row : Chains,
         roll : BOOLEAN, anchored : BOOLEAN]

LEMMA RestingType == Resting \in Work /\ Fresh \in Work
<1>1. << >> \in Chains /\ "idle" \in Places
  BY DEF Chains, Places
<1>2. Resting \in Work
  BY <1>1 DEF Resting, Work
<1> QED
  BY <1>2 DEF Fresh, Work

\* Process q does not move; the file of another may become one that is left.
Alike(q) ==
  /\ work'[q].at = work[q].at /\ work'[q].kind = work[q].kind
  /\ work'[q].items = work[q].items /\ work'[q].file = work[q].file
  /\ work'[q].row = work[q].row
  /\ work'[q].roll = work[q].roll /\ work'[q].anchored = work[q].anchored
  /\ q \in work'[q].fork <=> q \in work[q].fork

\* Only process p moves.
Others(p) == work' \in [Procs -> Work] /\ \A q \in Procs : q # p => Alike(q)

LEMMA Moves ==
  ASSUME work \in [Procs -> Work], NEW p \in Procs, NEW w \in Work, work' = [work EXCEPT ![p] = w]
  PROVE  Others(p) /\ work'[p] = w
BY DEF Others, Alike

\* What an admission carries, and what it has decided.
Same(p) ==
  /\ work'[p].kind = work[p].kind /\ work'[p].items = work[p].items
  /\ work'[p].roll = work[p].roll /\ work'[p].anchored = work[p].anchored

\* A process that carries nothing and has decided nothing.
Empty(w) == w.items = << >> /\ ~w.roll /\ ~w.anchored

LEMMA RestingIs ==
  /\ Empty(Resting) /\ Resting.at = "idle" /\ Resting.kind = "record" /\ Resting.items = << >>
  /\ Empty(Fresh) /\ Fresh.at = "idle" /\ Fresh.kind = "record" /\ Fresh.items = << >>
<1>1. /\ Resting.items = << >> /\ ~Resting.roll /\ ~Resting.anchored
      /\ Resting.at = "idle" /\ Resting.kind = "record"
  BY DEF Resting
<1>2. /\ Fresh.items = Resting.items /\ Fresh.roll = Resting.roll
      /\ Fresh.anchored = Resting.anchored /\ Fresh.at = Resting.at /\ Fresh.kind = Resting.kind
  BY RestingType DEF Fresh, Work
<1> QED
  BY <1>1, <1>2 DEF Empty

\* A process rests at another place, for another kind of work.
LEMMA RestsAt ==
  ASSUME NEW place \in Places, NEW kind \in {"record", "required", "status", "verify", "flush"}
  PROVE  LET w == [Resting EXCEPT !.at = place, !.kind = kind]
         IN  w \in Work /\ Empty(w) /\ w.at = place /\ w.kind = kind
<1>1. /\ Resting \in Work /\ Resting.items = << >> /\ ~Resting.roll /\ ~Resting.anchored
  BY RestingType, RestingIs DEF Empty
<1> QED
  BY <1>1 DEF Work, Empty

LEMMA ClearsAt ==
  LET w == [Resting EXCEPT !.at = "clear"]
  IN  w \in Work /\ Empty(w) /\ w.at = "clear" /\ w.kind = "record"
<1>1. /\ Resting \in Work /\ Resting.items = << >> /\ ~Resting.roll /\ ~Resting.anchored
      /\ Resting.kind = "record" /\ "clear" \in Places
  BY RestingType, RestingIs DEF Empty, Places
<1> QED
  BY <1>1 DEF Work, Empty

LEMMA SpoolsAt ==
  ASSUME NEW items \in Chains
  PROVE  LET w == [Resting EXCEPT !.at = "spool", !.items = items]
         IN  /\ w \in Work /\ w.at = "spool" /\ w.kind = "record" /\ w.items = items
             /\ ~w.roll /\ ~w.anchored
<1>1. /\ Resting \in Work /\ ~Resting.roll /\ ~Resting.anchored
      /\ Resting.kind = "record" /\ "spool" \in Places
  BY RestingType, RestingIs DEF Empty, Places
<1> QED
  BY <1>1 DEF Work

LEMMA GoToIs ==
  ASSUME work \in [Procs -> Work], NEW p \in Procs, NEW place \in Places, GoTo(p, place)
  PROVE  /\ Others(p) /\ Same(p) /\ work'[p].at = place
         /\ work'[p].fork = work[p].fork /\ work'[p].file = work[p].file
<1> DEFINE w == [work[p] EXCEPT !.at = place]
<1>1. /\ w \in Work /\ w.at = place /\ w.kind = work[p].kind /\ w.items = work[p].items
      /\ w.roll = work[p].roll /\ w.anchored = work[p].anchored
      /\ w.fork = work[p].fork /\ w.file = work[p].file
  BY DEF Work
<1>2. work' = [work EXCEPT ![p] = w]
  BY DEF GoTo
<1>3. Others(p) /\ work'[p] = w
  BY <1>1, <1>2, Moves
<1> QED
  BY <1>1, <1>3, Zenon DEF Same

\* An error leaves the records for the spool, and rolls back what was open.
LEMMA ThrowIs ==
  ASSUME LedgerTypeOK, NEW p \in Procs, Throw(p)
  PROVE  /\ Others(p) /\ ~work'[p].roll /\ ~work'[p].anchored
         /\ Recording(p) => /\ work'[p].at = "spool" /\ work'[p].kind = "record"
                            /\ work'[p].items = work[p].items
         /\ ~Recording(p) => /\ work'[p].at = "idle" /\ work'[p].kind = "record"
                             /\ work'[p].items = << >>
         /\ writer = p => tx' = db /\ writer' = Nobody
         /\ writer # p => tx' = tx /\ writer' = writer
         /\ witness' = witness \ {p} /\ db' = db
<1>1. work \in [Procs -> Work] /\ work[p].items \in Chains
  BY DEF LedgerTypeOK, Work
<1>2. CASE Recording(p)
  <2> DEFINE w == [Resting EXCEPT !.at = "spool", !.items = work[p].items]
  <2>1. /\ w \in Work /\ w.at = "spool" /\ w.kind = "record" /\ w.items = work[p].items
        /\ ~w.roll /\ ~w.anchored
    BY <1>1, SpoolsAt
  <2>2. work' = [work EXCEPT ![p] = w]
    BY <1>2 DEF Throw
  <2>3. Others(p) /\ work'[p] = w
    BY <1>1, <2>1, <2>2, Moves
  <2> HIDE DEF w
  <2> QED
    BY <1>2, <2>1, <2>3 DEF Throw, RolledBack
<1>3. CASE ~Recording(p)
  <2>1. work' = [work EXCEPT ![p] = Resting]
    BY <1>3 DEF Throw
  <2>2. Others(p) /\ work'[p] = Resting
    BY <1>1, <2>1, Moves, RestingType
  <2> QED
    BY <1>3, <2>2, RestingIs DEF Throw, RolledBack, Empty
<1> QED
  BY <1>2, <1>3

LEMMA TypeWork == LedgerTypeOK => work \in [Procs -> Work]
BY DEF LedgerTypeOK, Work

-----------------------------------------------------------------------------
(* What the actions do to the process that takes them *)

LEMMA CallIs ==
  ASSUME LedgerTypeOK, NEW p \in Procs, Call(p)
  PROVE  /\ Others(p) /\ work[p].at = "idle" /\ work'[p].at = "prepare" /\ Recording(p)'
         /\ work'[p].roll = work[p].roll /\ work'[p].anchored = work[p].anchored
         /\ made \in Nat /\ made' \in Nat /\ made' <= MaxEvents
         /\ work'[p].items # << >> /\ Len(work'[p].items) <= MaxTogether /\ Once(work'[p].items)
         /\ \A e \in Of(work'[p].items) : made < e /\ e <= made'
<1>1. PICK n \in 1 .. MaxTogether, kind \in {"record", "required"} :
        /\ made + n <= MaxEvents /\ made' = made + n
        /\ work' = [work EXCEPT ![p] = [@ EXCEPT !.at = "prepare", !.kind = kind,
                                                !.items = [i \in 1 .. n |-> made + i]]]
  BY DEF Call
<1>2. PICK items : items = [i \in 1 .. n |-> made + i]
  OBVIOUS
<1>3. made \in Nat /\ MaxEvents \in Nat /\ MaxTogether \in Nat /\ n \in Nat /\ n >= 1
      /\ n <= MaxTogether
  BY <1>1, LedgerConstants DEF LedgerTypeOK
<1>4. /\ items \in Chains /\ items # << >> /\ Len(items) = n /\ Once(items)
      /\ \A e \in Of(items) : made < e /\ e <= made'
  <2>1. items \in Seq(Events) /\ items # << >> /\ Len(items) = n
    BY <1>1, <1>2, <1>3 DEF Events
  <2> QED
    BY <1>1, <1>2, <1>3, <2>1 DEF Chains, Once, Of
<1>5. work \in [Procs -> Work] /\ "prepare" \in Places /\ work[p] \in Work
  BY TypeWork DEF Places
<1>6. PICK w : w = [work[p] EXCEPT !.at = "prepare", !.kind = kind, !.items = items]
  OBVIOUS
<1>7. /\ w \in Work /\ w.at = "prepare" /\ w.kind = kind /\ w.items = items
      /\ w.roll = work[p].roll /\ w.anchored = work[p].anchored
  BY <1>4, <1>5, <1>6 DEF Work
<1>8. work' = [work EXCEPT ![p] = w]
  BY <1>1, <1>2, <1>6
<1>9. Others(p) /\ work'[p] = w
  BY <1>5, <1>7, <1>8, Moves
<1>10. Recording(p)' /\ made' \in Nat /\ made' <= MaxEvents
  BY <1>1, <1>3, <1>7, <1>9 DEF Recording
<1> QED
  BY <1>1, <1>3, <1>4, <1>7, <1>9, <1>10, Zenon DEF Call, At

LEMMA PollIs ==
  ASSUME LedgerTypeOK, NEW p \in Procs, Poll(p)
  PROVE  /\ Others(p) /\ work[p].at = "idle" /\ work'[p].at = "prepare"
         /\ work'[p].kind = "status" /\ work'[p].items = work[p].items
         /\ work'[p].roll = work[p].roll /\ work'[p].anchored = work[p].anchored
<1>1. PICK w : w = [work[p] EXCEPT !.at = "prepare", !.kind = "status"]
  OBVIOUS
<1>2. work[p] \in Work /\ work \in [Procs -> Work] /\ "prepare" \in Places
  BY TypeWork DEF Places
<1>3. /\ w \in Work /\ w.at = "prepare" /\ w.kind = "status" /\ w.items = work[p].items
      /\ w.roll = work[p].roll /\ w.anchored = work[p].anchored
  BY <1>1, <1>2 DEF Work
<1>4. work' = [work EXCEPT ![p] = w]
  BY <1>1 DEF Poll
<1>5. Others(p) /\ work'[p] = w
  BY <1>2, <1>3, <1>4, Moves
<1> QED
  BY <1>3, <1>5, Zenon DEF Poll, At

\* After prepare(): the anchor is reconciled without the lock, or with it, or a
\* record is verified.
Prepares(p) ==
  \/ work'[p].at = "look" /\ ~Recording(p)
  \/ work'[p].at = "inspect" /\ ~Recording(p)
  \/ work'[p].at = "verify" /\ Recording(p)

LEMMA PreparedIs ==
  ASSUME LedgerTypeOK, NEW p \in Procs, work'[p].at = Prepared(work[p].kind)
  PROVE  Prepares(p)
BY TypeWork DEF Prepares, Prepared, Recording, Work

LEMMA TakeSpoolIs ==
  ASSUME LedgerTypeOK, NEW p \in Procs, TakeSpool(p)
  PROVE  /\ Others(p) /\ Same(p) /\ work[p].at = "prepare"
         /\ work'[p].at = "drain" \/ Prepares(p)
         /\ spool' = << >> /\ ingests' = ingests \cup ({spool} \ {<< >>})
         /\ witness' = IF spool = << >> THEN witness ELSE {}
         /\ UNCHANGED <<db, tx, writer, anchor, intents, orphans, archive, projection, told, made,
                        faults>>
<1>1. PICK place : place = IF ingests' = {} THEN Prepared(work[p].kind) ELSE "drain"
  OBVIOUS
<1>2. PICK w : w = [work[p] EXCEPT !.todo = ingests', !.at = place]
  OBVIOUS
<1>3. ingests' \subseteq Chains
  BY DEF TakeSpool, LedgerTypeOK
<1>4. work[p] \in Work /\ place \in Places /\ work \in [Procs -> Work]
  BY <1>1, TypeWork DEF Prepared, Places
<1>5. /\ w \in Work /\ w.at = place /\ w.kind = work[p].kind /\ w.items = work[p].items
      /\ w.roll = work[p].roll /\ w.anchored = work[p].anchored
  BY <1>2, <1>3, <1>4 DEF Work
<1>6. work' = [work EXCEPT ![p] = w]
  BY <1>1, <1>2 DEF TakeSpool
<1>7. Others(p) /\ work'[p] = w
  BY <1>4, <1>5, <1>6, Moves
<1>8. work'[p].at = "drain" \/ Prepares(p)
  BY <1>1, <1>5, <1>7, PreparedIs
<1> QED
  BY <1>5, <1>7, <1>8, Zenon DEF TakeSpool, At, Same, stored, head, logs, calls

LEMMA DrainIs ==
  ASSUME LedgerTypeOK, NEW p \in Procs, Drain(p)
  PROVE  /\ Others(p) /\ Same(p) /\ work[p].at = "drain" /\ work'[p].at = "unlink"
         /\ writer = Nobody /\ tx' = db' /\ witness' = {}
         /\ work'[p].file \in ingests
         /\ db'.chain = Appended(db, work'[p].file)
         /\ db'.boundary = db.boundary /\ db'.cursor = db.cursor
         /\ (db'.chain \in Chains => db' \in Ledgers)
         /\ UNCHANGED <<writer, anchor, intents, orphans, archive, projection, spool, ingests,
                        told, made, faults>>
<1>1. PICK f \in work[p].todo \cap ingests :
        /\ db' = [db EXCEPT !.chain = Appended(db, f)]
        /\ work' = [work EXCEPT ![p] = [@ EXCEPT !.file = f, !.todo = work[p].todo \ {f},
                                                !.at = "unlink"]]
  BY DEF Drain
<1>2. PICK w : w = [work[p] EXCEPT !.file = f, !.todo = work[p].todo \ {f}, !.at = "unlink"]
  OBVIOUS
<1>3. work[p] \in Work /\ work \in [Procs -> Work] /\ f \in Chains /\ "unlink" \in Places
  BY TypeWork DEF LedgerTypeOK, Places
<1>4. /\ w \in Work /\ w.at = "unlink" /\ w.kind = work[p].kind /\ w.items = work[p].items
      /\ w.roll = work[p].roll /\ w.anchored = work[p].anchored /\ w.file = f
  BY <1>2, <1>3 DEF Work
<1>5. work' = [work EXCEPT ![p] = w]
  BY <1>1, <1>2
<1>6. Others(p) /\ work'[p] = w
  BY <1>3, <1>4, <1>5, Moves
<1>7. /\ db'.chain = Appended(db, f) /\ db'.boundary = db.boundary /\ db'.cursor = db.cursor
      /\ (db'.chain \in Chains => db' \in Ledgers)
  <2>1. db \in Ledgers
    BY DEF LedgerTypeOK
  <2>2. PICK c : c = Appended(db, f)
    OBVIOUS
  <2>3. db' = [db EXCEPT !.chain = c]
    BY <1>1, <2>2
  <2> QED
    BY <2>1, <2>2, <2>3 DEF Ledgers
<1> QED
  BY <1>4, <1>6, <1>7, Zenon DEF Drain, At, Same, head, logs, lines, calls

LEMMA NothingToDrainIs ==
  ASSUME LedgerTypeOK, NEW p \in Procs, NothingToDrain(p)
  PROVE  Others(p) /\ Same(p) /\ work[p].at = "drain" /\ Prepares(p)
<1>1. PICK w : w = [work[p] EXCEPT !.todo = {}, !.at = Prepared(work[p].kind)]
  OBVIOUS
<1>2. work[p] \in Work /\ work \in [Procs -> Work] /\ Prepared(work[p].kind) \in Places
  BY TypeWork DEF Prepared, Places
<1>3. /\ w \in Work /\ w.at = Prepared(work[p].kind) /\ w.kind = work[p].kind
      /\ w.items = work[p].items /\ w.roll = work[p].roll /\ w.anchored = work[p].anchored
  BY <1>1, <1>2 DEF Work
<1>4. work' = [work EXCEPT ![p] = w]
  BY <1>1 DEF NothingToDrain
<1>5. Others(p) /\ work'[p] = w
  BY <1>2, <1>3, <1>4, Moves
<1>6. Prepares(p)
  BY <1>3, <1>5, PreparedIs
<1> QED
  BY <1>3, <1>5, <1>6, Zenon DEF NothingToDrain, At, Same

LEMMA UnlinkIs ==
  ASSUME LedgerTypeOK, NEW p \in Procs, Unlink(p)
  PROVE  /\ Others(p) /\ Same(p) /\ work[p].at = "unlink"
         /\ work'[p].at = "drain" \/ Prepares(p)
         /\ ingests' = ingests \ {work[p].file} /\ witness' = {}
         /\ UNCHANGED <<db, tx, writer, anchor, intents, orphans, archive, projection, spool,
                        told, made, faults>>
<1>1. PICK place : place = IF work[p].todo = {} THEN Prepared(work[p].kind) ELSE "drain"
  OBVIOUS
<1>2. PICK w : w = [work[p] EXCEPT !.file = << >>, !.advance = TRUE, !.at = place]
  OBVIOUS
<1>3. work[p] \in Work /\ work \in [Procs -> Work] /\ place \in Places /\ << >> \in Chains
  BY <1>1, TypeWork DEF Prepared, Places, Chains
<1>4. /\ w \in Work /\ w.at = place /\ w.kind = work[p].kind /\ w.items = work[p].items
      /\ w.roll = work[p].roll /\ w.anchored = work[p].anchored
  BY <1>2, <1>3 DEF Work
<1>5. work' = [work EXCEPT ![p] = w]
  BY <1>1, <1>2 DEF Unlink
<1>6. Others(p) /\ work'[p] = w
  BY <1>3, <1>4, <1>5, Moves
<1>7. work'[p].at = "drain" \/ Prepares(p)
  BY <1>1, <1>4, <1>6, PreparedIs
<1> QED
  BY <1>4, <1>6, <1>7, Zenon DEF Unlink, Unlinked, At, Same, stored, head, logs, calls

\* Intents are removed, and nothing else happens to them.
Fewer ==
  /\ intents' \in [Procs -> Chains] /\ orphans' \subseteq orphans
  /\ \A q \in Procs : intents'[q] \in {intents[q], << >>}

LEMMA ConsumeIs ==
  ASSUME LedgerTypeOK, NEW files \in SUBSET Procs, NEW left, Consume(files, left)
  PROVE  /\ Fewer
         /\ orphans' = orphans \ left
         /\ \A q \in Procs : intents'[q] = IF q \in files THEN << >> ELSE intents[q]
<1>1. << >> \in Chains /\ intents \in [Procs -> Chains]
  BY DEF LedgerTypeOK, Chains
<1> QED
  BY <1>1 DEF Consume, Fewer

\* The anchor is moved to the last row, or nothing is changed.
Reconciles ==
  \/ anchor' = db.chain /\ Len(anchor) < Len(db.chain) /\ Fewer
  \/ UNCHANGED <<anchor, intents, orphans>>

LEMMA ReconciledIs ==
  ASSUME LedgerTypeOK, NEW asked \in BOOLEAN, Reconciled(db, asked)
  PROVE  /\ Reconciles
         /\ Advances(db, asked) => anchor' = db.chain
         /\ ~Advances(db, asked) => UNCHANGED <<anchor, intents, orphans>>
<1>1. ForkFiles(db) \in SUBSET Procs
  BY DEF ForkFiles, NamedBy
<1>2. CASE Advances(db, asked)
  BY <1>1, <1>2, ConsumeIs DEF Reconciled, Reconciles, Advances
<1>3. CASE ~Advances(db, asked)
  BY <1>3 DEF Reconciled, Reconciles, head
<1> QED
  BY <1>2, <1>3

LEMMA ForkLeftIs ==
  ASSUME LedgerTypeOK
  PROVE  ForkFiles(db) \in SUBSET Procs /\ ForkLeft(db) \in SUBSET Chains
BY DEF ForkFiles, ForkLeft, NamedBy, LedgerTypeOK

LEMMA ReconcileIs ==
  ASSUME LedgerTypeOK, NEW p \in Procs, tx = db, Reconcile(p)
  PROVE  /\ Others(p) /\ Same(p) /\ work[p].at = "reconcile" /\ work'[p].at = "append"
         /\ ~Alarm(db) /\ Reconciles
         /\ \/ anchor' = db.chain
            \/ UNCHANGED <<anchor, intents, orphans>> /\ work'[p].fork = ForkFiles(db)
         /\ witness' \subseteq witness
         /\ UNCHANGED <<db, tx, writer, archive, projection, spool, ingests, told, made, faults>>
<1>1. PICK fork : fork = IF Advances(tx, Asked(p)) THEN {} ELSE ForkFiles(tx)
  OBVIOUS
<1>2. PICK left : left = IF Advances(tx, Asked(p)) THEN {} ELSE ForkLeft(tx)
  OBVIOUS
<1>3. PICK w : w = [work[p] EXCEPT !.advance = FALSE, !.at = "append", !.fork = fork, !.left = left]
  OBVIOUS
<1>4. /\ work[p] \in Work /\ work \in [Procs -> Work] /\ "append" \in Places
      /\ fork \in SUBSET Procs /\ left \in SUBSET Chains
  BY <1>1, <1>2, TypeWork, ForkLeftIs DEF Places
<1>5. /\ w \in Work /\ w.at = "append" /\ w.kind = work[p].kind /\ w.items = work[p].items
      /\ w.roll = work[p].roll /\ w.anchored = work[p].anchored /\ w.fork = fork
  BY <1>3, <1>4 DEF Work
<1>6. work' = [work EXCEPT ![p] = w]
  BY <1>1, <1>2, <1>3 DEF Reconcile
<1>7. Others(p) /\ work'[p] = w
  BY <1>4, <1>5, <1>6, Moves
<1>8. Asked(p) \in BOOLEAN /\ Reconciled(db, Asked(p)) /\ ~Alarm(db)
  BY <1>4 DEF Reconcile, Asked, Work
<1>9. /\ Reconciles
      /\ \/ anchor' = db.chain
         \/ UNCHANGED <<anchor, intents, orphans>> /\ work'[p].fork = ForkFiles(db)
  BY <1>1, <1>5, <1>7, <1>8, ReconciledIs
<1>10. witness' \subseteq witness
  BY DEF Reconcile, OnlyOwn
<1> QED
  BY <1>5, <1>7, <1>8, <1>9, <1>10, Zenon DEF Reconcile, At, Same, stored, logs, lines, calls

LEMMA AppendRecordsIs ==
  ASSUME LedgerTypeOK, NEW p \in Procs, AppendRecords(p)
  PROVE  /\ Others(p) /\ work[p].at = "append" /\ p \in witness
         /\ work'[p].kind = work[p].kind /\ work'[p].items = work[p].items
         /\ work'[p].fork = work[p].fork
         /\ work'[p].at = IF work'[p].anchored THEN "intent" ELSE "project"
         /\ work'[p].roll => work'[p].anchored /\ Rolls(tx, Len(work[p].items))
         /\ tx' \in Ledgers /\ tx'.chain = tx.chain \o work[p].items /\ tx'.boundary = tx.boundary
         /\ UNCHANGED <<db, writer, anchor, intents, orphans, archive, projection, spool, ingests,
                        witness, told, made, faults>>
<1>1. PICK roll : roll = Rolls(tx, Len(work[p].items))
  OBVIOUS
<1>2. PICK anchored : anchored = Anchors(p, Len(work[p].items))
  OBVIOUS
<1>3. roll \in BOOLEAN /\ anchored \in BOOLEAN /\ (roll => anchored)
  <2>1. tx \in Ledgers /\ work[p] \in Work
    BY TypeWork DEF LedgerTypeOK
  <2>2. roll \in BOOLEAN
    BY <1>1, <2>1, LedgerConstants DEF Rolls, Ledgers, Chains, Work
  <2>3. anchored \in BOOLEAN
    BY <1>2, Zenon DEF Anchors
  <2>4. roll => anchored
    BY <1>1, <1>2, Zenon DEF Anchors
  <2> QED
    BY <2>2, <2>3, <2>4
<1>4. PICK place : place = IF anchored THEN "intent" ELSE "project"
  OBVIOUS
<1>5. PICK w : w = [work[p] EXCEPT !.roll = roll, !.anchored = anchored, !.at = place]
  OBVIOUS
<1>6. work[p] \in Work /\ work \in [Procs -> Work] /\ place \in Places
  BY <1>4, TypeWork DEF Places
<1>7. /\ w \in Work /\ w.at = place /\ w.kind = work[p].kind /\ w.items = work[p].items
      /\ w.roll = roll /\ w.anchored = anchored /\ w.fork = work[p].fork
  BY <1>3, <1>5, <1>6 DEF Work
<1>8. work' = [work EXCEPT ![p] = w]
  BY <1>1, <1>2, <1>4, <1>5, Zenon DEF AppendRecords
<1>9. Others(p) /\ work'[p] = w
  BY <1>6, <1>7, <1>8, Moves
<1>10. tx' \in Ledgers /\ tx'.chain = tx.chain \o work[p].items /\ tx'.boundary = tx.boundary
  <2>1. tx \in Ledgers /\ tx.chain \in Chains /\ work[p].items \in Chains
    BY <1>6 DEF LedgerTypeOK, Ledgers, Work
  <2>2. PICK c : c = tx.chain \o work[p].items
    OBVIOUS
  <2>3. c \in Chains
    BY <2>1, <2>2, AppendedIs DEF Chains
  <2>4. tx' = [tx EXCEPT !.chain = c]
    BY <2>2 DEF AppendRecords
  <2> QED
    BY <2>1, <2>2, <2>3, <2>4 DEF Ledgers
<1> QED
  BY <1>1, <1>3, <1>4, <1>7, <1>9, <1>10, Zenon DEF AppendRecords, At, head, logs, lines, calls

LEMMA StoreAnchorIs ==
  ASSUME LedgerTypeOK, NEW p \in Procs, StoreAnchor(p)
  PROVE  /\ Others(p) /\ Same(p) /\ work[p].at = "anchor" /\ work'[p].at = "project"
         /\ anchor' = tx.chain /\ Fewer /\ witness' \subseteq witness
         /\ p \notin work[p].fork => intents'[p] = intents[p]
         /\ UNCHANGED <<db, tx, writer, archive, projection, spool, ingests, told, made, faults>>
<1>1. PICK w : w = [work[p] EXCEPT !.fork = {}, !.left = {}, !.at = "project"]
  OBVIOUS
<1>2. work[p] \in Work /\ work \in [Procs -> Work] /\ "project" \in Places
  BY TypeWork DEF Places
<1>3. /\ w \in Work /\ w.at = "project" /\ w.kind = work[p].kind /\ w.items = work[p].items
      /\ w.roll = work[p].roll /\ w.anchored = work[p].anchored
  BY <1>1, <1>2 DEF Work
<1>4. work' = [work EXCEPT ![p] = w]
  BY <1>1 DEF StoreAnchor
<1>5. Others(p) /\ work'[p] = w
  BY <1>2, <1>3, <1>4, Moves
<1>6. work[p].fork \in SUBSET Procs /\ Consume(work[p].fork, work[p].left)
  BY <1>2 DEF StoreAnchor, Work
<1>7. Fewer /\ (p \notin work[p].fork => intents'[p] = intents[p])
  BY <1>6, ConsumeIs
<1>8. witness' \subseteq witness
  BY DEF StoreAnchor, OnlyOwn
<1> QED
  BY <1>3, <1>5, <1>7, <1>8, Zenon DEF StoreAnchor, At, Same, stored, logs, lines, calls

\* What the callers of its records are told.
LEMMA TellIs ==
  ASSUME LedgerTypeOK, NEW p \in Procs, NEW what \in {"nothing", "durable", "anchored", "spooled"},
         Tell(p, what)
  PROVE  /\ told' \in [Events -> {"nothing", "durable", "anchored", "spooled"}]
         /\ \A e \in Events : told'[e] = IF e \in Of(work[p].items) THEN what ELSE told[e]
<1>1. ItemsOf(p) = Of(work[p].items)
  BY DEF ItemsOf, Of
<1> QED
  BY <1>1 DEF Tell, LedgerTypeOK

LEMMA CommitIs ==
  ASSUME LedgerTypeOK, NEW p \in Procs, Commit(p)
  PROVE  /\ Others(p) /\ work[p].at = "commit" /\ Empty(work'[p]) /\ work'[p].kind = "record"
         /\ work'[p].at = IF work[p].anchored THEN "clear" ELSE "idle"
         /\ db' = tx /\ tx' = tx /\ writer' = Nobody /\ witness' = {}
         /\ told' \in [Events -> {"nothing", "durable", "anchored", "spooled"}]
         /\ \A e \in Events : told'[e] = IF e \in Of(work[p].items)
                                         THEN IF work[p].anchored THEN "anchored" ELSE "durable"
                                         ELSE told[e]
         /\ UNCHANGED <<anchor, intents, orphans, archive, projection, spool, ingests, made, faults>>
<1>1. PICK w : w = IF work[p].anchored THEN [Resting EXCEPT !.at = "clear"] ELSE Resting
  OBVIOUS
<1>2. /\ w \in Work /\ Empty(w) /\ w.kind = "record"
      /\ w.at = IF work[p].anchored THEN "clear" ELSE "idle"
  BY <1>1, RestingIs, RestingType, ClearsAt
<1>3. work' = [work EXCEPT ![p] = w]
  BY <1>1 DEF Commit
<1>4. Others(p) /\ work'[p] = w
  BY <1>2, <1>3, Moves, TypeWork
<1>5. PICK what : what = IF work[p].anchored THEN "anchored" ELSE "durable"
  OBVIOUS
<1>6. what \in {"nothing", "durable", "anchored", "spooled"} /\ Tell(p, what)
  BY <1>5 DEF Commit
<1>7. /\ told' \in [Events -> {"nothing", "durable", "anchored", "spooled"}]
      /\ \A e \in Events : told'[e] = IF e \in Of(work[p].items) THEN what ELSE told[e]
  BY <1>6, TellIs
<1> QED
  BY <1>2, <1>4, <1>5, <1>7, Zenon DEF Commit, At, head, logs, lines

LEMMA ClearIntentIs ==
  ASSUME LedgerTypeOK, NEW p \in Procs, ClearIntent(p)
  PROVE  /\ Others(p) /\ work[p].at = "clear" /\ work'[p] = Resting /\ Fewer
         /\ intents'[p] = << >> /\ \A q \in Procs : q # p => intents'[q] = intents[q]
         /\ UNCHANGED <<db, tx, writer, anchor, orphans, archive, projection, spool, ingests,
                        witness, told, made, faults>>
<1>1. Others(p) /\ work'[p] = Resting
  BY Moves, TypeWork, RestingType DEF ClearIntent
<1>2. Fewer /\ intents'[p] = << >> /\ \A q \in Procs : q # p => intents'[q] = intents[q]
  <2>1. intents \in [Procs -> Chains] /\ << >> \in Chains
    BY DEF LedgerTypeOK, Chains
  <2> QED
    BY <2>1 DEF ClearIntent, Fewer
<1> QED
  BY <1>1, <1>2, Zenon DEF ClearIntent, At, stored, logs, lines, calls

LEMMA SpoolIs ==
  ASSUME LedgerTypeOK, NEW p \in Procs, Spool(p)
  PROVE  /\ Others(p) /\ work[p].at = "spool" /\ work'[p] = Resting
         /\ spool' = spool \o work[p].items /\ witness' = {}
         /\ told' \in [Events -> {"nothing", "durable", "anchored", "spooled"}]
         /\ \A e \in Events : told'[e] = IF e \in Of(work[p].items) THEN "spooled" ELSE told[e]
         /\ UNCHANGED <<db, tx, writer, anchor, intents, orphans, archive, projection, ingests,
                        made, faults>>
<1>1. Others(p) /\ work'[p] = Resting
  BY Moves, TypeWork, RestingType DEF Spool
<1>2. Tell(p, "spooled")
  BY DEF Spool
<1>3. /\ told' \in [Events -> {"nothing", "durable", "anchored", "spooled"}]
      /\ \A e \in Events : told'[e] = IF e \in Of(work[p].items) THEN "spooled" ELSE told[e]
  BY <1>2, TellIs
<1> QED
  BY <1>1, <1>3, Zenon DEF Spool, At, stored, head, logs

LEMMA InspectIs ==
  ASSUME LedgerTypeOK, NEW p \in Procs, Inspect(p)
  PROVE  /\ Others(p) /\ work[p].at = "inspect" /\ Empty(work'[p]) /\ writer = Nobody
         /\ \/ work'[p].at = "idle" /\ work'[p].kind = "record"
            \/ work'[p].at = "prepare" /\ work'[p].kind = "flush"
         /\ Reconciles /\ witness' \subseteq witness
         /\ UNCHANGED <<db, tx, writer, archive, projection, spool, ingests, told, made, faults>>
<1>1. \/ work' = [work EXCEPT ![p] = Resting]
      \/ work' = [work EXCEPT ![p] = [Resting EXCEPT !.at = "prepare", !.kind = "flush"]]
  BY Zenon DEF Inspect
<1>2. PICK w : /\ w = Resting \/ w = [Resting EXCEPT !.at = "prepare", !.kind = "flush"]
               /\ work' = [work EXCEPT ![p] = w]
  BY <1>1
<1>3. /\ w \in Work /\ Empty(w)
      /\ \/ w.at = "idle" /\ w.kind = "record"
         \/ w.at = "prepare" /\ w.kind = "flush"
  <2>1. CASE w = Resting
    BY <2>1, RestingIs, RestingType, Zenon
  <2>2. CASE w = [Resting EXCEPT !.at = "prepare", !.kind = "flush"]
    BY <2>2, RestsAt DEF Places
  <2> QED
    BY <1>2, <2>1, <2>2
<1>4. Others(p) /\ work'[p] = w
  BY <1>2, <1>3, Moves, TypeWork
<1>5. Reconciles /\ witness' \subseteq witness
  <2>1. CASE Alarm(db)
    BY <2>1 DEF Inspect, Reconciles, head
  <2>2. CASE ~Alarm(db)
    BY <2>2, ReconciledIs DEF Inspect
  <2> QED
    BY <2>1, <2>2
<1> QED
  BY <1>3, <1>4, <1>5, Zenon DEF Inspect, At, stored, logs, lines, calls

\* What a process does next when prepare() is over.
Goes(p) ==
  /\ Empty(work'[p])
  /\ \/ work'[p].at = "prepare" /\ work'[p].kind = "verify"
     \/ work'[p].at = "heal" /\ work'[p].kind = "flush"

LEMMA GoesIs ==
  ASSUME LedgerTypeOK, NEW p \in Procs, work' = [work EXCEPT ![p] = Onward(p)]
  PROVE  Others(p) /\ Goes(p)
<1>1. PICK w : w = Onward(p)
  OBVIOUS
<1>2. /\ w \in Work /\ Empty(w)
      /\ \/ w.at = "prepare" /\ w.kind = "verify"
         \/ w.at = "heal" /\ w.kind = "flush"
  <2>1. CASE work[p].kind = "status"
    <3>1. w = [Resting EXCEPT !.at = "prepare", !.kind = "verify"]
      BY <1>1, <2>1 DEF Onward
    <3> QED
      BY <3>1, RestsAt DEF Places
  <2>2. CASE work[p].kind # "status"
    <3>1. w = [Resting EXCEPT !.at = "heal", !.kind = "flush"]
      BY <1>1, <2>2 DEF Onward
    <3> QED
      BY <3>1, RestsAt DEF Places
  <2> QED
    BY <2>1, <2>2
<1>3. Others(p) /\ work'[p] = w
  BY <1>1, <1>2, Moves, TypeWork
<1> QED
  BY <1>2, <1>3, Zenon DEF Goes

LEMMA LookIs ==
  ASSUME LedgerTypeOK, NEW p \in Procs, Look(p)
  PROVE  /\ Others(p) /\ work[p].at = "look"
         /\ \/ Goes(p)
            \/ Same(p) /\ work'[p].at = "store" /\ work'[p].row = db.chain
         /\ UNCHANGED <<db, tx, writer, anchor, intents, orphans, archive, projection, spool,
                        ingests, witness, told, made, faults>>
<1>1. CASE Advances(db, work[p].advance)
  <2>1. PICK w : w = [work[p] EXCEPT !.at = "store", !.advance = FALSE, !.row = db.chain,
                                     !.fork = ForkFiles(db), !.left = ForkLeft(db)]
    OBVIOUS
  <2>2. /\ work[p] \in Work /\ work \in [Procs -> Work] /\ "store" \in Places
        /\ db.chain \in Chains /\ ForkFiles(db) \in SUBSET Procs /\ ForkLeft(db) \in SUBSET Chains
    BY TypeWork, ForkLeftIs DEF Places, LedgerTypeOK, Ledgers
  <2>3. /\ w \in Work /\ w.at = "store" /\ w.kind = work[p].kind /\ w.items = work[p].items
        /\ w.roll = work[p].roll /\ w.anchored = work[p].anchored /\ w.row = db.chain
    BY <2>1, <2>2 DEF Work
  <2>4. work' = [work EXCEPT ![p] = w]
    BY <1>1, <2>1 DEF Look
  <2>5. Others(p) /\ work'[p] = w
    BY <2>2, <2>3, <2>4, Moves
  <2> QED
    BY <2>3, <2>5, Zenon DEF Look, At, Same, stored, head, logs, lines, calls
<1>2. CASE ~Advances(db, work[p].advance)
  <2>1. Others(p) /\ Goes(p)
    BY <1>2, GoesIs DEF Look
  <2> QED
    BY <2>1, Zenon DEF Look, At, stored, head, logs, lines, calls
<1> QED
  BY <1>1, <1>2

\* The anchor becomes the last row that was read, or is a row already.
LEMMA StoreSeenIs ==
  ASSUME LedgerTypeOK, NEW p \in Procs, StoreSeen(p)
  PROVE  /\ Others(p) /\ work[p].at = "store"
         /\ \/ Goes(p)
            \/ Same(p) /\ work'[p].at = "consume" /\ work'[p].row = work[p].row
         /\ \/ anchor' = work[p].row /\ Len(anchor) < Len(work[p].row) /\ Takes(p)
            \/ anchor' = anchor /\ InChain(db)
         /\ witness' \subseteq witness
         /\ UNCHANGED <<db, tx, writer, intents, orphans, archive, projection, spool, ingests,
                        told, made, faults>>
<1>1. /\ Others(p)
      /\ \/ Goes(p)
         \/ Same(p) /\ work'[p].at = "consume" /\ work'[p].row = work[p].row
  <2>1. CASE work[p].fork \cup work[p].left = {}
    <3>1. work' = [work EXCEPT ![p] = Onward(p)]
      BY <2>1 DEF StoreSeen
    <3>2. Others(p) /\ Goes(p)
      BY <3>1, GoesIs
    <3> QED
      BY <3>2
  <2>2. CASE work[p].fork \cup work[p].left # {}
    <3>1. PICK w : w = [work[p] EXCEPT !.at = "consume"]
      OBVIOUS
    <3>2. work[p] \in Work /\ work \in [Procs -> Work] /\ "consume" \in Places
      BY TypeWork DEF Places
    <3>3. /\ w \in Work /\ w.at = "consume" /\ w.kind = work[p].kind /\ w.items = work[p].items
          /\ w.roll = work[p].roll /\ w.anchored = work[p].anchored /\ w.row = work[p].row
      BY <3>1, <3>2 DEF Work
    <3>4. work' = [work EXCEPT ![p] = w]
      BY <2>2, <3>1 DEF StoreSeen
    <3>5. Others(p) /\ work'[p] = w
      BY <3>2, <3>3, <3>4, Moves
    <3> QED
      BY <3>3, <3>5, Zenon DEF Same
  <2> QED
    BY <2>1, <2>2
<1>2. \/ anchor' = work[p].row /\ Len(anchor) < Len(work[p].row) /\ Takes(p)
      \/ anchor' = anchor /\ InChain(db)
  <2>1. CASE Takes(p)
    <3>1. Len(work[p].row) > Len(anchor) /\ anchor' = work[p].row
      BY <2>1 DEF Takes, StoreSeen
    <3>2. Len(work[p].row) \in Nat /\ Len(anchor) \in Nat
      BY TypeWork DEF LedgerTypeOK, Work, Chains
    <3> QED
      BY <2>1, <3>1, <3>2
  <2>2. CASE ~Takes(p)
    BY <2>2 DEF StoreSeen, Dominated
  <2> QED
    BY <2>1, <2>2
<1>3. work[p].at = "store" /\ witness' \subseteq witness
  BY DEF StoreSeen, At
<1>4. UNCHANGED <<db, tx, writer, intents, orphans, archive, projection, spool, ingests, told, made,
                 faults>>
  BY DEF StoreSeen, stored, logs, lines, calls
<1> QED
  BY <1>1, <1>2, <1>3, <1>4

LEMMA ForkConsumedIs ==
  ASSUME LedgerTypeOK, NEW p \in Procs, ForkConsumed(p)
  PROVE  /\ Others(p) /\ Goes(p) /\ work[p].at = "consume" /\ Fewer
         /\ orphans' = orphans \ work[p].left
         /\ \A q \in Procs : intents'[q] = IF q \in work[p].fork THEN << >> ELSE intents[q]
         /\ UNCHANGED <<db, tx, writer, anchor, archive, projection, spool, ingests, witness,
                        told, made, faults>>
<1>1. Others(p) /\ Goes(p)
  BY GoesIs DEF ForkConsumed
<1>2. work[p].fork \in SUBSET Procs /\ Consume(work[p].fork, work[p].left)
  BY TypeWork DEF ForkConsumed, Work
<1>3. /\ Fewer /\ orphans' = orphans \ work[p].left
      /\ \A q \in Procs : intents'[q] = IF q \in work[p].fork THEN << >> ELSE intents[q]
  <2>1. PICK files, left : files = work[p].fork /\ left = work[p].left
    OBVIOUS
  <2>2. files \in SUBSET Procs /\ Consume(files, left)
    BY <1>2, <2>1
  <2>3. /\ Fewer /\ orphans' = orphans \ left
        /\ \A q \in Procs : intents'[q] = IF q \in files THEN << >> ELSE intents[q]
    BY <2>2, ConsumeIs
  <2> QED
    BY <2>1, <2>3
<1> QED
  BY <1>1, <1>3, Zenon DEF ForkConsumed, At, stored, logs, lines, calls

LEMMA HealIs ==
  ASSUME LedgerTypeOK, NEW p \in Procs, Heal(p)
  PROVE  /\ Others(p) /\ Same(p) /\ work[p].at = "heal" /\ work'[p].at = "project"
         /\ writer = Nobody /\ writer' = p
         /\ UNCHANGED <<db, tx, anchor, intents, orphans, archive, projection, spool, ingests,
                        witness, told, made, faults>>
<1>1. Others(p) /\ Same(p) /\ work'[p].at = "project"
  BY GoToIs, TypeWork DEF Heal, Places
<1> QED
  BY <1>1, Zenon DEF Heal, At, head, logs, lines, calls

LEMMA CrashIs ==
  ASSUME LedgerTypeOK, NEW p \in Procs, Crash(p)
  PROVE  /\ Others(p) /\ work'[p] = Fresh
         /\ writer = p => tx' = db /\ writer' = Nobody
         /\ writer # p => tx' = tx /\ writer' = writer
         /\ orphans' = orphans \cup ({intents[p]} \ {<< >>})
         /\ intents' \in [Procs -> Chains] /\ intents'[p] = << >>
         /\ \A q \in Procs : q # p => intents'[q] = intents[q]
         /\ witness' = witness \ {p} /\ faults < MaxFaults /\ faults' = faults + 1
         /\ told' \in [Events -> {"nothing", "durable", "anchored", "spooled"}]
         /\ \A e \in Events : told'[e] = IF e \in Of(work[p].items) THEN "nothing" ELSE told[e]
         /\ UNCHANGED <<db, anchor, archive, projection, spool, ingests, made>>
<1>1. Others(p) /\ work'[p] = Fresh
  <2>1. PICK file : file = {intents[p]} \ {<< >>}
    OBVIOUS
  <2>2. work' = [q \in Procs |->
          IF q = p THEN Fresh
          ELSE IF p \in work[q].fork
               THEN [work[q] EXCEPT !.fork = @ \ {p}, !.left = @ \cup file] ELSE work[q]]
    BY <2>1 DEF Crash
  <2>3. work \in [Procs -> Work] /\ Fresh \in Work /\ file \in SUBSET Chains
    BY <2>1, TypeWork, RestingType DEF LedgerTypeOK
  <2>4. ASSUME NEW q \in Procs, q # p PROVE work'[q] \in Work /\ Alike(q)
    <3>1. CASE p \in work[q].fork
      <4>1. work'[q] = [work[q] EXCEPT !.fork = work[q].fork \ {p}, !.left = work[q].left \cup file]
        BY <2>2, <2>4, <3>1
      <4>2. PICK fork, left : fork = work[q].fork \ {p} /\ left = work[q].left \cup file
        OBVIOUS
      <4>3. work[q] \in Work /\ fork \in SUBSET Procs /\ left \in SUBSET Chains
        BY <2>3, <4>2 DEF Work
      <4>4. work'[q] = [work[q] EXCEPT !.fork = fork, !.left = left]
        BY <4>1, <4>2
      <4>5. q \in fork <=> q \in work[q].fork
        BY <2>4, <4>2
      <4> QED
        BY <4>3, <4>4, <4>5 DEF Work, Alike
    <3>2. CASE p \notin work[q].fork
      BY <2>2, <2>3, <2>4, <3>2 DEF Alike
    <3> QED
      BY <3>1, <3>2
  <2>5. work'[p] = Fresh
    BY <2>2
  <2>6. work' \in [Procs -> Work]
    <3>1. DOMAIN work' = Procs /\ work' = [q \in Procs |-> work'[q]]
      BY <2>2
    <3>2. \A q \in Procs : work'[q] \in Work
      BY <2>3, <2>4, <2>5
    <3> QED
      BY <3>1, <3>2
  <2> QED
    BY <2>4, <2>5, <2>6 DEF Others
<1>2. Tell(p, "nothing")
  BY DEF Crash
<1>3. /\ told' \in [Events -> {"nothing", "durable", "anchored", "spooled"}]
      /\ \A e \in Events : told'[e] = IF e \in Of(work[p].items) THEN "nothing" ELSE told[e]
  BY <1>2, TellIs
<1>4. /\ intents' \in [Procs -> Chains] /\ intents'[p] = << >>
      /\ \A q \in Procs : q # p => intents'[q] = intents[q]
  <2>1. intents \in [Procs -> Chains] /\ << >> \in Chains
    BY DEF LedgerTypeOK, Chains
  <2> QED
    BY <2>1 DEF Crash
<1>5. /\ writer = p => tx' = db /\ writer' = Nobody
      /\ writer # p => tx' = tx /\ writer' = writer
  BY DEF Crash, RolledBack
<1> QED
  BY <1>1, <1>3, <1>4, <1>5, Zenon DEF Crash, logs, lines

\* What is drained follows the ledger, and everything that was drained is in it.
LEMMA DrainedIs ==
  ASSUME NEW l \in Ledgers, NEW q \in Chains
  PROVE  /\ Appended(l, q) \in Chains /\ Extends(Appended(l, q), l.chain)
         /\ Of(Appended(l, q)) = Of(l.chain) \cup Of(q)
         /\ Once(l.chain) /\ Once(q) /\ (\A i \in DOMAIN l.chain : i <= l.boundary => l.chain[i] \notin Of(q))
              => Once(Appended(l, q))
<1> DEFINE P == {i \in DOMAIN q : q[i] \notin Live(l)}
           s == Subsequence(q, P)
<1>1. l.chain \in Seq(Events) /\ q \in Seq(Events) /\ l.boundary \in Nat /\ P \in SUBSET DOMAIN q
  BY DEF Ledgers, Chains
<1>2. s \in Seq(Events) /\ Of(s) = {q[i] : i \in P} /\ (Once(q) => Once(s))
  BY <1>1, SubsequenceIs
<1>3. Appended(l, q) = l.chain \o s
  BY DEF Appended
<1> HIDE DEF s
<1>4. /\ l.chain \o s \in Seq(Events) /\ Extends(l.chain \o s, l.chain)
      /\ Of(l.chain \o s) = Of(l.chain) \cup Of(s)
      /\ Once(l.chain) /\ Once(s) /\ Of(l.chain) \cap Of(s) = {} => Once(l.chain \o s)
  BY <1>1, <1>2, AppendedIs
<1>5. Live(l) \subseteq Of(l.chain)
  <2>1. \A i \in l.boundary + 1 .. Len(l.chain) : i \in DOMAIN l.chain
    BY <1>1
  <2> QED
    BY <2>1, Zenon DEF Live, Of
<1>6. Of(s) \subseteq Of(q) /\ Of(q) \subseteq Of(s) \cup Live(l)
  BY <1>2, Zenon DEF Of
<1>7. Of(s) \cap Live(l) = {}
  BY <1>2, Zenon
<1>8. ASSUME \A i \in DOMAIN l.chain : i <= l.boundary => l.chain[i] \notin Of(q)
      PROVE  Of(l.chain) \cap Of(s) = {}
  <2> SUFFICES ASSUME NEW e \in Of(l.chain), e \in Of(s) PROVE FALSE
    OBVIOUS
  <2>1. PICK i \in DOMAIN l.chain : e = l.chain[i]
    BY Zenon DEF Of
  <2>2. i \in l.boundary + 1 .. Len(l.chain)
    BY <1>1, <1>6, <1>8, <2>1
  <2>3. e \in Live(l)
    BY <2>1, <2>2, Zenon DEF Live
  <2> QED
    BY <1>7, <2>3
<1>9. Of(l.chain \o s) = Of(l.chain) \cup Of(q)
  BY <1>4, <1>5, <1>6
<1> QED
  BY <1>2, <1>3, <1>4, <1>8, <1>9 DEF Chains

\* One row goes to the archive, where it is the next line or is already; the
\* records that are being admitted stay in the window.
LEMMA ArchiveIs ==
  ASSUME LedgerTypeOK, WorkOK, TxOK, ArchiveOK, NEW p \in Procs, Archive(p)
  PROVE  /\ Others(p) /\ Same(p) /\ work[p].at = "archive" /\ work'[p].at \in {"archive", "rebuild"}
         /\ work[p].roll
         /\ tx' \in Ledgers /\ tx'.chain = tx.chain /\ tx'.boundary = tx.boundary + 1
         /\ tx'.boundary <= Len(db.chain) /\ tx'.boundary < Len(tx.chain)
         /\ Len(tx.chain) - tx'.boundary >= Window
         /\ work'[p].at = "archive" => Len(tx.chain) - tx'.boundary > Window
         /\ archive' \in Seq(Chains) /\ tx'.boundary <= Len(archive')
         /\ Len(archive') <= Len(db.chain)
         /\ \A i \in DOMAIN archive' : archive'[i] = Hash(db.chain, i)
         /\ UNCHANGED <<db, writer, anchor, intents, orphans, projection, spool, ingests, witness,
                        told, made, faults>>
<1>0. PICK next, items, line :
        next = tx.boundary + 1 /\ items = work[p].items /\ line = Hash(tx.chain, next)
  OBVIOUS
<1>1. /\ db \in Ledgers /\ tx \in Ledgers /\ archive \in Seq(Chains) /\ work \in [Procs -> Work]
      /\ work[p].at = "archive" /\ items \in Seq(Events)
      /\ db.chain \in Seq(Events) /\ tx.chain \in Seq(Events)
      /\ tx.boundary \in Nat /\ db.boundary \in Nat /\ next \in Nat
  <2>1. db \in Ledgers /\ tx \in Ledgers /\ archive \in Seq(Chains) /\ work \in [Procs -> Work]
    BY TypeWork DEF LedgerTypeOK
  <2>2. work[p].at = "archive"
    BY DEF Archive, At
  <2>3. items \in Seq(Events)
    BY <1>0, <2>1 DEF Work, Chains
  <2>4. /\ db.chain \in Seq(Events) /\ tx.chain \in Seq(Events)
        /\ tx.boundary \in Nat /\ db.boundary \in Nat
    BY <2>1 DEF Ledgers, Chains
  <2> QED
    BY <1>0, <2>1, <2>2, <2>3, <2>4
<1>2. /\ work[p].roll /\ Len(items) <= MaxTogether /\ tx.chain = db.chain \o items
      /\ Len(tx.chain) - tx.boundary > Window
  BY <1>0, <1>1, Zenon DEF WorkOK, Carries, Decides, TxOK, Appends, Leaves, Appending
<1>3. /\ Len(tx.chain) = Len(db.chain) + Len(items) /\ Extends(tx.chain, db.chain)
      /\ Window \in Nat /\ MaxTogether \in Nat /\ MaxTogether <= Window
      /\ Len(items) \in Nat /\ Len(db.chain) \in Nat /\ Len(tx.chain) \in Nat
  <2>1. Window \in Nat /\ MaxTogether \in Nat /\ MaxTogether <= Window
    BY LedgerConstants
  <2>2. Len(items) \in Nat /\ Len(db.chain) \in Nat /\ Len(tx.chain) \in Nat
    BY <1>1
  <2>3. Len(tx.chain) = Len(db.chain) + Len(items) /\ Extends(tx.chain, db.chain)
    BY <1>1, <1>2, AppendedIs
  <2> QED
    BY <2>1, <2>2, <2>3
<1>4. next <= Len(db.chain) /\ next \in 1 .. Len(db.chain) /\ next < Len(tx.chain)
      /\ Len(tx.chain) - next >= Window
  <2>1. MaxTogether >= 1
    BY LedgerConstants
  <2> QED
    <3>1. /\ tx.boundary \in Nat /\ next = tx.boundary + 1 /\ Len(items) <= MaxTogether
          /\ Len(tx.chain) - tx.boundary > Window
      BY <1>0, <1>1, <1>2, Zenon
    <3>2. next <= Len(db.chain) /\ next < Len(tx.chain) /\ Len(tx.chain) - next >= Window
      BY <1>3, <2>1, <3>1
    <3> QED
      BY <1>3, <3>1, <3>2
<1>5. line = Hash(db.chain, next) /\ line \in Chains /\ Len(line) = next
  <2>1. next \in 0 .. Len(db.chain)
    BY <1>4
  <2> QED
    <3>1. Hash(tx.chain, next) = Hash(db.chain, next)
      BY <1>1, <1>3, <2>1, SameHash, Zenon
    <3>2. Hash(db.chain, next) \in Seq(Events) /\ Len(Hash(db.chain, next)) = next
      BY <1>1, <2>1, HashIs, Zenon
    <3> QED
      BY <1>0, <3>1, <3>2, Zenon DEF Chains
<1>6. /\ Len(archive) <= Len(db.chain) /\ tx.boundary <= Len(archive) /\ Len(archive) \in Nat
      /\ \A i \in DOMAIN archive : archive[i] = Hash(db.chain, i)
  BY <1>1 DEF ArchiveOK
<1>7. LastArchived = Len(archive)
  <2>1. CASE archive = << >>
    BY <2>1 DEF LastArchived
  <2>2. CASE archive # << >>
    <3>1. Len(archive) \in DOMAIN archive /\ Len(archive) \in 0 .. Len(db.chain)
      BY <1>1, <1>6, <2>2
    <3>2. Len(Hash(db.chain, Len(archive))) = Len(archive)
      BY <1>1, <3>1, HashIs
    <3> QED
      BY <1>6, <2>2, <3>1, <3>2 DEF LastArchived
  <2> QED
    BY <2>1, <2>2
<1>8. Archives(line)
  BY <1>0 DEF Archive
<1>9. /\ archive' \in Seq(Chains) /\ next <= Len(archive') /\ Len(archive') <= Len(db.chain)
      /\ \A i \in DOMAIN archive' : archive'[i] = Hash(db.chain, i)
  <2>1. CASE next > Len(archive)
    <3>1. archive' = Append(archive, line) /\ next = Len(archive) + 1
      <4>1. archive' = Append(archive, line)
        BY <1>5, <1>7, <1>8, <2>1, Zenon DEF Archives
      <4>2. tx.boundary \in Nat /\ next = tx.boundary + 1 /\ tx.boundary <= Len(archive)
            /\ Len(archive) \in Nat
        BY <1>0, <1>1, <1>6, Zenon
      <4> QED
        BY <2>1, <4>1, <4>2
    <3>2. /\ archive' \in Seq(Chains) /\ Len(archive') = next /\ archive'[next] = line
          /\ \A i \in DOMAIN archive' : i # next => i \in DOMAIN archive /\ archive'[i] = archive[i]
      BY <1>1, <1>5, <3>1
    <3> QED
      BY <1>4, <1>5, <1>6, <3>2
  <2>2. CASE ~(next > Len(archive))
    <3>1. archive' = archive
      BY <1>5, <1>7, <1>8, <2>2 DEF Archives
    <3> QED
      BY <1>1, <1>6, <2>2, <3>1
  <2> QED
    BY <2>1, <2>2
<1>10. /\ tx' \in Ledgers /\ tx'.chain = tx.chain /\ tx'.boundary = next
  <2>1. tx' = [tx EXCEPT !.boundary = next]
    BY <1>0 DEF Archive
  <2> QED
    BY <1>1, <2>1 DEF Ledgers
<1>11. PICK place \in {"archive", "rebuild"} :
         /\ GoTo(p, place) /\ (place = "archive" => Len(tx.chain) - next # Window)
  BY <1>0, Zenon DEF Archive
<1>12. Others(p) /\ Same(p) /\ work'[p].at = place
  <2>1. place \in Places
    BY DEF Places
  <2> QED
    BY <1>1, <1>11, <2>1, GoToIs
<1>13. place = "archive" => Len(tx.chain) - next > Window
  <2>1. next \in Nat /\ Len(tx.chain) \in Nat /\ Window \in Nat /\ Len(tx.chain) - next >= Window
        /\ (place = "archive" => Len(tx.chain) - next # Window)
    BY <1>1, <1>3, <1>4, <1>11, Zenon
  <2> QED
    BY <2>1
<1>14. UNCHANGED <<db, writer, anchor, intents, orphans, projection, spool, ingests, witness,
                        told, made, faults>>
  BY DEF Archive, head, lines, calls
<1> QED
  BY <1>0, <1>1, <1>2, <1>4, <1>9, <1>10, <1>12, <1>13, <1>14

LEMMA ProjectIs ==
  ASSUME LedgerTypeOK, NEW p \in Procs, Project(p)
  PROVE  /\ Others(p) /\ Same(p) /\ work[p].at = "project"
         /\ work'[p].at = IF work[p].roll THEN "archive" ELSE "commit"
         /\ tx' \in Ledgers /\ tx'.chain = tx.chain /\ tx'.boundary = tx.boundary
         /\ projection' = Exactly(tx) /\ witness' \subseteq witness
         /\ UNCHANGED <<db, writer, anchor, intents, orphans, archive, spool, ingests, told, made,
                        faults>>
<1>1. Others(p) /\ Same(p) /\ work'[p].at = IF work[p].roll THEN "archive" ELSE "commit"
  <2>1. PICK place \in Places : place = (IF work[p].roll THEN "archive" ELSE "commit") /\ GoTo(p, place)
    BY DEF Project, Places
  <2> QED
    BY <2>1, GoToIs, TypeWork
<1>2. tx' \in Ledgers /\ tx'.chain = tx.chain /\ tx'.boundary = tx.boundary
  <2>1. tx \in Ledgers /\ Len(tx.chain) \in Nat
    BY DEF LedgerTypeOK, Ledgers, Chains
  <2> QED
    BY <2>1 DEF Project, Ledgers
<1>3. witness' \subseteq witness
  BY DEF Project, OnlyOwn
<1> QED
  BY <1>1, <1>2, <1>3, Zenon DEF Project, At, head, lines, calls

-----------------------------------------------------------------------------
(* Types *)

LockOK ==
  /\ \A p \in Procs : work[p].at \in Locked <=> writer = p
  /\ writer = Nobody => tx = db

Types ==
  /\ db \in Ledgers /\ tx \in Ledgers /\ writer \in Procs \cup {Nobody}
  /\ anchor \in Chains /\ intents \in [Procs -> Chains] /\ orphans \subseteq Chains
  /\ archive \in Seq(Chains) /\ projection \in [from : Nat, chain : Chains]
  /\ spool \in Chains /\ ingests \subseteq Chains
  /\ work \in [Procs -> Work] /\ witness \subseteq Procs
  /\ told \in [Events -> {"nothing", "durable", "anchored", "spooled"}]
  /\ made \in 0 .. MaxEvents /\ faults \in 0 .. MaxFaults

LEMMA TypeParts ==
  /\ LedgerTypeOK <=> Types /\ LockOK
  /\ LedgerTypeOK' <=> Types' /\ LockOK'
BY DEF LedgerTypeOK, Types, LockOK, Work

\* One step of one process.
Acts(p) == Call(p) \/ Poll(p) \/ Step(p) \/ ProjectFails(p) \/ Fails(p) \/ Crash(p)

\* The steps that move only their process, at most between places without the lock.
Walks(p) == Poll(p) \/ NothingToDrain(p) \/ LosesRace(p) \/ ProjectFails(p) \/ Look(p)

\* The steps that end in an error.
Throws(p) ==
  \/ VerifyRefuses(p) \/ ReconcileAlarms(p) \/ WitnessChanged(p) \/ LookAlarms(p)
  \/ StoreRefused(p) \/ Fails(p)

LEMMA WalksIs ==
  ASSUME LedgerTypeOK, NEW p \in Procs, Walks(p)
  PROVE  /\ Others(p)
         /\ \/ Poll(p) \/ NothingToDrain(p) \/ Look(p)
            \/ /\ Same(p) /\ work[p].at = "lock" /\ work'[p].at \in {"verify", "spool"}
            \/ /\ Same(p) /\ work[p].at = "project" /\ work'[p].at = "commit"
         /\ faults' \in 0 .. MaxFaults
         /\ UNCHANGED <<db, tx, writer, anchor, intents, orphans, archive, projection, spool, ingests,
                        witness, told, made>>
<1>1. faults \in 0 .. MaxFaults /\ MaxFaults \in Nat
  BY LedgerConstants DEF LedgerTypeOK
<1>2. CASE Poll(p)
  BY <1>1, <1>2, PollIs, Zenon DEF Poll, stored, head, logs, lines, calls
<1>3. CASE NothingToDrain(p)
  BY <1>1, <1>3, NothingToDrainIs, Zenon DEF NothingToDrain, stored, head, logs, lines, calls
<1>4. CASE LosesRace(p)
  <2>1. PICK place \in {"verify", "spool"} : GoTo(p, place)
    BY <1>4 DEF LosesRace
  <2>2. Others(p) /\ Same(p) /\ work'[p].at = place
    BY <2>1, GoToIs, TypeWork DEF Places
  <2> QED
    BY <1>1, <1>4, <2>1, <2>2, Zenon DEF LosesRace, At, stored, head, logs, lines, calls
<1>5. CASE ProjectFails(p)
  <2>1. Others(p) /\ Same(p) /\ work'[p].at = "commit"
    BY <1>5, GoToIs, TypeWork DEF ProjectFails, Places
  <2>2. faults' \in 0 .. MaxFaults
    BY <1>1, <1>5 DEF ProjectFails
  <2> QED
    BY <1>5, <2>1, <2>2, Zenon DEF ProjectFails, At, stored, head, logs, lines, calls
<1>6. CASE Look(p)
  BY <1>1, <1>6, LookIs, Zenon
<1> QED
  BY <1>2, <1>3, <1>4, <1>5, <1>6 DEF Walks

LEMMA ThrowsIs ==
  ASSUME LedgerTypeOK, NEW p \in Procs, Throws(p)
  PROVE  /\ Throw(p) /\ faults' \in 0 .. MaxFaults
         /\ work[p].at \in Locked \cup {"drain", "verify", "lock", "look", "store", "inspect", "heal"}
         /\ UNCHANGED <<anchor, intents, orphans, archive, projection, spool, ingests, told, made>>
<1>1. faults \in 0 .. MaxFaults /\ MaxFaults \in Nat
  BY LedgerConstants DEF LedgerTypeOK
<1>2. CASE Fails(p)
  <2>1. faults' \in 0 .. MaxFaults
    BY <1>1, <1>2 DEF Fails
  <2> QED
    BY <1>2, <2>1 DEF Fails, head, logs, lines, calls, Locked
<1>3. CASE ~Fails(p)
  BY <1>1, <1>3 DEF Throws, VerifyRefuses, ReconcileAlarms, WitnessChanged, LookAlarms, StoreRefused,
                    At, Locked, head, logs, lines, calls
<1> QED
  BY <1>2, <1>3

\* The witness is renewed, or the lock is taken with it.
LEMMA VerifyPassesIs ==
  ASSUME LedgerTypeOK, NEW p \in Procs, VerifyPasses(p)
  PROVE  /\ Others(p) /\ Same(p) /\ work[p].at = "verify" /\ work'[p].at = "lock"
         /\ spool = << >> /\ ingests = {} /\ witness' = witness \cup {p}
         /\ UNCHANGED <<db, tx, writer, anchor, intents, orphans, archive, projection, spool, ingests,
                        told, made, faults>>
<1>1. Others(p) /\ Same(p) /\ work'[p].at = "lock"
  BY GoToIs, TypeWork DEF VerifyPasses, Places
<1> QED
  BY <1>1, Zenon DEF VerifyPasses, Verifies, At, stored, head, logs, lines, calls

LEMMA LockIs ==
  ASSUME LedgerTypeOK, NEW p \in Procs, Lock(p)
  PROVE  /\ Others(p) /\ Same(p) /\ work[p].at = "lock" /\ work'[p].at = "reconcile"
         /\ writer = Nobody /\ writer' = p
         /\ UNCHANGED <<db, tx, anchor, intents, orphans, archive, projection, spool, ingests,
                        witness, told, made, faults>>
<1>1. Others(p) /\ Same(p) /\ work'[p].at = "reconcile"
  BY GoToIs, TypeWork DEF Lock, Places
<1> QED
  BY <1>1, Zenon DEF Lock, At, head, logs, lines, calls

LEMMA WriteIntentIs ==
  ASSUME LedgerTypeOK, NEW p \in Procs, WriteIntent(p)
  PROVE  /\ Others(p) /\ Same(p) /\ work[p].at = "intent" /\ work'[p].at = "anchor"
         /\ work'[p].fork = work[p].fork
         /\ intents' \in [Procs -> Chains] /\ intents'[p] = tx.chain
         /\ \A q \in Procs : q # p => intents'[q] = intents[q]
         /\ UNCHANGED <<db, tx, writer, anchor, orphans, archive, projection, spool, ingests, witness,
                        told, made, faults>>
<1>1. Others(p) /\ Same(p) /\ work'[p].at = "anchor" /\ work'[p].fork = work[p].fork
  BY GoToIs, TypeWork DEF WriteIntent, Places
<1>2. /\ intents' \in [Procs -> Chains] /\ intents'[p] = tx.chain
      /\ \A q \in Procs : q # p => intents'[q] = intents[q]
  <2>1. intents \in [Procs -> Chains] /\ tx.chain \in Chains
    BY DEF LedgerTypeOK, Ledgers
  <2> QED
    BY <2>1 DEF WriteIntent
<1> QED
  BY <1>1, <1>2, Zenon DEF WriteIntent, At, stored, logs, lines, calls

LEMMA RebuildIs ==
  ASSUME LedgerTypeOK, NEW p \in Procs, Rebuild(p)
  PROVE  /\ Others(p) /\ Same(p) /\ work[p].at = "rebuild" /\ work'[p].at = "commit"
         /\ projection' = Exactly(tx) /\ witness' \subseteq witness
         /\ UNCHANGED <<db, tx, writer, anchor, intents, orphans, archive, spool, ingests, told,
                        made, faults>>
<1>1. Others(p) /\ Same(p) /\ work'[p].at = "commit"
  BY GoToIs, TypeWork DEF Rebuild, Places
<1>2. witness' \subseteq witness
  BY DEF Rebuild, OnlyOwn
<1> QED
  BY <1>1, <1>2, Zenon DEF Rebuild, At, stored, head, lines, calls

-----------------------------------------------------------------------------
(* Types are kept *)

LEMMA ExactlyType == \A l \in Ledgers : Exactly(l) \in [from : Nat, chain : Chains]
BY DEF Ledgers, Exactly

LEMMA TypesStep ==
  ASSUME LedgerInv, NEW p \in Procs, Acts(p)
  PROVE  Types'
<1> USE DEF Types
<1>0. LedgerTypeOK /\ Types /\ WorkOK /\ TxOK /\ ArchiveOK /\ << >> \in Chains /\ Appends(p)
  BY TypeParts DEF LedgerInv, TxOK, Chains
<1>1. CASE Call(p)
  <2>1. Others(p) /\ made' \in 0 .. MaxEvents
    BY <1>0, <1>1, CallIs, LedgerConstants
  <2>2. UNCHANGED <<db, tx, writer, anchor, intents, orphans, archive, projection, spool, ingests,
                    witness, told, faults>>
    BY <1>1 DEF Call, stored, head, logs, lines
  <2> QED
    BY <1>0, <2>1, <2>2 DEF Others
<1>2. CASE Walks(p)
  BY <1>0, <1>2, WalksIs DEF Others
<1>3. CASE Throws(p)
  BY <1>0, <1>3, ThrowsIs, ThrowIs DEF Others
<1>4. CASE TakeSpool(p)
  BY <1>0, <1>4, TakeSpoolIs DEF Others
<1>5. CASE Drain(p)
  <2>1. db' \in Ledgers /\ db' = tx'
    BY <1>0, <1>5, DrainIs, DrainedIs
  <2> QED
    BY <1>0, <1>5, <2>1, DrainIs DEF Others
<1>6. CASE Unlink(p)
  BY <1>0, <1>6, UnlinkIs DEF Others
<1>7. CASE VerifyPasses(p)
  BY <1>0, <1>7, VerifyPassesIs DEF Others
<1>8. CASE Lock(p)
  BY <1>0, <1>8, LockIs DEF Others
<1>9. CASE Reconcile(p)
  <2>1. tx = db
    BY <1>0, <1>9 DEF Appends, Reconcile, At
  <2>2. anchor' \in Chains /\ intents' \in [Procs -> Chains] /\ orphans' \subseteq Chains
    BY <1>0, <1>9, <2>1, ReconcileIs DEF Reconciles, Fewer, Ledgers
  <2> QED
    BY <1>0, <1>9, <2>1, <2>2, ReconcileIs DEF Others
<1>10. CASE AppendRecords(p)
  BY <1>0, <1>10, AppendRecordsIs DEF Others
<1>11. CASE WriteIntent(p)
  BY <1>0, <1>11, WriteIntentIs DEF Others
<1>12. CASE StoreAnchor(p)
  BY <1>0, <1>12, StoreAnchorIs DEF Others, Fewer, Ledgers
<1>13. CASE Project(p)
  BY <1>0, <1>13, ProjectIs, ExactlyType DEF Others
<1>14. CASE Archive(p)
  BY <1>0, <1>14, ArchiveIs DEF Others
<1>15. CASE Rebuild(p)
  BY <1>0, <1>15, RebuildIs, ExactlyType DEF Others
<1>16. CASE Commit(p)
  BY <1>0, <1>16, CommitIs DEF Others
<1>17. CASE ClearIntent(p)
  BY <1>0, <1>17, ClearIntentIs DEF Others, Fewer
<1>18. CASE Spool(p)
  <2>1. spool' \in Chains
    <3>1. work[p].items \in Seq(Events) /\ spool \in Seq(Events)
      BY <1>0 DEF Chains, Work
    <3>2. spool \o work[p].items \in Seq(Events)
      BY <3>1, AppendedIs
    <3> QED
      BY <1>0, <1>18, <3>2, SpoolIs, Zenon DEF Chains
  <2> QED
    BY <1>0, <1>18, <2>1, SpoolIs DEF Others
<1>19. CASE Inspect(p)
  BY <1>0, <1>19, InspectIs DEF Others, Reconciles, Fewer, Ledgers
<1>20. CASE Heal(p)
  BY <1>0, <1>20, HealIs DEF Others
<1>21. CASE Crash(p)
  <2>1. faults' \in 0 .. MaxFaults
    BY <1>0, <1>21, CrashIs, LedgerConstants
  <2>2. orphans' \subseteq Chains
    BY <1>0, <1>21, CrashIs
  <2> QED
    BY <1>0, <1>21, <2>1, <2>2, CrashIs DEF Others
<1>22. CASE StoreSeen(p)
  <2>1. anchor' \in Chains
    BY <1>0, <1>22, StoreSeenIs DEF Work
  <2> QED
    BY <1>0, <1>22, <2>1, StoreSeenIs DEF Others
<1>23. CASE ForkConsumed(p)
  BY <1>0, <1>23, ForkConsumedIs DEF Others, Fewer
<1> QED
  BY <1>1, <1>2, <1>3, <1>4, <1>5, <1>6, <1>7, <1>8, <1>9, <1>10, <1>11, <1>12, <1>13, <1>14, <1>15,
     <1>16, <1>17, <1>18, <1>19, <1>20, <1>21, <1>22, <1>23, Zenon DEF Acts, Step, Walks, Throws

LEMMA LockFrame ==
  ASSUME LockOK, NEW p \in Procs, Others(p), work'[p].at \in Locked <=> writer' = p,
         \A q \in Procs : q # p => (writer' = q <=> writer = q),
         writer' = Nobody => tx' = db'
  PROVE  LockOK'
BY DEF LockOK, Others, Alike

LEMMA LockStep ==
  ASSUME LedgerInv, NEW p \in Procs, Acts(p)
  PROVE  LockOK'
<1> USE DEF Locked
<1>0. /\ LedgerTypeOK /\ LockOK /\ Nobody \notin Procs /\ Appends(p) /\ WorkOK /\ TxOK /\ ArchiveOK
      /\ work[p].at \in Locked <=> writer = p
      /\ writer = Nobody => tx = db
  BY TypeParts, LedgerConstants DEF LedgerInv, TxOK, LockOK
<1>1. CASE Call(p)
  <2>1. UNCHANGED <<db, tx, writer>>
    BY <1>1 DEF Call, stored
  <2> QED
    BY <1>0, <1>1, <2>1, CallIs, LockFrame
<1>2. CASE Walks(p)
  <2>1. work'[p].at \in Locked <=> work[p].at \in Locked
    <3>1. CASE Poll(p)
      BY <1>0, <3>1, PollIs
    <3>2. CASE NothingToDrain(p)
      BY <1>0, <3>2, NothingToDrainIs DEF Prepares
    <3>3. CASE Look(p)
      BY <1>0, <3>3, LookIs DEF Goes
    <3>4. CASE ~Poll(p) /\ ~NothingToDrain(p) /\ ~Look(p)
      BY <1>0, <1>2, <3>4, WalksIs
    <3> QED
      BY <3>1, <3>2, <3>3, <3>4
  <2> QED
    BY <1>0, <1>2, <2>1, WalksIs, LockFrame
<1>3. CASE Throws(p)
  <2>1. Throw(p)
    BY <1>0, <1>3, ThrowsIs
  <2>2. /\ Others(p) /\ work'[p].at \in {"spool", "idle"}
        /\ writer = p => tx' = db /\ writer' = Nobody
        /\ writer # p => tx' = tx /\ writer' = writer
        /\ db' = db
    BY <1>0, <2>1, ThrowIs
  <2> QED
    BY <1>0, <2>2, LockFrame
<1>4. CASE TakeSpool(p)
  BY <1>0, <1>4, TakeSpoolIs, LockFrame DEF Prepares
<1>5. CASE Drain(p)
  BY <1>0, <1>5, DrainIs, LockFrame
<1>6. CASE Unlink(p)
  BY <1>0, <1>6, UnlinkIs, LockFrame DEF Prepares
<1>7. CASE VerifyPasses(p)
  BY <1>0, <1>7, VerifyPassesIs, LockFrame
<1>8. CASE Lock(p)
  BY <1>0, <1>8, LockIs, LockFrame
<1>9. CASE Reconcile(p)
  <2>1. tx = db
    BY <1>9 , <1>0 DEF Appends, Reconcile, At
  <2> QED
    BY <1>0, <1>9, <2>1, ReconcileIs, LockFrame
<1>10. CASE AppendRecords(p)
  <2>1. /\ Others(p) /\ work[p].at = "append" /\ writer' = writer
        /\ work'[p].at = IF work'[p].anchored THEN "intent" ELSE "project"
    BY <1>0, <1>10, AppendRecordsIs, Zenon
  <2>2. work'[p].at \in Locked /\ writer = p /\ writer' = p /\ writer' # Nobody
    BY <1>0, <2>1
  <2> QED
    BY <1>0, <2>1, <2>2, LockFrame
<1>11. CASE WriteIntent(p)
  BY <1>0, <1>11, WriteIntentIs, LockFrame
<1>12. CASE StoreAnchor(p)
  BY <1>0, <1>12, StoreAnchorIs, LockFrame
<1>13. CASE Project(p)
  BY <1>0, <1>13, ProjectIs, LockFrame
<1>14. CASE Archive(p)
  BY <1>0, <1>14, ArchiveIs, LockFrame
<1>15. CASE Rebuild(p)
  BY <1>0, <1>15, RebuildIs, LockFrame
<1>16. CASE Commit(p)
  BY <1>0, <1>16, CommitIs, LockFrame
<1>17. CASE ClearIntent(p)
  BY <1>0, <1>17, ClearIntentIs, LockFrame, RestingIs
<1>18. CASE Spool(p)
  BY <1>0, <1>18, SpoolIs, LockFrame, RestingIs
<1>19. CASE Inspect(p)
  BY <1>0, <1>19, InspectIs, LockFrame
<1>20. CASE Heal(p)
  BY <1>0, <1>20, HealIs, LockFrame
<1>21. CASE Crash(p)
  BY <1>0, <1>21, CrashIs, LockFrame, RestingIs
<1>22. CASE StoreSeen(p)
  BY <1>0, <1>22, StoreSeenIs, LockFrame DEF Goes
<1>23. CASE ForkConsumed(p)
  BY <1>0, <1>23, ForkConsumedIs, LockFrame DEF Goes
<1> QED
  BY <1>1, <1>2, <1>3, <1>4, <1>5, <1>6, <1>7, <1>8, <1>9, <1>10, <1>11, <1>12, <1>13, <1>14, <1>15,
     <1>16, <1>17, <1>18, <1>19, <1>20, <1>21, <1>22, <1>23, Zenon DEF Acts, Step, Walks, Throws

-----------------------------------------------------------------------------
(* What the processes are doing *)

LEMMA WorkFrame ==
  ASSUME WorkOK, NEW p \in Procs, Others(p), Carries(p)', Decides(p)'
  PROVE  WorkOK'
<1> SUFFICES ASSUME NEW q \in Procs, q # p PROVE Carries(q)' /\ Decides(q)'
  BY DEF WorkOK
<1>1. Alike(q) /\ Carries(q) /\ Decides(q)
  BY DEF WorkOK, Others
<1> QED
  BY <1>1 DEF Alike, Carries, Decides, Recording, Busy

\* A process that carries nothing and has decided nothing.
LEMMA EmptyWork ==
  ASSUME NEW p, Empty(work'[p]), work'[p].at \in {"idle", "clear", "prepare", "heal"},
         work'[p].at \notin {"prepare", "heal"} \/ work'[p].kind \notin {"record", "required"}
  PROVE  Carries(p)' /\ Decides(p)'
<1>1. work'[p].items = << >> /\ ~work'[p].roll /\ ~work'[p].anchored /\ MaxTogether \in Nat
  BY LedgerConstants DEF Empty
<1>2. Len(work'[p].items) <= MaxTogether
  BY <1>1
<1> QED
  BY <1>1, <1>2 DEF Carries, Decides, Recording, Busy

LEMMA WorkStep ==
  ASSUME LedgerInv, NEW p \in Procs, Acts(p)
  PROVE  WorkOK'
<1> USE DEF Carries, Decides, Recording, Busy, Appending
<1>0. LedgerTypeOK /\ WorkOK /\ TxOK /\ ArchiveOK /\ Carries(p) /\ Decides(p) /\ Appends(p)
  BY DEF LedgerInv, TxOK, WorkOK
<1>1. CASE Call(p)
  BY <1>0, <1>1, CallIs, WorkFrame
<1>2. CASE Walks(p)
  <2>1. CASE Poll(p)
    BY <1>0, <2>1, PollIs, EmptyWork, WorkFrame DEF Empty
  <2>2. CASE NothingToDrain(p)
    BY <1>0, <2>2, NothingToDrainIs, WorkFrame DEF Same, Prepares
  <2>3. CASE LosesRace(p) \/ ProjectFails(p)
    <3>1. ~Poll(p) /\ ~NothingToDrain(p) /\ ~Look(p)
      BY <2>3 DEF Poll, NothingToDrain, LosesRace, ProjectFails, Look, At
    <3> QED
      BY <1>0, <1>2, <3>1, WalksIs, WorkFrame DEF Same
  <2>4. CASE Look(p)
    <3>1. Others(p) /\ work[p].at = "look"
      BY <1>0, <2>4, LookIs
    <3>2. CASE Goes(p)
      BY <1>0, <3>1, <3>2, EmptyWork, WorkFrame DEF Goes
    <3>3. CASE ~Goes(p)
      BY <1>0, <2>4, <3>1, <3>3, LookIs, WorkFrame DEF Same
    <3> QED
      BY <3>2, <3>3
  <2> QED
    BY <1>2, <2>1, <2>2, <2>3, <2>4 DEF Walks
<1>3. CASE Throws(p)
  <2>1. /\ Throw(p)
        /\ work[p].at \in Locked \cup {"drain", "verify", "lock", "look", "store", "inspect", "heal"}
    BY <1>0, <1>3, ThrowsIs
  <2> QED
    BY <1>0, <2>1, ThrowIs, WorkFrame DEF Locked
<1>4. CASE TakeSpool(p)
  BY <1>0, <1>4, TakeSpoolIs, WorkFrame DEF Prepares, Same
<1>5. CASE Drain(p)
  BY <1>0, <1>5, DrainIs, WorkFrame DEF Same
<1>6. CASE Unlink(p)
  BY <1>0, <1>6, UnlinkIs, WorkFrame DEF Prepares, Same
<1>7. CASE VerifyPasses(p)
  BY <1>0, <1>7, VerifyPassesIs, WorkFrame DEF Same
<1>8. CASE Lock(p)
  BY <1>0, <1>8, LockIs, WorkFrame DEF Same
<1>9. CASE Reconcile(p)
  <2>1. tx = db
    BY <1>9 , <1>0 DEF Appends, Reconcile, At
  <2> QED
    BY <1>0, <1>9, <2>1, ReconcileIs, WorkFrame DEF Same
<1>10. CASE AppendRecords(p)
  BY <1>0, <1>10, AppendRecordsIs, WorkFrame
<1>11. CASE WriteIntent(p)
  BY <1>0, <1>11, WriteIntentIs, WorkFrame DEF Same
<1>12. CASE StoreAnchor(p)
  BY <1>0, <1>12, StoreAnchorIs, WorkFrame DEF Same
<1>13. CASE Project(p)
  BY <1>0, <1>13, ProjectIs, WorkFrame DEF Same
<1>14. CASE Archive(p)
  BY <1>0, <1>14, ArchiveIs, WorkFrame DEF Same
<1>15. CASE Rebuild(p)
  BY <1>0, <1>15, RebuildIs, WorkFrame DEF Same
<1>16. CASE Commit(p)
  BY <1>0, <1>16, CommitIs, WorkFrame, EmptyWork
<1>17. CASE ClearIntent(p)
  BY <1>0, <1>17, ClearIntentIs, WorkFrame, EmptyWork, RestingIs
<1>18. CASE Spool(p)
  BY <1>0, <1>18, SpoolIs, WorkFrame, EmptyWork, RestingIs
<1>19. CASE Inspect(p)
  BY <1>0, <1>19, InspectIs, WorkFrame, EmptyWork
<1>20. CASE Heal(p)
  BY <1>0, <1>20, HealIs, WorkFrame DEF Same
<1>21. CASE Crash(p)
  BY <1>0, <1>21, CrashIs, WorkFrame, EmptyWork, RestingIs
<1>22. CASE StoreSeen(p)
  <2>1. Others(p) /\ work[p].at = "store"
    BY <1>0, <1>22, StoreSeenIs
  <2>2. CASE Goes(p)
    BY <1>0, <2>1, <2>2, EmptyWork, WorkFrame DEF Goes
  <2>3. CASE ~Goes(p)
    BY <1>0, <1>22, <2>1, <2>3, StoreSeenIs, WorkFrame DEF Same
  <2> QED
    BY <2>2, <2>3
<1>23. CASE ForkConsumed(p)
  BY <1>0, <1>23, ForkConsumedIs, EmptyWork, WorkFrame DEF Goes
<1> QED
  BY <1>1, <1>2, <1>3, <1>4, <1>5, <1>6, <1>7, <1>8, <1>9, <1>10, <1>11, <1>12, <1>13, <1>14, <1>15,
     <1>16, <1>17, <1>18, <1>19, <1>20, <1>21, <1>22, <1>23, Zenon DEF Acts, Step, Walks, Throws

-----------------------------------------------------------------------------
(* The open transaction *)

\* The steps that only the lock allows, or only when nobody has it.
Locks(p) ==
  \/ Drain(p) \/ Lock(p) \/ Reconcile(p) \/ AppendRecords(p) \/ WriteIntent(p) \/ StoreAnchor(p)
  \/ Project(p) \/ Archive(p) \/ Rebuild(p) \/ ProjectFails(p) \/ Commit(p) \/ Inspect(p) \/ Heal(p)

LEMMA LocksIs ==
  ASSUME LedgerTypeOK, NEW p \in Procs, Locks(p)
  PROVE  writer \in {p, Nobody}
<1>1. LockOK
  BY TypeParts
<1>2. CASE Drain(p) \/ Lock(p) \/ Inspect(p) \/ Heal(p)
  BY <1>2 DEF Drain, Lock, Inspect, Heal
<1>3. CASE ~(Drain(p) \/ Lock(p) \/ Inspect(p) \/ Heal(p))
  <2>1. work[p].at \in Locked
    BY <1>3 DEF Locks, Reconcile, AppendRecords, WriteIntent, StoreAnchor, Project, Archive, Rebuild,
                ProjectFails, Commit, At, Locked
  <2> QED
    BY <1>1, <2>1 DEF LockOK
<1> QED
  BY <1>2, <1>3

LEMMA OthersMove == ASSUME LedgerInv, NEW p \in Procs, Acts(p) PROVE Others(p)
<1>0. LedgerTypeOK /\ WorkOK /\ TxOK /\ ArchiveOK
  BY DEF LedgerInv
<1>1. CASE Reconcile(p)
  BY <1>0, <1>1, ReconcileIs DEF TxOK, Appends, Reconcile, At
<1>2. CASE Throws(p)
  BY <1>0, <1>2, ThrowsIs, ThrowIs
<1>3. CASE Archive(p)
  BY <1>0, <1>3, ArchiveIs
<1>4. CASE Call(p) \/ Walks(p) \/ TakeSpool(p) \/ Drain(p) \/ Unlink(p) \/ VerifyPasses(p) \/ Lock(p)
  BY <1>0, <1>4, CallIs, WalksIs, TakeSpoolIs, DrainIs, UnlinkIs, VerifyPassesIs, LockIs, Zenon
<1>5. CASE AppendRecords(p) \/ WriteIntent(p) \/ StoreAnchor(p) \/ Project(p) \/ Rebuild(p) \/ Commit(p)
  BY <1>0, <1>5, AppendRecordsIs, WriteIntentIs, StoreAnchorIs, ProjectIs, RebuildIs, CommitIs, Zenon
<1>6. CASE ClearIntent(p) \/ Spool(p) \/ Inspect(p) \/ Heal(p) \/ Crash(p)
  BY <1>0, <1>6, ClearIntentIs, SpoolIs, InspectIs, HealIs, CrashIs, Zenon
<1>7. CASE StoreSeen(p) \/ ForkConsumed(p)
  BY <1>0, <1>7, StoreSeenIs, ForkConsumedIs, Zenon
<1> QED
  BY <1>1, <1>2, <1>3, <1>4, <1>5, <1>6, <1>7, Zenon DEF Acts, Step, Walks, Throws

\* Nobody but the process that holds the lock touches the database.  The anchor
\* is only touched by one that has read shorter rows, and the intent only removed.
LEMMA OnlyTheWriter ==
  ASSUME LedgerInv, NEW p \in Procs, Acts(p), NEW q \in Procs, q # p, work[q].at \in Locked
  PROVE  /\ UNCHANGED <<db, tx, writer>> /\ Alike(q) /\ ~Locks(p)
         /\ anchor' = anchor \/ (StoreSeen(p) /\ Takes(p) /\ anchor' = work[p].row)
         /\ intents'[q] \in {intents[q], << >>}
<1>0. LedgerTypeOK /\ writer = q /\ Nobody # q /\ ~Locks(p) /\ Alike(q)
  BY TypeParts, LocksIs, OthersMove, LedgerConstants DEF LedgerInv, LockOK, Others
<1>1. CASE Call(p)
  BY <1>0, <1>1 DEF Call, stored, head
<1>2. CASE Walks(p)
  BY <1>0, <1>2, WalksIs
<1>3. CASE Throws(p)
  BY <1>0, <1>3, ThrowsIs, ThrowIs
<1>4. CASE TakeSpool(p) \/ Unlink(p) \/ VerifyPasses(p)
  BY <1>0, <1>4, TakeSpoolIs, UnlinkIs, VerifyPassesIs
<1>5. CASE ClearIntent(p) \/ Spool(p) \/ Crash(p)
  BY <1>0, <1>5, ClearIntentIs, SpoolIs, CrashIs
<1>6. CASE StoreSeen(p)
  BY <1>0, <1>6, StoreSeenIs
<1>7. CASE ForkConsumed(p)
  BY <1>0, <1>7, ForkConsumedIs DEF Fewer
<1> QED
  BY <1>0, <1>1, <1>2, <1>3, <1>4, <1>5, <1>6, <1>7, Zenon DEF Acts, Step, Walks, Throws, Locks

\* After any other step its process does not hold the lock.
LEMMA Leaving ==
  ASSUME LedgerInv, NEW p \in Procs, Acts(p), work'[p].at \in Locked
  PROVE  \/ Lock(p) \/ Reconcile(p) \/ AppendRecords(p) \/ WriteIntent(p) \/ StoreAnchor(p)
         \/ Project(p) \/ Archive(p) \/ Rebuild(p) \/ ProjectFails(p) \/ Heal(p)
<1> USE DEF Locked
<1>0. LedgerTypeOK
  BY DEF LedgerInv
<1>1. CASE Call(p) \/ Drain(p) \/ VerifyPasses(p) \/ Commit(p) \/ Inspect(p)
  BY <1>0, <1>1, CallIs, DrainIs, VerifyPassesIs, CommitIs, InspectIs
<1>2. CASE TakeSpool(p) \/ Unlink(p) \/ NothingToDrain(p) \/ Poll(p)
  BY <1>0, <1>2, TakeSpoolIs, UnlinkIs, NothingToDrainIs, PollIs DEF Prepares
<1>6. CASE Look(p) \/ StoreSeen(p) \/ ForkConsumed(p)
  BY <1>0, <1>6, LookIs, StoreSeenIs, ForkConsumedIs DEF Goes
<1>3. CASE Throws(p)
  BY <1>0, <1>3, ThrowsIs, ThrowIs
<1>4. CASE ClearIntent(p) \/ Spool(p) \/ Crash(p)
  BY <1>0, <1>4, ClearIntentIs, SpoolIs, CrashIs, RestingIs
<1>5. CASE LosesRace(p)
  <2>1. Walks(p) /\ work[p].at = "lock"
    BY <1>5 DEF Walks, LosesRace, At
  <2> QED
    BY <1>0, <1>5, <2>1, WalksIs, <1>2, <1>6
<1> QED
  BY <1>1, <1>2, <1>3, <1>4, <1>5, <1>6, Zenon DEF Acts, Step, Throws

LEMMA TxStep ==
  ASSUME LedgerInv, NEW p \in Procs, Acts(p)
  PROVE  TxOK'
<1>0. /\ LedgerTypeOK /\ WorkOK /\ TxOK /\ ArchiveOK /\ LockOK /\ WorkOK' /\ LockOK' /\ Others(p)
      /\ db \in Ledgers /\ tx \in Ledgers
  BY TypeParts, WorkStep, LockStep, OthersMove DEF LedgerInv, Types
<1> SUFFICES ASSUME NEW q \in Procs PROVE Appends(q)' /\ Leaves(q)' /\ Names(q)'
  BY DEF TxOK
<1>1. CASE work'[q].at \notin Locked
  <2>1. work'[q].at \notin Appending /\ ~work'[q].roll /\ ~work'[q].anchored
    BY <1>0, <1>1 DEF WorkOK, Decides, Appending, Locked
  <2> QED
    BY <1>1, <2>1 DEF Appends, Leaves, Names, Locked, Appending
<1>2. CASE work'[q].at \in Locked /\ q # p
  <2>1. Alike(q) /\ work[q].at \in Locked
    BY <1>0, <1>2 DEF Others, Alike
  <2>2. /\ UNCHANGED <<db, tx>>
        /\ anchor' = anchor \/ (StoreSeen(p) /\ Takes(p) /\ anchor' = work[p].row)
    BY <1>2, <2>1, OnlyTheWriter
  <2>3. Appends(q) /\ Leaves(q) /\ Names(q) /\ Carries(q) /\ Decides(q)
    BY <1>0 DEF TxOK, WorkOK
  <2>4. Names(q)'
    <3>1. CASE anchor' = anchor
      BY <2>1, <2>2, <2>3, <3>1 DEF Names, Alike
    <3>2. CASE StoreSeen(p) /\ Takes(p)
      <4>1. Extends(db.chain, work[p].row)
        BY <3>2 DEF LedgerInv, SeenOK, Seen, StoreSeen, At
      <4>2. ~(Len(db.chain) < Len(anchor))
        <5>1. work[p].row \in Chains /\ db.chain \in Chains /\ anchor \in Chains
          BY <1>0, TypeWork DEF Work, Ledgers, LedgerTypeOK
        <5> QED
          BY <3>2, <4>1, <5>1 DEF Takes, Extends, Chains
      <4> SUFFICES ASSUME work[q].anchored, work[q].at \in {"project", "archive", "rebuild", "commit"}
                   PROVE  FALSE
        BY <2>1 DEF Names, Alike
      <4>3. anchor = tx.chain /\ tx.chain = db.chain \o work[q].items
        BY <2>3 DEF Names, Appends, Appending
      <4>4. work[q].items \in Seq(Events) /\ db.chain \in Seq(Events)
        BY <1>0, TypeWork DEF Work, Ledgers, Chains
      <4>5. Len(work[q].items) # 0
        BY <2>3, <4>4 DEF Carries, Decides, Busy
      <4>6. Len(db.chain \o work[q].items) = Len(db.chain) + Len(work[q].items)
        BY <4>4, AppendedIs
      <4>7. Len(work[q].items) \in Nat /\ Len(db.chain) \in Nat
        BY <4>4
      <4>8. Len(anchor) = Len(db.chain) + Len(work[q].items)
        BY <4>3, <4>6
      <4>9. Len(db.chain) < Len(db.chain) + Len(work[q].items)
        <5>1. \A a, b \in Nat : b # 0 => a < a + b
          OBVIOUS
        <5> QED
          BY <4>5, <4>7, <5>1, Zenon
      <4> QED
        BY <4>2, <4>8, <4>9
    <3> QED
      BY <2>2, <3>1, <3>2
  <2> QED
    BY <2>1, <2>2, <2>3, <2>4 DEF Appends, Leaves, Alike
<1>3. CASE work'[q].at \in Locked /\ q = p
  <2>0. /\ Appends(p) /\ Leaves(p) /\ Names(p) /\ Carries(p) /\ Decides(p)
        /\ writer' = p /\ p # Nobody /\ work'[p].at \in Locked
    BY <1>0, <1>3, LedgerConstants DEF TxOK, WorkOK, LockOK
  <2> SUFFICES Appends(p)' /\ Leaves(p)' /\ Names(p)'
    BY <1>3
  <2> USE DEF Appending
  <2>1. CASE Lock(p)
    <3>1. tx = db /\ UNCHANGED <<db, tx>> /\ work'[p].at = "reconcile" /\ ~work'[p].roll
      BY <1>0, <2>0, <2>1, LockIs DEF LockOK, Same, Decides
    <3> QED
      BY <3>1, <2>0 DEF Appends, Leaves, Names
  <2>2. CASE Reconcile(p)
    <3>1. tx = db
      BY <2>0, <2>2 DEF Appends, Reconcile, At
    <3>2. UNCHANGED <<db, tx>> /\ work'[p].at = "append" /\ ~work'[p].roll
      BY <1>0, <2>0, <2>2, <3>1, ReconcileIs DEF Same, Decides
    <3> QED
      BY <3>1, <3>2 DEF Appends, Leaves, Names
  <2>3. CASE AppendRecords(p)
    <3>1. /\ work[p].at = "append" /\ tx = db /\ UNCHANGED <<db>>
          /\ work'[p].items = work[p].items
          /\ work'[p].at = IF work'[p].anchored THEN "intent" ELSE "project"
          /\ work'[p].roll => Rolls(tx, Len(work[p].items))
          /\ tx'.chain = tx.chain \o work[p].items /\ tx'.boundary = tx.boundary
      BY <1>0, <2>0, <2>3, AppendRecordsIs DEF Appends
    <3>2. Len(tx'.chain) = Len(tx.chain) + Len(work[p].items)
      <4>1. work[p].items \in Seq(Events) /\ tx.chain \in Seq(Events)
        BY <1>0, TypeWork DEF Ledgers, Work, Chains
      <4> QED
        BY <3>1, <4>1, AppendedIs
    <3>3. work'[p].roll => Len(tx'.chain) - tx'.boundary > Window
      <4>1. Window \in Nat /\ Slack \in Nat /\ tx.boundary \in Nat /\ Len(tx.chain) \in Nat
            /\ Len(work[p].items) \in Nat
        BY <1>0, TypeWork, LedgerConstants DEF Ledgers, Work, Chains
      <4>2. work'[p].roll => Len(tx.chain) + Len(work[p].items) - tx.boundary > Window + Slack
        BY <3>1, Zenon DEF Rolls
      <4>3. tx'.boundary = tx.boundary
        BY <3>1
      <4>4. \A a, b, c, w, t \in Nat : a + b - c > w + t => (a + b) - c > w
        OBVIOUS
      <4> QED
        BY <3>2, <4>1, <4>2, <4>3, <4>4, Zenon
    <3> QED
      BY <3>1, <3>3 DEF Appends, Leaves, Names
  <2>4. CASE WriteIntent(p)
    <3>1. /\ UNCHANGED <<db, tx>> /\ work[p].at = "intent" /\ work'[p].at = "anchor" /\ Same(p)
      BY <1>0, <2>4, WriteIntentIs
    <3> QED
      BY <2>0, <3>1 DEF Appends, Leaves, Names, Same
  <2>5. CASE StoreAnchor(p)
    <3>1. /\ UNCHANGED <<db, tx>> /\ work[p].at = "anchor" /\ work'[p].at = "project" /\ Same(p)
          /\ anchor' = tx.chain
      BY <1>0, <2>5, StoreAnchorIs
    <3> QED
      BY <2>0, <3>1 DEF Appends, Leaves, Names, Same
  <2>6. CASE Project(p)
    <3>1. /\ UNCHANGED <<db, anchor>> /\ work[p].at = "project" /\ Same(p)
          /\ work'[p].at = IF work[p].roll THEN "archive" ELSE "commit"
          /\ tx'.chain = tx.chain /\ tx'.boundary = tx.boundary
      BY <1>0, <2>6, ProjectIs
    <3> QED
      BY <2>0, <3>1 DEF Appends, Leaves, Names, Same
  <2>7. CASE Archive(p)
    <3>1. /\ UNCHANGED <<db, anchor>> /\ work[p].at = "archive" /\ Same(p) /\ work[p].roll
          /\ work'[p].at \in {"archive", "rebuild"}
          /\ tx'.chain = tx.chain /\ Len(tx.chain) - tx'.boundary >= Window
          /\ work'[p].at = "archive" => Len(tx.chain) - tx'.boundary > Window
      BY <1>0, <2>7, ArchiveIs
    <3> QED
      BY <2>0, <3>1 DEF Appends, Leaves, Names, Same
  <2>8. CASE Rebuild(p)
    <3>1. /\ UNCHANGED <<db, tx, anchor>> /\ work[p].at = "rebuild" /\ work'[p].at = "commit"
          /\ Same(p)
      BY <1>0, <2>8, RebuildIs
    <3> QED
      BY <2>0, <3>1 DEF Appends, Leaves, Names, Same
  <2>9. CASE ProjectFails(p)
    <3>1. /\ UNCHANGED <<db, tx, anchor>> /\ work[p].at = "project" /\ work'[p].at = "commit"
          /\ Same(p)
      BY <1>0, <2>9, GoToIs, TypeWork DEF ProjectFails, At, Places, stored, head
    <3> QED
      BY <2>0, <3>1 DEF Appends, Leaves, Names, Same
  <2>10. CASE Heal(p)
    <3>1. /\ UNCHANGED <<db, tx>> /\ work[p].at = "heal" /\ work'[p].at = "project" /\ Same(p)
          /\ tx = db
      BY <1>0, <2>0, <2>10, HealIs DEF LockOK
    <3>2. work[p].items = << >> /\ ~work[p].roll /\ ~work[p].anchored
      BY <2>0, <3>1 DEF Carries, Decides
    <3>3. db.chain \o << >> = db.chain
      BY <1>0 DEF Ledgers, Chains
    <3> QED
      BY <3>1, <3>2, <3>3 DEF Appends, Leaves, Names, Same
  <2>11. work'[p].at \in Locked => \/ Lock(p) \/ Reconcile(p) \/ AppendRecords(p) \/ WriteIntent(p)
                                  \/ StoreAnchor(p) \/ Project(p) \/ Archive(p) \/ Rebuild(p)
                                  \/ ProjectFails(p) \/ Heal(p)
    BY <1>0, Leaving, Zenon
  <2> QED
    BY <2>0, <2>1, <2>2, <2>3, <2>4, <2>5, <2>6, <2>7, <2>8, <2>9, <2>10, <2>11, Zenon
<1> QED
  BY <1>1, <1>2, <1>3

-----------------------------------------------------------------------------
(* The archive *)

\* A chain with all the rows of the ledger reaches beyond what was archived.
LEMMA RowsBeyond ==
  ASSUME LedgerTypeOK, ArchiveOK, NEW c \in Chains, Len(db.chain) <= Len(c)
  PROVE  IF c = << >> THEN db.boundary = 0 ELSE Len(c) > db.boundary
<1>1. /\ db.boundary \in Nat /\ Len(db.chain) \in Nat /\ Len(c) \in Nat
      /\ c = << >> <=> Len(c) = 0
  BY SMTT(30) DEF LedgerTypeOK, Ledgers, Chains
<1>2. db.boundary # 0 => db.boundary < Len(db.chain)
  BY DEF ArchiveOK
<1> QED
  BY <1>1, <1>2

\* Most steps leave the rows and the archive alone; some move the anchor on.
LEMMA ArchiveFrame ==
  ASSUME LedgerTypeOK, ArchiveOK, UNCHANGED <<db, archive>>, tx' \in {tx, db} \/ tx'.boundary = tx.boundary,
         \/ anchor' = anchor
         \/ anchor' \in Chains /\ (Len(db.chain) <= Len(anchor') \/ Len(anchor) < Len(anchor'))
  PROVE  ArchiveOK'
<1>1. db.boundary \in Nat /\ tx.boundary \in Nat /\ Len(archive) \in Nat
  BY DEF LedgerTypeOK, Ledgers
<1>2. tx'.boundary \in {tx.boundary, db.boundary}
  OBVIOUS
<1>3. db.boundary <= tx'.boundary /\ tx'.boundary <= Len(archive)
  BY <1>1, <1>2 DEF ArchiveOK
<1>4. IF anchor' = << >> THEN db.boundary = 0 ELSE Len(anchor') > db.boundary
  <2>1. CASE anchor' = anchor
    BY <2>1 DEF ArchiveOK
  <2>2. CASE anchor' \in Chains /\ Len(db.chain) <= Len(anchor')
    BY <2>2, RowsBeyond
  <2>3. CASE anchor' \in Chains /\ Len(anchor) < Len(anchor')
    <3>1. Len(anchor) \in Nat /\ Len(anchor') \in Nat /\ Len(anchor) >= 0 /\ Len(<< >>) = 0
      BY <2>3 DEF LedgerTypeOK, Chains
    <3>2. anchor' # << >>
      BY <2>3, <3>1
    <3> QED
      BY <1>1, <2>3, <3>1, <3>2 DEF ArchiveOK
  <2> QED
    BY <2>1, <2>2, <2>3
<1> QED
  BY <1>3, <1>4 DEF ArchiveOK

\* The ledger grows, and everything archived keeps its hash.
LEMMA ArchiveGrows ==
  ASSUME LedgerTypeOK, LedgerTypeOK', ArchiveOK, UNCHANGED archive, Extends(db'.chain, db.chain)
  PROVE  /\ Len(archive') <= Len(db'.chain)
         /\ \A i \in DOMAIN archive' : archive'[i] = Hash(db'.chain, i)
<1>1. /\ db.chain \in Seq(Events) /\ db'.chain \in Seq(Events) /\ archive \in Seq(Chains)
      /\ Len(archive) \in Nat /\ Len(db.chain) \in Nat /\ Len(db'.chain) \in Nat
  <2>1. db \in Ledgers /\ db' \in Ledgers /\ archive \in Seq(Chains)
    BY DEF LedgerTypeOK
  <2>2. db.chain \in Seq(Events) /\ db'.chain \in Seq(Events)
    BY <2>1 DEF Ledgers, Chains
  <2> QED
    BY <2>1, <2>2
<1>2. Len(db.chain) <= Len(db'.chain) /\ Len(archive) <= Len(db.chain)
  BY DEF Extends, ArchiveOK
<1>3. ASSUME NEW i \in DOMAIN archive PROVE archive[i] = Hash(db'.chain, i)
  <2>1. i \in 0 .. Len(db.chain)
    BY <1>1, <1>2
  <2>2. Hash(db'.chain, i) = Hash(db.chain, i)
    BY <1>1, <2>1, SameHash
  <2> QED
    BY <2>2 DEF ArchiveOK
<1> QED
  BY <1>1, <1>2, <1>3

\* The rows that are there stay where they are.
LEMMA ChainGrows ==
  ASSUME LedgerInv, NEW p \in Procs, Acts(p)
  PROVE  Extends(db'.chain, db.chain)
<1>0. /\ LedgerTypeOK /\ WorkOK /\ TxOK /\ ArchiveOK /\ db \in Ledgers /\ tx \in Ledgers
      /\ db.chain \in Seq(Events) /\ work[p].items \in Seq(Events)
  BY TypeParts, TypeWork DEF LedgerInv, Types, Ledgers, Chains, Work
<1>1. CASE Drain(p)
  <2>1. work'[p].file \in Chains /\ db'.chain = Appended(db, work'[p].file)
    BY <1>0, <1>1, DrainIs DEF LedgerTypeOK
  <2> QED
    BY <1>0, <2>1, DrainedIs
<1>2. CASE Commit(p)
  <2>1. db' = tx /\ work[p].at = "commit"
    BY <1>0, <1>2, CommitIs
  <2>2. tx.chain = db.chain \o work[p].items
    BY <1>0, <2>1 DEF TxOK, Appends, Appending
  <2> QED
    BY <1>0, <2>1, <2>2, AppendedIs
<1>3. CASE db' = db
  BY <1>0, <1>3, ExtendsSelf
<1>4. CASE Throws(p)
  BY <1>0, <1>4, ThrowsIs, ThrowIs, <1>3
<1>5. CASE Archive(p)
  BY <1>5, <1>3 DEF Archive
<1>6. CASE Call(p) \/ Walks(p) \/ TakeSpool(p) \/ Unlink(p) \/ VerifyPasses(p) \/ Lock(p)
  BY <1>0, <1>3, <1>6, WalksIs, TakeSpoolIs, UnlinkIs, VerifyPassesIs, LockIs, Zenon DEF Call, stored
<1>7. CASE AppendRecords(p) \/ WriteIntent(p) \/ StoreAnchor(p) \/ Project(p) \/ Rebuild(p) \/ Reconcile(p)
  BY <1>0, <1>3, <1>7, AppendRecordsIs, WriteIntentIs, StoreAnchorIs, ProjectIs, RebuildIs, Zenon
     DEF Reconcile, stored
<1>8. CASE ClearIntent(p) \/ Spool(p) \/ Inspect(p) \/ Heal(p) \/ Crash(p)
  BY <1>0, <1>3, <1>8, ClearIntentIs, SpoolIs, InspectIs, HealIs, CrashIs, Zenon
<1>9. CASE StoreSeen(p) \/ ForkConsumed(p)
  BY <1>0, <1>3, <1>9, StoreSeenIs, ForkConsumedIs, Zenon
<1> QED
  BY <1>1, <1>2, <1>4, <1>5, <1>6, <1>7, <1>8, <1>9, Zenon DEF Acts, Step, Walks, Throws

LEMMA ArchiveStep ==
  ASSUME LedgerInv, NEW p \in Procs, Acts(p)
  PROVE  ArchiveOK'
<1>0. /\ LedgerTypeOK /\ LedgerTypeOK' /\ WorkOK /\ TxOK /\ ArchiveOK /\ Appends(p)
      /\ db \in Ledgers /\ tx \in Ledgers /\ db.chain \in Chains /\ tx.chain \in Chains
      /\ work[p].items \in Chains /\ Extends(db'.chain, db.chain)
      /\ Len(db.chain) \in Nat /\ Len(tx.chain) \in Nat /\ Len(db'.chain) \in Nat
  <2>1. /\ LedgerTypeOK /\ LedgerTypeOK' /\ WorkOK /\ TxOK /\ ArchiveOK /\ Appends(p)
        /\ Extends(db'.chain, db.chain)
    BY TypeParts, TypesStep, LockStep, ChainGrows DEF LedgerInv, TxOK
  <2>2. db \in Ledgers /\ tx \in Ledgers /\ db' \in Ledgers /\ work[p] \in Work
    BY <2>1, TypeWork DEF LedgerTypeOK
  <2>3. db.chain \in Chains /\ tx.chain \in Chains /\ db'.chain \in Chains /\ work[p].items \in Chains
    BY <2>2 DEF Ledgers, Work
  <2>4. Len(db.chain) \in Nat /\ Len(tx.chain) \in Nat /\ Len(db'.chain) \in Nat
    BY <2>3 DEF Chains
  <2> QED
    BY <2>1, <2>2, <2>3, <2>4
<1>1. CASE Drain(p)
  <2>1. db'.boundary = db.boundary /\ tx' = db' /\ UNCHANGED <<archive, anchor>> /\ writer = Nobody
    BY <1>0, <1>1, DrainIs
  <2>2. /\ Len(archive') <= Len(db'.chain)
        /\ \A i \in DOMAIN archive' : archive'[i] = Hash(db'.chain, i)
    BY <1>0, <2>1, ArchiveGrows
  <2>3. tx = db /\ Len(db.chain) <= Len(db'.chain)
    BY <1>0, <2>1 DEF LedgerTypeOK, Extends
  <2>4. db.boundary \in Nat
    BY <1>0 DEF Ledgers
  <2>5. db'.boundary # 0 => db'.boundary < Len(db'.chain)
    BY <1>0, <2>1, <2>3, <2>4 DEF ArchiveOK
  <2>6. db'.boundary <= tx'.boundary /\ tx'.boundary <= Len(archive')
    BY <1>0, <2>1, <2>3, <2>4 DEF ArchiveOK
  <2>7. IF anchor' = << >> THEN db'.boundary = 0 ELSE Len(anchor') > db'.boundary
    BY <1>0, <2>1 DEF ArchiveOK
  <2> QED
    BY <2>2, <2>5, <2>6, <2>7 DEF ArchiveOK
<1>2. CASE Commit(p)
  <2>1. db' = tx /\ tx' = tx /\ UNCHANGED <<archive, anchor>> /\ work[p].at = "commit"
    BY <1>0, <1>2, CommitIs
  <2>2. /\ Len(archive') <= Len(db'.chain)
        /\ \A i \in DOMAIN archive' : archive'[i] = Hash(db'.chain, i)
    BY <1>0, <2>1, ArchiveGrows
  <2>3. \/ tx.boundary = db.boundary
        \/ work[p].roll /\ Len(tx.chain) - tx.boundary >= Window
    BY <1>0, <2>1, Zenon DEF TxOK, Leaves, Appending
  <2>4. work[p].roll => anchor = tx.chain
    BY <1>0, <2>1, Zenon DEF TxOK, Names, WorkOK, Decides
  <2>5. /\ db.boundary \in Nat /\ tx.boundary \in Nat /\ Len(archive) \in Nat /\ Window \in Nat
        /\ Window >= 1 /\ Len(db.chain) <= Len(tx.chain)
    BY <1>0, <2>1, LedgerConstants DEF Ledgers, LedgerTypeOK, Extends
  <2>6. Len(tx.chain) - tx.boundary >= Window => tx.boundary < Len(tx.chain)
    BY <1>0, <2>5
  <2>7. tx.boundary # 0 => tx.boundary < Len(tx.chain)
    <3>1. CASE tx.boundary = db.boundary
      BY <1>0, <2>5, <3>1 DEF ArchiveOK
    <3> QED
      BY <2>3, <2>6, <3>1
  <2>8. IF anchor = << >> THEN tx.boundary = 0 ELSE Len(anchor) > tx.boundary
    <3>1. CASE tx.boundary = db.boundary
      BY <1>0, <3>1 DEF ArchiveOK
    <3>2. CASE work[p].roll /\ Len(tx.chain) - tx.boundary >= Window
      <4>1. anchor = tx.chain /\ tx.boundary < Len(anchor) /\ Len(<< >>) = 0
        BY <2>4, <2>6, <3>2
      <4>2. anchor # << >>
        BY <2>5, <4>1
      <4> QED
        BY <4>1, <4>2
    <3> QED
      BY <2>3, <3>1, <3>2
  <2>9. tx.boundary <= tx.boundary /\ tx.boundary <= Len(archive)
    BY <1>0, <2>5 DEF ArchiveOK
  <2> QED
    BY <2>1, <2>2, <2>7, <2>8, <2>9 DEF ArchiveOK
<1>3. CASE Archive(p)
  <2>1. /\ tx'.boundary = tx.boundary + 1 /\ tx'.boundary <= Len(archive')
        /\ Len(archive') <= Len(db.chain) /\ UNCHANGED <<db, anchor>>
        /\ \A i \in DOMAIN archive' : archive'[i] = Hash(db.chain, i)
    BY <1>0, <1>3, ArchiveIs
  <2>2. db.boundary \in Nat /\ tx.boundary \in Nat
    BY <1>0 DEF Ledgers
  <2>3. db.boundary <= tx'.boundary
    BY <1>0, <2>1, <2>2 DEF ArchiveOK
  <2> QED
    BY <1>0, <2>1, <2>3 DEF ArchiveOK
<1>4. CASE Throws(p)
  BY <1>0, <1>4, ThrowsIs, ThrowIs, ArchiveFrame
<1>5. CASE Reconcile(p) \/ Inspect(p)
  <2>1. Reconcile(p) => tx = db
    BY <1>0 DEF Appends, Reconcile, At
  <2>2. Reconciles /\ UNCHANGED <<db, tx, archive>>
    BY <1>0, <1>5, <2>1, ReconcileIs, InspectIs, Zenon
  <2>3. anchor' = anchor \/ (anchor' \in Chains /\ Len(db.chain) <= Len(anchor'))
    BY <1>0, <2>2 DEF Reconciles
  <2> QED
    BY <1>0, <2>2, <2>3, ArchiveFrame
<1>6. CASE StoreAnchor(p)
  <2>1. anchor' = tx.chain /\ work[p].at = "anchor" /\ UNCHANGED <<db, tx, archive>>
    BY <1>0, <1>6, StoreAnchorIs
  <2>2. Len(tx.chain) = Len(db.chain) + Len(work[p].items) /\ Len(work[p].items) \in Nat
    <3>1. tx.chain = db.chain \o work[p].items
      BY <1>0, <2>1 DEF Appends, Appending
    <3>2. db.chain \in Seq(Events) /\ work[p].items \in Seq(Events)
      BY <1>0 DEF Chains
    <3>3. Len(db.chain \o work[p].items) = Len(db.chain) + Len(work[p].items)
      BY <3>2, AppendedIs
    <3>4. Len(work[p].items) \in Nat
      BY <3>2
    <3> QED
      BY <3>1, <3>3, <3>4, Zenon
  <2>3. Len(db.chain) <= Len(tx.chain)
    <3>1. Len(db.chain) \in Nat /\ Len(tx.chain) \in Nat
      BY <1>0
    <3>2. \A a, b, c \in Nat : c = a + b => a <= c
      OBVIOUS
    <3> QED
      BY <2>2, <3>1, <3>2, Zenon
  <2> QED
    BY <1>0, <2>1, <2>3, ArchiveFrame
<1>7. CASE \/ Call(p) \/ Walks(p) \/ TakeSpool(p) \/ Unlink(p) \/ VerifyPasses(p) \/ Lock(p)
           \/ Heal(p) \/ ForkConsumed(p)
  <2>1. UNCHANGED <<db, tx, anchor, archive>>
    BY <1>0, <1>7, WalksIs, TakeSpoolIs, UnlinkIs, VerifyPassesIs, LockIs, HealIs, ForkConsumedIs,
       Zenon DEF Call, stored, head, logs
  <2> QED
    BY <1>0, <2>1, ArchiveFrame
<1>8. CASE AppendRecords(p) \/ WriteIntent(p) \/ Project(p) \/ Rebuild(p) \/ ClearIntent(p) \/ Spool(p)
  <2>1. tx'.boundary = tx.boundary /\ UNCHANGED <<db, anchor, archive>>
    BY <1>0, <1>8, AppendRecordsIs, WriteIntentIs, ProjectIs, RebuildIs, ClearIntentIs, SpoolIs, Zenon
  <2> QED
    BY <1>0, <2>1, ArchiveFrame
<1>9. CASE Crash(p)
  BY <1>0, <1>9, CrashIs, ArchiveFrame
<1>10. CASE StoreSeen(p)
  <2>1. /\ UNCHANGED <<db, tx, archive>>
        /\ anchor' = anchor \/ (anchor' = work[p].row /\ Len(anchor) < Len(anchor'))
    BY <1>0, <1>10, StoreSeenIs
  <2>2. work[p].row \in Chains
    BY <1>0, TypeWork DEF Work
  <2> QED
    BY <1>0, <2>1, <2>2, ArchiveFrame
<1> QED
  BY <1>1, <1>2, <1>3, <1>4, <1>5, <1>6, <1>7, <1>8, <1>9, <1>10, Zenon DEF Acts, Step, Walks, Throws

-----------------------------------------------------------------------------
(* The records *)

\* The records a process carries.
Carried(p) == Of(work[p].items)

LEMMA CarriedIs == \A p : ItemsOf(p) = Carried(p) /\ ItemsOf(p)' = Carried(p)'
BY DEF ItemsOf, Carried, Of

\* Where the records of a step go.
Moved(p) ==
  \/ /\ Call(p) /\ Of(db.chain)' = Of(db.chain) /\ Spooled' = Spooled
     /\ Carried(p) = {} /\ Once(work'[p].items)
     /\ \A e \in Carried(p)' : made < e /\ e <= made'
  \/ /\ Drain(p) /\ Of(db.chain)' = Of(db.chain) \cup Of(work'[p].file) /\ Spooled' = Spooled
     /\ Of(work'[p].file) \subseteq Spooled /\ work'[p].items = work[p].items
  \/ /\ Unlink(p) /\ Of(db.chain)' = Of(db.chain) /\ Spooled' \subseteq Spooled
     /\ Spooled \subseteq Spooled' \cup Of(work[p].file) /\ work'[p].items = work[p].items
  \/ /\ Commit(p) /\ Of(db.chain)' = Of(db.chain) \cup Carried(p) /\ Spooled' = Spooled
     /\ work'[p].items = << >>
  \/ /\ Spool(p) /\ Of(db.chain)' = Of(db.chain) /\ Spooled' = Spooled \cup Carried(p)
     /\ work'[p].items = << >>
  \/ /\ ~Call(p) /\ ~Drain(p) /\ ~Unlink(p) /\ ~Commit(p) /\ ~Spool(p)
     /\ Of(db.chain)' = Of(db.chain) /\ Spooled' = Spooled
     /\ work'[p].items \in {work[p].items, << >>}

LEMMA OfEmpty == Of(<< >>) = {} /\ Once(<< >>)
BY DEF Of, Once

LEMMA SpooledSame == UNCHANGED <<spool, ingests>> => Spooled' = Spooled
BY DEF Spooled

\* The other steps leave the files and the rows alone.
LEMMA StaysIs ==
  ASSUME LedgerInv, NEW p \in Procs, Acts(p),
         ~Call(p), ~Drain(p), ~Unlink(p), ~Commit(p), ~Spool(p), ~TakeSpool(p)
  PROVE  /\ UNCHANGED <<db, spool, ingests, made>>
         /\ work'[p].items \in {work[p].items, << >>}
         /\ ~VerifyPasses(p) => witness' \subseteq witness
         /\ ~AppendRecords(p) /\ work'[p].roll => work[p].roll
         /\ work'[p].at # "unlink"
<1>0. /\ LedgerTypeOK /\ WorkOK /\ TxOK /\ ArchiveOK /\ Carries(p) /\ Appends(p)
  BY DEF LedgerInv, TxOK, WorkOK
<1>1. CASE Walks(p)
  <2>1. UNCHANGED <<db, spool, ingests, made>>
    BY <1>0, <1>1, WalksIs
  <2>0. witness' = witness
    BY <1>0, <1>1, WalksIs
  <2>2. CASE Poll(p)
    BY <1>0, <2>0, <2>1, <2>2, PollIs
  <2>3. CASE NothingToDrain(p)
    BY <1>0, <2>0, <2>1, <2>3, NothingToDrainIs DEF Same, Prepares
  <2>4. CASE Look(p)
    BY <1>0, <2>0, <2>1, <2>4, LookIs DEF Same, Goes, Empty
  <2> QED
    BY <1>0, <1>1, <2>0, <2>1, <2>2, <2>3, <2>4, WalksIs DEF Same
<1>2. CASE Throws(p)
  BY <1>0, <1>2, ThrowsIs, ThrowIs
<1>3. CASE Reconcile(p)
  <2>1. tx = db
    BY <1>0, <1>3 DEF Appends, Reconcile, At
  <2> QED
    BY <1>0, <1>3, <2>1, ReconcileIs DEF Same
<1>4. CASE Archive(p)
  BY <1>0, <1>4, ArchiveIs DEF Same
<1>5. CASE VerifyPasses(p) \/ Lock(p) \/ AppendRecords(p) \/ WriteIntent(p)
  BY <1>0, <1>5, VerifyPassesIs, LockIs, AppendRecordsIs, WriteIntentIs DEF Same
<1>6. CASE StoreAnchor(p) \/ Project(p) \/ Rebuild(p)
  BY <1>0, <1>6, StoreAnchorIs, ProjectIs, RebuildIs DEF Same
<1>7. CASE ClearIntent(p) \/ Crash(p)
  <2>1. ~work'[p].roll
    BY <1>0, <1>7, ClearIntentIs, CrashIs, RestingIs DEF Empty
  <2> QED
    BY <1>0, <1>7, <2>1, ClearIntentIs, CrashIs, RestingIs
<1>8. CASE Inspect(p) \/ Heal(p)
  BY <1>0, <1>8, InspectIs, HealIs DEF Same, Empty
<1>9. CASE StoreSeen(p) \/ ForkConsumed(p)
  BY <1>0, <1>9, StoreSeenIs, ForkConsumedIs DEF Same, Goes, Empty
<1> QED
  BY <1>1, <1>2, <1>3, <1>4, <1>5, <1>6, <1>7, <1>8, <1>9, Zenon DEF Acts, Step, Walks, Throws

LEMMA MovedIs ==
  ASSUME LedgerInv, NEW p \in Procs, Acts(p)
  PROVE  Moved(p)
<1>0. /\ LedgerTypeOK /\ WorkOK /\ TxOK /\ ArchiveOK /\ Carries(p) /\ Appends(p)
      /\ work[p].items \in Seq(Events) /\ db.chain \in Seq(Events)
  <2>1. db \in Ledgers /\ work[p] \in Work
    BY TypeWork DEF LedgerInv, LedgerTypeOK
  <2>2. work[p].items \in Seq(Events) /\ db.chain \in Seq(Events)
    BY <2>1 DEF Ledgers, Work, Chains
  <2> QED
    BY <2>2 DEF LedgerInv, TxOK, WorkOK
<1>1. CASE Call(p)
  <2>1. UNCHANGED <<db, spool, ingests>>
    BY <1>1 DEF Call, stored, lines
  <2>2. work[p].items = << >>
    BY <1>0, <1>1, CallIs DEF Carries, Busy
  <2>3. Of(db.chain)' = Of(db.chain) /\ Spooled' = Spooled /\ Carried(p) = {}
    BY <2>1, <2>2, SpooledSame, OfEmpty DEF Carried
  <2>4. Once(work'[p].items) /\ \A e \in Carried(p)' : made < e /\ e <= made'
    BY <1>0, <1>1, CallIs DEF Carried
  <2> QED
    BY <1>1, <2>3, <2>4, Zenon DEF Moved
<1>2. CASE Drain(p)
  <2>1. /\ work'[p].items = work[p].items /\ work'[p].file \in ingests /\ UNCHANGED <<spool, ingests>>
        /\ db'.chain = Appended(db, work'[p].file)
    BY <1>0, <1>2, DrainIs DEF Same
  <2>2. work'[p].file \in Chains /\ db \in Ledgers
    BY <1>0, <2>1 DEF LedgerTypeOK
  <2>3. Of(db'.chain) = Of(db.chain) \cup Of(work'[p].file)
    BY <2>1, <2>2, DrainedIs
  <2>4. Of(work'[p].file) \subseteq Spooled
    BY <2>1 DEF Spooled
  <2> QED
    BY <1>2, <2>1, <2>3, <2>4, SpooledSame DEF Moved
<1>3. CASE Unlink(p)
  <2>1. /\ work'[p].items = work[p].items /\ UNCHANGED <<db, spool>>
        /\ ingests' = ingests \ {work[p].file}
    BY <1>0, <1>3, UnlinkIs DEF Same
  <2>2. Spooled' \subseteq Spooled /\ Spooled \subseteq Spooled' \cup Of(work[p].file)
    BY <2>1 DEF Spooled
  <2> QED
    BY <1>3, <2>1, <2>2 DEF Moved
<1>4. CASE Commit(p)
  <2>1. /\ work'[p].items = << >> /\ UNCHANGED <<spool, ingests>> /\ db' = tx /\ work[p].at = "commit"
    BY <1>0, <1>4, CommitIs DEF Empty
  <2>2. tx.chain = db.chain \o work[p].items
    BY <1>0, <2>1 DEF Appends, Appending
  <2>3. Of(db.chain \o work[p].items) = Of(db.chain) \cup Of(work[p].items)
    BY <1>0, AppendedIs
  <2>4. Of(db.chain)' = Of(db.chain) \cup Carried(p)
    BY <2>1, <2>2, <2>3 DEF Carried
  <2> QED
    BY <1>4, <2>1, <2>4, SpooledSame DEF Moved
<1>5. CASE Spool(p)
  <2>1. /\ work'[p].items = << >> /\ UNCHANGED <<db, ingests>> /\ spool' = spool \o work[p].items
    BY <1>0, <1>5, SpoolIs, RestingIs
  <2>2. Of(spool \o work[p].items) = Of(spool) \cup Of(work[p].items)
    <3>1. spool \in Seq(Events)
      BY <1>0 DEF LedgerTypeOK, Chains
    <3> QED
      BY <1>0, <3>1, AppendedIs
  <2>3. Of(spool') = Of(spool) \cup Carried(p)
    BY <2>1, <2>2 DEF Carried
  <2>4. Spooled' = Spooled \cup Carried(p)
    BY <2>1, <2>3 DEF Spooled
  <2> QED
    BY <1>5, <2>1, <2>4 DEF Moved
<1>6. CASE TakeSpool(p)
  <2>1. /\ work'[p].items = work[p].items /\ UNCHANGED <<db>> /\ spool' = << >>
        /\ ingests' = ingests \cup ({spool} \ {<< >>})
    BY <1>0, <1>6, TakeSpoolIs DEF Same
  <2>2. Spooled' = Spooled
    BY <2>1, OfEmpty DEF Spooled
  <2>3. ~Call(p) /\ ~Drain(p) /\ ~Unlink(p) /\ ~Commit(p) /\ ~Spool(p)
    BY <1>6 DEF TakeSpool, Call, Drain, Unlink, Commit, Spool, At
  <2> QED
    BY <2>1, <2>2, <2>3 DEF Moved
<1>7. CASE ~Call(p) /\ ~Drain(p) /\ ~Unlink(p) /\ ~Commit(p) /\ ~Spool(p) /\ ~TakeSpool(p)
  <2>1. UNCHANGED <<db, spool, ingests>> /\ work'[p].items \in {work[p].items, << >>}
    BY <1>7, StaysIs
  <2> QED
    BY <1>7, <2>1, SpooledSame DEF Moved
<1> QED
  BY <1>1, <1>2, <1>3, <1>4, <1>5, <1>6, <1>7

LEMMA PendingStep ==
  ASSUME LedgerInv, NEW p \in Procs, Acts(p), NEW q \in Procs
  PROVE  Pending(q)'
<1> DEFINE Apart(r) == /\ Once(work[r].items) /\ Carried(r) \cap Of(db.chain) = {}
                       /\ Carried(r) \cap Spooled = {}
                       /\ \A s \in Procs : s # r => Carried(r) \cap Carried(s) = {}
<1>1. \A r \in Procs : (Pending(r) <=> Apart(r)) /\ (Pending(r)' <=> Apart(r)')
  BY CarriedIs DEF Pending
<1>2. \A r \in Procs : Apart(r)
  BY <1>1 DEF LedgerInv, RecordsOK
<1>3. /\ Moved(p)
      /\ \A r \in Procs : r # p => work'[r].items = work[r].items /\ Carried(r)' = Carried(r)
  BY MovedIs, OthersMove DEF Others, Alike, Carried
<1>4. work'[p].items = << >> => Carried(p)' = {} /\ Once(work'[p].items)
  BY OfEmpty DEF Carried
<1>5. work'[p].items = work[p].items => Carried(p)' = Carried(p)
  BY DEF Carried
<1>6. CASE Call(p)
  <2>1. /\ Of(db.chain)' = Of(db.chain) /\ Spooled' = Spooled /\ Once(work'[p].items)
        /\ \A e \in Carried(p)' : ~(e <= made)
    <3>1. /\ Of(db.chain)' = Of(db.chain) /\ Spooled' = Spooled /\ Once(work'[p].items)
          /\ \A e \in Carried(p)' : made < e /\ e <= made'
      BY <1>3, <1>6 DEF Moved, Drain, Unlink, Commit, Spool, Call, At
    <3>2. made \in Nat /\ made' \in Nat /\ Carried(p)' \subseteq Events /\ MaxEvents \in Nat
      <4>1. LedgerTypeOK /\ work'[p] \in Work
        BY OthersMove DEF LedgerInv, Others
      <4>2. work'[p].items \in Seq(Events)
        BY <4>1 DEF Work, Chains
      <4> QED
        BY <1>6, <4>1, <4>2, CallIs, LedgerConstants DEF Carried, Of
    <3>3. \A e \in Carried(p)' : e \in Nat
      BY <3>2 DEF Events
    <3> QED
      BY <3>1, <3>2, <3>3
  <2>2. /\ \A e \in Of(db.chain) \cup Spooled : e <= made
        /\ \A r \in Procs : \A e \in Carried(r) : e <= made
    BY CarriedIs DEF LedgerInv, RecordsOK, MadeOK
  <2>3. Apart(q)'
    BY <1>2, <1>3, <2>1, <2>2
  <2> QED
    BY <1>1, <2>3
<1>7. CASE ~Call(p)
  <2>1. Apart(q)'
    BY <1>2, <1>3, <1>4, <1>5, <1>7 DEF Moved
  <2> QED
    BY <1>1, <2>1
<1> QED
  BY <1>6, <1>7

LEMMA OnceStep ==
  ASSUME LedgerInv, NEW p \in Procs, Acts(p)
  PROVE  Once(db.chain)'
<1>0. /\ LedgerTypeOK /\ db \in Ledgers /\ db.chain \in Seq(Events) /\ work[p].items \in Seq(Events)
      /\ Once(db.chain) /\ Pending(p) /\ FilesOK /\ ArchiveOK /\ Appends(p)
  <2>1. LedgerTypeOK /\ db \in Ledgers /\ work[p] \in Work
    BY TypeWork DEF LedgerInv, LedgerTypeOK
  <2>2. work[p].items \in Seq(Events) /\ db.chain \in Seq(Events)
    BY <2>1 DEF Ledgers, Work, Chains
  <2> QED
    BY <2>1, <2>2 DEF LedgerInv, TxOK, RecordsOK
<1>1. CASE Drain(p)
  <2>1. PICK f \in ingests : db'.chain = Appended(db, f)
    BY <1>0, <1>1, DrainIs
  <2>2. f \in Chains /\ Once(f) /\ Of(f) \subseteq Spooled
    BY <1>0 DEF LedgerTypeOK, FilesOK, Spooled
  <2>3. \A i \in DOMAIN db.chain : i <= db.boundary => db.chain[i] \notin Of(f)
    <3>1. \A i \in DOMAIN db.chain : i <= db.boundary => i \in 1 .. db.boundary
      BY <1>0 DEF Ledgers
    <3> QED
      BY <1>0, <2>2, <3>1 DEF FilesOK
  <2> QED
    BY <1>0, <2>1, <2>2, <2>3, DrainedIs
<1>2. CASE Commit(p)
  <2>1. db' = tx /\ work[p].at = "commit"
    BY <1>0, <1>2, CommitIs
  <2>2. tx.chain = db.chain \o work[p].items
    BY <1>0, <2>1 DEF Appends, Appending
  <2>3. Once(work[p].items) /\ Of(db.chain) \cap Of(work[p].items) = {}
    BY <1>0, CarriedIs DEF Pending, Carried
  <2>4. Once(db.chain \o work[p].items)
    BY <1>0, <2>3, AppendedIs
  <2> QED
    BY <2>1, <2>2, <2>4
<1>3. CASE Call(p) \/ Unlink(p) \/ Spool(p) \/ TakeSpool(p)
  BY <1>0, <1>3, UnlinkIs, SpoolIs, TakeSpoolIs DEF Call, stored
<1>4. CASE ~Call(p) /\ ~Drain(p) /\ ~Unlink(p) /\ ~Commit(p) /\ ~Spool(p) /\ ~TakeSpool(p)
  BY <1>0, <1>4, StaysIs
<1> QED
  BY <1>1, <1>2, <1>3, <1>4

LEMMA FilesStep ==
  ASSUME LedgerInv, NEW p \in Procs, Acts(p)
  PROVE  FilesOK'
<1>0. /\ LedgerTypeOK /\ FilesOK /\ Pending(p) /\ Moved(p) /\ Others(p) /\ Appends(p) /\ Leaves(p)
      /\ ArchiveOK /\ ArchiveOK' /\ WorkOK /\ WorkOK' /\ Extends(db'.chain, db.chain)
      /\ db \in Ledgers /\ db' \in Ledgers
  <2>1. /\ LedgerTypeOK /\ FilesOK /\ Pending(p) /\ Appends(p) /\ Leaves(p) /\ ArchiveOK /\ WorkOK
    BY DEF LedgerInv, RecordsOK, TxOK
  <2>2. db \in Ledgers /\ db' \in Ledgers
    BY <2>1, TypesStep DEF LedgerTypeOK, Types
  <2> QED
    BY <2>1, <2>2, MovedIs, OthersMove, ArchiveStep, WorkStep, ChainGrows
<1>r. Carried(p) \cap Of(db.chain) = {} /\ Carried(p) \cap Spooled = {} /\ Once(work[p].items)
  BY <1>0, CarriedIs DEF Pending
<1>n. /\ db.boundary \in Nat /\ db'.boundary \in Nat
      /\ Len(db.chain) \in Nat /\ DOMAIN db.chain = 1 .. Len(db.chain)
      /\ Len(db'.chain) \in Nat /\ DOMAIN db'.chain = 1 .. Len(db'.chain)
  BY <1>0 DEF Ledgers, Chains
<1>d. \A i \in 1 .. db.boundary : i \in 1 .. Len(db.chain) /\ db.chain[i] \in Of(db.chain)
  <2>1. \A i \in 1 .. db.boundary : i \in DOMAIN db.chain
    BY <1>0, <1>n DEF ArchiveOK
  <2> QED
    BY <1>n, <2>1 DEF Of
<1>1. \A f \in ingests' \cup {spool'} : Once(f)
  <2>1. CASE Spool(p)
    <3>1. spool' = spool \o work[p].items /\ ingests' = ingests
      BY <1>0, <2>1, SpoolIs
    <3>2. Of(spool) \cap Of(work[p].items) = {} /\ Once(spool)
      BY <1>0, <1>r DEF Spooled, Carried, FilesOK
    <3>3. spool \in Seq(Events) /\ work[p].items \in Seq(Events)
      BY <1>0, TypeWork DEF LedgerTypeOK, Work, Chains
    <3>4. Once(spool \o work[p].items)
      BY <1>r, <3>2, <3>3, AppendedIs
    <3> QED
      BY <1>0, <3>1, <3>4 DEF FilesOK
  <2>2. CASE TakeSpool(p)
    BY <1>0, <2>2, TakeSpoolIs, OfEmpty DEF FilesOK
  <2>3. CASE Call(p) \/ Drain(p) \/ Unlink(p) \/ Commit(p)
    <3>1. ingests' \subseteq ingests /\ spool' = spool
      BY <1>0, <2>3, DrainIs, UnlinkIs, CommitIs DEF Call, lines
    <3> QED
      BY <1>0, <3>1 DEF FilesOK
  <2>4. CASE ~Call(p) /\ ~Drain(p) /\ ~Unlink(p) /\ ~Commit(p) /\ ~Spool(p) /\ ~TakeSpool(p)
    BY <1>0, <2>4, StaysIs DEF FilesOK
  <2> QED
    BY <2>1, <2>2, <2>3, <2>4
<1>2. \A i \in 1 .. db'.boundary : db'.chain[i] \notin Spooled'
  <2>1. CASE Commit(p)
    <3>1. db' = tx /\ work[p].at = "commit" /\ UNCHANGED <<spool, ingests>>
      BY <1>0, <2>1, CommitIs
    <3>2. tx.boundary = db.boundary \/ work[p].roll
      BY <1>0, <3>1, Zenon DEF Leaves, Appending
    <3>3. CASE db'.boundary = db.boundary
      <4>1. \A i \in 1 .. db.boundary : db'.chain[i] = db.chain[i]
        BY <1>0, <1>d DEF Extends
      <4> QED
        BY <1>0, <3>1, <3>3, <4>1, SpooledSame DEF FilesOK
    <3>4. CASE work[p].roll
      <4>1. Spooled \cap Of(db.chain) = {}
        BY <1>0, <3>4 DEF FilesOK
      <4>2. Of(db.chain)' = Of(db.chain) \cup Carried(p) /\ Spooled' = Spooled
        BY <1>0, <2>1, <3>1 DEF Moved, Call, Drain, Unlink, Spool, At
      <4>3. Of(db.chain)' \cap Spooled' = {}
        BY <1>r, <4>1, <4>2
      <4>4. \A i \in 1 .. db'.boundary : i \in DOMAIN db'.chain
        BY <1>0, <1>n DEF ArchiveOK
      <4>5. \A i \in 1 .. db'.boundary : db'.chain[i] \in Of(db.chain)'
        BY <4>4, Zenon DEF Of
      <4> QED
        BY <4>3, <4>5
    <3> QED
      BY <3>1, <3>2, <3>3, <3>4
  <2>2. CASE ~Commit(p)
    <3>1. db'.boundary = db.boundary
      <4>1. CASE Drain(p)
        BY <1>0, <4>1, DrainIs
      <4>2. CASE Call(p) \/ Unlink(p) \/ Spool(p) \/ TakeSpool(p)
        BY <1>0, <4>2, UnlinkIs, SpoolIs, TakeSpoolIs DEF Call, stored
      <4> QED
        BY <2>2, <4>1, <4>2, StaysIs
    <3>2. \A i \in 1 .. db.boundary : db'.chain[i] = db.chain[i]
      BY <1>0, <1>d DEF Extends
    <3>3. Spooled' \subseteq Spooled \cup Carried(p)
      BY <1>0 DEF Moved
    <3> QED
      BY <1>0, <1>r, <1>d, <3>1, <3>2, <3>3 DEF FilesOK
  <2> QED
    BY <2>1, <2>2
<1>3. witness' # {} => Spooled' = {} /\ ingests' = {} /\ spool' = << >>
  <2>1. CASE TakeSpool(p)
    <3>1. /\ spool' = << >> /\ ingests' = ingests \cup ({spool} \ {<< >>})
          /\ witness' = IF spool = << >> THEN witness ELSE {}
      BY <1>0, <2>1, TakeSpoolIs
    <3>2. witness' # {} => ingests' = {} /\ spool' = << >>
      BY <1>0, <3>1 DEF FilesOK
    <3> QED
      BY <3>2, OfEmpty DEF Spooled
  <2>2. CASE VerifyPasses(p)
    <3>1. UNCHANGED <<spool, ingests>> /\ spool = << >> /\ ingests = {}
      BY <1>0, <2>2, VerifyPassesIs
    <3> QED
      BY <3>1, OfEmpty DEF Spooled
  <2>3. CASE Drain(p) \/ Unlink(p) \/ Commit(p) \/ Spool(p)
    BY <1>0, <2>3, DrainIs, UnlinkIs, CommitIs, SpoolIs
  <2>4. CASE Call(p)
    BY <1>0, <2>4, SpooledSame DEF Call, lines, FilesOK
  <2>5. CASE ~Call(p) /\ ~Drain(p) /\ ~Unlink(p) /\ ~Commit(p) /\ ~Spool(p) /\ ~TakeSpool(p)
             /\ ~VerifyPasses(p)
    <3>1. witness' \subseteq witness /\ UNCHANGED <<spool, ingests>>
      BY <2>5, StaysIs
    <3> QED
      BY <1>0, <3>1, SpooledSame DEF FilesOK
  <2> QED
    BY <2>1, <2>2, <2>3, <2>4, <2>5
<1>4. ASSUME NEW q \in Procs, work'[q].roll PROVE Spooled' \cap Of(db.chain)' = {}
  <2>0. work'[q].at \in Locked
    BY <1>0, <1>4 DEF WorkOK, Decides, Appending, Locked
  <2>1. CASE q # p
    <3>1. work[q].roll /\ work[q].at \in Locked
      BY <1>0, <1>4, <2>0, <2>1 DEF Others, Alike
    <3>2. UNCHANGED db
      BY <2>1, <3>1, OnlyTheWriter
    <3>3. Spooled' \subseteq Spooled \cup Carried(p)
      BY <1>0 DEF Moved
    <3>4. Spooled \cap Of(db.chain) = {} /\ Of(db.chain)' = Of(db.chain)
      BY <1>0, <3>1, <3>2 DEF FilesOK
    <3> QED
      BY <1>r, <3>3, <3>4
  <2>2. CASE q = p
    <3>1. /\ UNCHANGED <<db, spool, ingests>>
          /\ ~AppendRecords(p) => work[p].roll
      <4>1. ~Call(p) /\ ~Drain(p) /\ ~Unlink(p) /\ ~Commit(p) /\ ~Spool(p) /\ ~TakeSpool(p)
        <5>1. work'[p].at \in Locked
          BY <2>0, <2>2
        <5> QED
          BY <1>0, <5>1, CallIs, DrainIs, UnlinkIs, CommitIs, SpoolIs, TakeSpoolIs, RestingIs
             DEF Locked, Prepares
      <4> QED
        BY <1>4, <2>2, <4>1, StaysIs
    <3>2. Spooled' = Spooled /\ Of(db.chain)' = Of(db.chain)
      BY <3>1, SpooledSame
    <3>3. CASE AppendRecords(p)
      BY <1>0, <3>2, <3>3, AppendRecordsIs DEF FilesOK
    <3> QED
      BY <1>0, <3>1, <3>2, <3>3 DEF FilesOK
  <2> QED
    BY <2>1, <2>2
<1>5. ASSUME NEW q \in Procs, work'[q].at = "unlink" PROVE Of(work'[q].file) \subseteq Of(db.chain)'
  <2>1. Of(db.chain) \subseteq Of(db.chain)'
    BY <1>0 DEF Moved
  <2>2. CASE q # p
    <3>1. work'[q].at = work[q].at /\ work'[q].file = work[q].file
      BY <1>0, <2>2 DEF Others, Alike
    <3> QED
      BY <1>0, <1>5, <2>1, <3>1 DEF FilesOK
  <2>3. CASE q = p
    <3>1. CASE Drain(p)
      BY <1>0, <2>3, <3>1 DEF Moved, Drain, Call, Unlink, Commit, Spool, At
    <3>2. CASE Call(p) \/ Unlink(p) \/ Commit(p) \/ Spool(p) \/ TakeSpool(p)
      BY <1>0, <1>5, <2>3, <3>2, CallIs, UnlinkIs, CommitIs, SpoolIs, TakeSpoolIs, RestingIs
         DEF Prepares
    <3> QED
      BY <1>5, <2>3, <3>1, <3>2, StaysIs
  <2> QED
    BY <2>2, <2>3
<1> QED
  BY <1>1, <1>2, <1>3, <1>4, <1>5 DEF FilesOK

\* An intent is written, or it is removed; a crash leaves it behind.
LEMMA IntentsMove ==
  ASSUME LedgerInv, NEW p \in Procs, Acts(p)
  PROVE  /\ \A q \in Procs : intents'[q] \in {intents[q], << >>} \/ (q = p /\ WriteIntent(p))
         /\ WriteIntent(p) => intents'[p] = tx.chain
         /\ orphans' \subseteq orphans \/ Crash(p)
         /\ Crash(p) => orphans' = orphans \cup ({intents[p]} \ {<< >>}) /\ intents'[p] = << >>
<1>0. LedgerTypeOK /\ TxOK /\ WorkOK /\ ArchiveOK
  BY DEF LedgerInv
<1>1. CASE Call(p) \/ Walks(p) \/ TakeSpool(p) \/ Drain(p) \/ Unlink(p) \/ VerifyPasses(p) \/ Lock(p)
  <2>1. UNCHANGED <<intents, orphans>>
    BY <1>0, <1>1, WalksIs, TakeSpoolIs, DrainIs, UnlinkIs, VerifyPassesIs, LockIs, Zenon DEF Call, head
  <2> QED
    BY <1>0, <2>1, CrashIs, WriteIntentIs
<1>2. CASE Throws(p)
  BY <1>0, <1>2, ThrowsIs, CrashIs, WriteIntentIs
<1>3. CASE Reconcile(p) \/ Inspect(p)
  <2>1. Reconcile(p) => tx = db
    BY <1>0 DEF TxOK, Appends, Reconcile, At
  <2>2. Reconciles
    BY <1>0, <1>3, <2>1, ReconcileIs, InspectIs, Zenon
  <2> QED
    BY <1>0, <2>2, CrashIs, WriteIntentIs DEF Reconciles, Fewer
<1>8. CASE Heal(p) \/ StoreSeen(p) \/ ForkConsumed(p)
  BY <1>0, <1>8, HealIs, StoreSeenIs, ForkConsumedIs, CrashIs, WriteIntentIs DEF Fewer
<1>4. CASE AppendRecords(p) \/ StoreAnchor(p) \/ Project(p) \/ Archive(p) \/ Rebuild(p)
  BY <1>0, <1>4, AppendRecordsIs, StoreAnchorIs, ProjectIs, ArchiveIs, RebuildIs, CrashIs, WriteIntentIs
     DEF Fewer
<1>5. CASE Commit(p) \/ ClearIntent(p) \/ Spool(p)
  BY <1>0, <1>5, CommitIs, ClearIntentIs, SpoolIs, CrashIs, WriteIntentIs DEF Fewer
<1>6. CASE Crash(p)
  BY <1>0, <1>6, CrashIs, WriteIntentIs
<1>7. CASE WriteIntent(p)
  BY <1>0, <1>7, CrashIs, WriteIntentIs
<1> QED
  BY <1>1, <1>2, <1>3, <1>4, <1>5, <1>6, <1>7, <1>8, Zenon DEF Acts, Step, Walks, Throws

\* The anchor is only ever moved to a chain that begins with the ledger, or
\* farther along the ledger.
LEMMA AnchorMoves ==
  ASSUME LedgerInv, NEW p \in Procs, Acts(p)
  PROVE  \/ anchor' = anchor
         \/ anchor' \in Chains /\ Extends(anchor', db.chain)
         \/ /\ anchor' \in Chains /\ Extends(db.chain, anchor')
            /\ Len(anchor) < Len(anchor')
<1>0. LedgerTypeOK /\ TxOK /\ WorkOK /\ ArchiveOK /\ db.chain \in Seq(Events) /\ tx.chain \in Seq(Events)
      /\ work[p].items \in Seq(Events)
  <2>1. db \in Ledgers /\ tx \in Ledgers /\ work[p] \in Work /\ LedgerInv
    BY TypeWork DEF LedgerInv, LedgerTypeOK
  <2>2. db.chain \in Seq(Events) /\ tx.chain \in Seq(Events) /\ work[p].items \in Seq(Events)
    BY <2>1 DEF Ledgers, Chains, Work
  <2> QED
    BY <2>2 DEF LedgerInv
<1>1. CASE Call(p) \/ Walks(p) \/ TakeSpool(p) \/ Drain(p) \/ Unlink(p) \/ VerifyPasses(p) \/ Lock(p)
  BY <1>0, <1>1, WalksIs, TakeSpoolIs, DrainIs, UnlinkIs, VerifyPassesIs, LockIs, Zenon DEF Call, head
<1>2. CASE Throws(p)
  BY <1>0, <1>2, ThrowsIs
<1>3. CASE Reconcile(p) \/ Inspect(p)
  <2>1. Reconcile(p) => tx = db
    BY <1>0 DEF TxOK, Appends, Reconcile, At
  <2>2. Reconciles
    BY <1>0, <1>3, <2>1, ReconcileIs, InspectIs, Zenon
  <2>3. Extends(db.chain, db.chain)
    BY <1>0, ExtendsSelf
  <2> QED
    BY <1>0, <2>2, <2>3 DEF Reconciles, Chains
<1>4. CASE StoreAnchor(p)
  <2>1. anchor' = tx.chain /\ work[p].at = "anchor"
    BY <1>0, <1>4, StoreAnchorIs
  <2>2. tx.chain = db.chain \o work[p].items
    BY <1>0, <2>1 DEF TxOK, Appends, Appending
  <2>3. Extends(db.chain \o work[p].items, db.chain)
    BY <1>0, AppendedIs
  <2> QED
    BY <1>0, <2>1, <2>2, <2>3 DEF Chains
<1>5. CASE AppendRecords(p) \/ WriteIntent(p) \/ Project(p) \/ Archive(p) \/ Rebuild(p)
  BY <1>0, <1>5, AppendRecordsIs, WriteIntentIs, ProjectIs, ArchiveIs, RebuildIs, Zenon
<1>6. CASE Commit(p) \/ ClearIntent(p) \/ Spool(p) \/ Crash(p) \/ Heal(p) \/ ForkConsumed(p)
  BY <1>0, <1>6, CommitIs, ClearIntentIs, SpoolIs, CrashIs, HealIs, ForkConsumedIs, Zenon
<1>7. CASE StoreSeen(p)
  <2>1. anchor' = anchor \/ (anchor' = work[p].row /\ Len(anchor) < Len(anchor'))
    BY <1>0, <1>7, StoreSeenIs
  <2>2. Extends(db.chain, work[p].row) /\ work[p].row \in Chains
    BY <1>0, <1>7, TypeWork DEF LedgerInv, SeenOK, Seen, StoreSeen, At, Work
  <2> QED
    BY <2>1, <2>2
<1> QED
  BY <1>1, <1>2, <1>3, <1>4, <1>5, <1>6, <1>7, Zenon DEF Acts, Step, Walks, Throws

\* Who is told something.
LEMMA ToldIs ==
  ASSUME LedgerInv, NEW p \in Procs, Acts(p), NEW e \in Events
  PROVE  \/ told'[e] = told[e]
         \/ /\ Commit(p) /\ e \in Carried(p)
            /\ told'[e] = IF work[p].anchored THEN "anchored" ELSE "durable"
         \/ Spool(p) /\ e \in Carried(p) /\ told'[e] = "spooled"
         \/ told'[e] = "nothing"
<1>0. LedgerTypeOK /\ TxOK /\ WorkOK /\ ArchiveOK
  BY DEF LedgerInv
<1>1. CASE Call(p) \/ Walks(p) \/ TakeSpool(p) \/ Drain(p) \/ Unlink(p) \/ VerifyPasses(p) \/ Lock(p)
  BY <1>0, <1>1, WalksIs, TakeSpoolIs, DrainIs, UnlinkIs, VerifyPassesIs, LockIs, Zenon DEF Call
<1>2. CASE Throws(p)
  BY <1>0, <1>2, ThrowsIs
<1>3. CASE Reconcile(p)
  BY <1>3 DEF Reconcile, calls
<1>4. CASE AppendRecords(p) \/ StoreAnchor(p) \/ Project(p) \/ Archive(p) \/ Rebuild(p)
  BY <1>0, <1>4, AppendRecordsIs, StoreAnchorIs, ProjectIs, ArchiveIs, RebuildIs, Zenon
<1>5. CASE WriteIntent(p) \/ ClearIntent(p) \/ Inspect(p) \/ Heal(p)
  BY <1>0, <1>5, WriteIntentIs, ClearIntentIs, InspectIs, HealIs, Zenon
<1>9. CASE StoreSeen(p) \/ ForkConsumed(p)
  BY <1>0, <1>9, StoreSeenIs, ForkConsumedIs, Zenon
<1>6. CASE Commit(p)
  BY <1>0, <1>6, CommitIs, Zenon DEF Carried
<1>7. CASE Spool(p)
  BY <1>0, <1>7, SpoolIs, Zenon DEF Carried
<1>8. CASE Crash(p)
  BY <1>0, <1>8, CrashIs, Zenon
<1> QED
  BY <1>1, <1>2, <1>3, <1>4, <1>5, <1>6, <1>7, <1>8, <1>9, Zenon DEF Acts, Step, Walks, Throws

LEMMA EventsAre == \A c \in Chains : Of(c) \subseteq Events
BY DEF Chains, Of

LEMMA MadeStep ==
  ASSUME LedgerInv, NEW p \in Procs, Acts(p)
  PROVE  MadeOK'
<1>0. /\ LedgerTypeOK /\ LedgerTypeOK' /\ MadeOK /\ Moved(p) /\ Others(p) /\ Appends(p) /\ WorkOK
      /\ db.chain \in Seq(Events) /\ work[p].items \in Seq(Events)
  <2>1. LedgerTypeOK /\ LedgerTypeOK' /\ db \in Ledgers /\ work[p] \in Work
    BY TypeParts, TypeWork, TypesStep, LockStep DEF LedgerInv, Types
  <2>2. db.chain \in Seq(Events) /\ work[p].items \in Seq(Events)
    BY <2>1 DEF Ledgers, Chains, Work
  <2> QED
    BY <2>1, <2>2, MovedIs, OthersMove DEF LedgerInv, RecordsOK, TxOK
<1>1. /\ \A e \in Of(db.chain) \cup Spooled : e <= made
      /\ \A q \in Procs : \A e \in Carried(q) : e <= made
      /\ \A q \in Procs : \A e \in Of(intents[q]) : e <= made
      /\ \A o \in orphans : \A e \in Of(o) : e <= made
  BY <1>0, CarriedIs DEF MadeOK
<1>2. WriteIntent(p) => Of(intents'[p]) = Of(db.chain) \cup Carried(p)
  <2> SUFFICES ASSUME WriteIntent(p) PROVE Of(intents'[p]) = Of(db.chain) \cup Carried(p)
    OBVIOUS
  <2>1. work[p].at = "intent" /\ intents'[p] = tx.chain
    BY <1>0, WriteIntentIs
  <2>2. tx.chain = db.chain \o work[p].items
    BY <1>0, <2>1 DEF Appends, Appending
  <2> QED
    BY <1>0, <2>1, <2>2, AppendedIs DEF Carried
<1>3. /\ Of(db.chain)' \cup Spooled' \subseteq Of(db.chain) \cup Spooled \cup Carried(p)
      /\ \A q \in Procs : q # p => Carried(q)' = Carried(q)
  BY <1>0 DEF Moved, Others, Alike, Carried
<1>4. ~Call(p) => Carried(p)' \subseteq Carried(p)
  BY <1>0, OfEmpty DEF Moved, Carried
<1>5. Call(p) => \A e \in Carried(p)' : e <= made'
  BY <1>0, CallIs DEF Carried
<1>6. \A q \in Procs : Of(intents'[q]) \subseteq Of(intents[q]) \cup Of(db.chain) \cup Carried(p)
  BY <1>2, IntentsMove, OfEmpty
<1>7. orphans' \subseteq orphans \cup {intents[p]}
  BY IntentsMove
<1>8. /\ \A e \in Of(db.chain)' \cup Spooled' : e <= made
      /\ \A q \in Procs : \A e \in Of(intents'[q]) : e <= made
      /\ \A o \in orphans' : \A e \in Of(o) : e <= made
      /\ \A q \in Procs : ~(Call(p) /\ q = p) => \A e \in Carried(q)' : e <= made
  BY <1>1, <1>3, <1>4, <1>6, <1>7
<1>9. made' = made \/ (Call(p) /\ made <= made')
  <2>1. CASE Call(p)
    <3>1. made \in Nat /\ made' \in Nat
      BY <1>0, <2>1, CallIs
    <3>2. \E n \in 1 .. MaxTogether : made' = made + n
      BY <2>1 DEF Call
    <3> QED
      BY <2>1, <3>1, <3>2, LedgerConstants
  <2>2. CASE Drain(p) \/ Unlink(p) \/ Commit(p) \/ Spool(p) \/ TakeSpool(p)
    BY <1>0, <2>2, DrainIs, UnlinkIs, CommitIs, SpoolIs, TakeSpoolIs, Zenon
  <2> QED
    BY <2>1, <2>2, StaysIs
<1>10. ASSUME NEW e \in Events, e <= made PROVE e <= made'
  <2>1. CASE made' = made
    BY <1>10, <2>1
  <2>2. CASE Call(p) /\ made <= made'
    <3>1. made \in Nat /\ made' \in Nat /\ e \in Nat
      BY <1>0, <2>2, CallIs, LedgerConstants DEF Events
    <3> QED
      BY <1>10, <2>2, <3>1
  <2> QED
    BY <1>9, <2>1, <2>2
<1>11. /\ Of(db.chain)' \cup Spooled' \subseteq Events
       /\ \A q \in Procs : Of(intents'[q]) \subseteq Events /\ Carried(q)' \subseteq Events
       /\ \A o \in orphans' : Of(o) \subseteq Events
  <2>1. /\ db' \in Ledgers /\ spool' \in Chains /\ ingests' \subseteq Chains
        /\ intents' \in [Procs -> Chains] /\ orphans' \subseteq Chains /\ work' \in [Procs -> Work]
    BY <1>0 DEF LedgerTypeOK, Others
  <2>2. db'.chain \in Chains /\ \A q \in Procs : work'[q].items \in Chains
    BY <2>1 DEF Ledgers, Work
  <2>3. Of(db'.chain) \subseteq Events /\ Spooled' \subseteq Events
    BY <2>1, <2>2, EventsAre, Zenon DEF Spooled
  <2>4. \A q \in Procs : Of(intents'[q]) \subseteq Events /\ Carried(q)' \subseteq Events
    <3>1. \A q \in Procs : intents'[q] \in Chains
      BY <2>1
    <3> QED
      BY <2>2, <3>1, EventsAre, Zenon DEF Carried
  <2>5. \A o \in orphans' : Of(o) \subseteq Events
    BY <2>1, EventsAre
  <2> QED
    BY <2>3, <2>4, <2>5
<1>12. /\ \A e \in Of(db.chain)' \cup Spooled' : e <= made'
       /\ \A q \in Procs : \A e \in Of(intents'[q]) : e <= made'
       /\ \A o \in orphans' : \A e \in Of(o) : e <= made'
       /\ \A q \in Procs : \A e \in Carried(q)' : e <= made'
  BY <1>5, <1>8, <1>10, <1>11, Zenon
<1> QED
  BY <1>12, CarriedIs DEF MadeOK

LEMMA ToldStep ==
  ASSUME LedgerInv, NEW p \in Procs, Acts(p)
  PROVE  ToldOK'
<1>0. /\ LedgerTypeOK /\ ToldOK /\ FilesOK /\ Moved(p) /\ Extends(db'.chain, db.chain) /\ TxOK
      /\ db.chain \in Seq(Events) /\ db'.chain \in Seq(Events) /\ anchor \in Seq(Events)
  <2>1. db \in Ledgers /\ db' \in Ledgers /\ anchor \in Chains
    BY TypesStep DEF LedgerInv, LedgerTypeOK, Types
  <2>2. db.chain \in Seq(Events) /\ db'.chain \in Seq(Events) /\ anchor \in Seq(Events)
    BY <2>1 DEF Ledgers, Chains
  <2> QED
    BY <2>2, MovedIs, ChainGrows DEF LedgerInv, RecordsOK
<1> SUFFICES ASSUME NEW e \in Events
             PROVE  /\ told'[e] \in {"durable", "anchored"} => e \in Of(db.chain)'
                    /\ told'[e] = "spooled" => e \in Of(db.chain)' \cup Spooled'
                    /\ told'[e] = "anchored" =>
                         \E i \in DOMAIN db'.chain :
                           /\ db'.chain[i] = e /\ i <= Len(anchor')
                           /\ \A k \in 1 .. i : anchor'[k] = db'.chain[k]
  BY DEF ToldOK
<1>1. /\ told[e] \in {"durable", "anchored"} => e \in Of(db.chain)
      /\ told[e] = "spooled" => e \in Of(db.chain) \cup Spooled
      /\ told[e] = "anchored" =>
           \E i \in DOMAIN db.chain :
             /\ db.chain[i] = e /\ i <= Len(anchor)
             /\ \A k \in 1 .. i : anchor[k] = db.chain[k]
  BY <1>0 DEF ToldOK
<1>2. Of(db.chain) \subseteq Of(db.chain)' /\ Of(db.chain) \cup Spooled \subseteq Of(db.chain)' \cup Spooled'
  <2>1. Unlink(p) => Of(work[p].file) \subseteq Of(db.chain)
    BY <1>0, UnlinkIs DEF FilesOK
  <2> QED
    BY <1>0, <2>1 DEF Moved
<1>3. Commit(p) => Carried(p) \subseteq Of(db.chain)'
  BY <1>0 DEF Moved, Call, Drain, Unlink, Commit, Spool, At
<1>4. Spool(p) => Carried(p) \subseteq Spooled'
  BY <1>0 DEF Moved, Call, Drain, Unlink, Commit, Spool, At
<1>5. told'[e] \in {"durable", "anchored"} => e \in Of(db.chain)'
  BY <1>1, <1>2, <1>3, ToldIs
<1>6. told'[e] = "spooled" => e \in Of(db.chain)' \cup Spooled'
  BY <1>1, <1>2, <1>4, ToldIs
<1>7. ASSUME told'[e] = "anchored"
      PROVE  \E i \in DOMAIN db'.chain :
               /\ db'.chain[i] = e /\ i <= Len(anchor')
               /\ \A k \in 1 .. i : anchor'[k] = db'.chain[k]
  <2>1. CASE told[e] = "anchored"
    <3>1. PICK i \in DOMAIN db.chain :
            db.chain[i] = e /\ i <= Len(anchor) /\ \A k \in 1 .. i : anchor[k] = db.chain[k]
      BY <1>1, <2>1
    <3>2. /\ Len(db.chain) <= Len(db'.chain)
          /\ \A k \in 1 .. Len(db.chain) : db'.chain[k] = db.chain[k]
      BY <1>0 DEF Extends
    <3>3. i \in 1 .. Len(db.chain) /\ i \in DOMAIN db'.chain /\ db'.chain[i] = e
          /\ \A k \in 1 .. i : k \in 1 .. Len(db.chain)
      BY <1>0, <3>1, <3>2
    <3>4. CASE anchor' = anchor
      BY <3>1, <3>2, <3>3, <3>4
    <3>5. CASE anchor' \in Chains /\ Extends(anchor', db.chain)
      <4>1. /\ Len(db.chain) <= Len(anchor')
            /\ \A k \in 1 .. Len(db.chain) : anchor'[k] = db.chain[k]
        BY <3>5 DEF Extends
      <4>2. i <= Len(anchor')
        <5>1. anchor' \in Seq(Events)
          BY <3>5 DEF Chains
        <5> QED
          BY <1>0, <3>3, <4>1, <5>1
      <4> QED
        BY <3>2, <3>3, <4>1, <4>2
    <3>6. CASE anchor' \in Chains /\ Extends(db.chain, anchor') /\ Len(anchor) < Len(anchor')
      <4>1. \A k \in 1 .. Len(anchor') : db.chain[k] = anchor'[k]
        BY <3>6 DEF Extends
      <4>2. i <= Len(anchor') /\ \A k \in 1 .. i : k \in 1 .. Len(anchor')
        <5>1. anchor' \in Seq(Events)
          BY <3>6 DEF Chains
        <5>2. Len(anchor) \in Nat /\ Len(anchor') \in Nat /\ i \in Nat
          BY <1>0, <3>3, <5>1
        <5> QED
          BY <3>1, <3>6, <5>2
      <4> QED
        BY <3>2, <3>3, <4>1, <4>2
    <3> QED
      BY <3>4, <3>5, <3>6, AnchorMoves
  <2>2. CASE told[e] # "anchored"
    <3>1. Commit(p) /\ e \in Carried(p) /\ work[p].anchored
      BY <1>7, <2>2, ToldIs
    <3>2. work[p].at = "commit" /\ db' = tx /\ anchor' = anchor
      BY <1>0, <3>1, CommitIs
    <3>3. anchor' = db'.chain
      BY <1>0, <3>1, <3>2 DEF TxOK, Names
    <3>4. PICK i \in DOMAIN db'.chain : db'.chain[i] = e
      BY <1>3, <3>1 DEF Of
    <3> QED
      BY <1>0, <3>3, <3>4
  <2> QED
    BY <2>1, <2>2
<1> QED
  BY <1>5, <1>6, <1>7

LEMMA RecordsStep ==
  ASSUME LedgerInv, NEW p \in Procs, Acts(p)
  PROVE  RecordsOK'
BY OnceStep, PendingStep, FilesStep, MadeStep, ToldStep DEF RecordsOK

-----------------------------------------------------------------------------
(* The intents *)

\* An intent that is written has the records of its process.
LEMMA IntentHas ==
  ASSUME LedgerInv, NEW p \in Procs, WriteIntent(p)
  PROVE  /\ intents'[p] = tx.chain /\ Of(tx.chain) = Of(db.chain) \cup Carried(p)
         /\ Carried(p) # {} /\ Len(tx.chain) > Len(db.chain)
<1>0. /\ LedgerTypeOK /\ Appends(p) /\ Carries(p)
      /\ db.chain \in Seq(Events) /\ work[p].items \in Seq(Events)
  <2>1. LedgerTypeOK /\ db \in Ledgers /\ work[p] \in Work
    BY TypeWork DEF LedgerInv, LedgerTypeOK
  <2>2. db.chain \in Seq(Events) /\ work[p].items \in Seq(Events)
    BY <2>1 DEF Ledgers, Chains, Work
  <2> QED
    BY <2>1, <2>2 DEF LedgerInv, WorkOK, TxOK
<1>1. work[p].at = "intent" /\ intents'[p] = tx.chain
  BY <1>0, WriteIntentIs
<1>2. tx.chain = db.chain \o work[p].items /\ work[p].items # << >>
  BY <1>0, <1>1 DEF Appends, Appending, Carries, Busy
<1>3. Of(tx.chain) = Of(db.chain) \cup Carried(p)
  BY <1>0, <1>2, AppendedIs DEF Carried
<1>4. Carried(p) # {}
  <2>1. 1 \in DOMAIN work[p].items
    BY <1>0, <1>2
  <2> QED
    BY <2>1 DEF Carried, Of
<1>5. Len(tx.chain) > Len(db.chain)
  <2>1. Len(db.chain \o work[p].items) = Len(db.chain) + Len(work[p].items)
    BY <1>0, AppendedIs
  <2>2. Len(db.chain) \in Nat /\ Len(work[p].items) \in Nat /\ Len(work[p].items) # 0
    BY <1>0, <1>2
  <2>3. \A a, b \in Nat : b # 0 => a + b > a
    OBVIOUS
  <2> QED
    BY <1>2, <2>1, <2>2, <2>3, Zenon
<1> QED
  BY <1>1, <1>3, <1>4, <1>5

\* A process that has appended goes on, spools its records or is done with them.
LEMMA StaysAppending ==
  ASSUME LedgerInv, NEW p \in Procs, Acts(p), work[p].at \in Appending \cup {"spool"}
  PROVE  work'[p].items = << >> \/ work'[p].at \in Appending \cup {"spool"}
<1> USE DEF Appending
<1>0. /\ LedgerTypeOK /\ TxOK /\ WorkOK /\ ArchiveOK /\ Carries(p)
  BY DEF LedgerInv, WorkOK
<1>1. CASE Throws(p)
  BY <1>0, <1>1, ThrowsIs, ThrowIs
<1>2. CASE WriteIntent(p) \/ StoreAnchor(p) \/ Project(p) \/ Archive(p) \/ Rebuild(p)
  BY <1>0, <1>2, WriteIntentIs, StoreAnchorIs, ProjectIs, ArchiveIs, RebuildIs
<1>3. CASE Walks(p)
  <2>1. work[p].at \notin {"idle", "drain", "look"}
    OBVIOUS
  <2> QED
    BY <1>0, <1>3, <2>1, WalksIs, PollIs, NothingToDrainIs, LookIs
<1>4. CASE Commit(p) \/ Spool(p) \/ Crash(p)
  BY <1>0, <1>4, CommitIs, SpoolIs, CrashIs, RestingIs DEF Empty
<1>5. CASE ~Throws(p) /\ ~Walks(p) /\ ~WriteIntent(p) /\ ~StoreAnchor(p) /\ ~Project(p) /\ ~Archive(p)
           /\ ~Rebuild(p) /\ ~Commit(p) /\ ~Spool(p) /\ ~Crash(p)
  BY <1>5 DEF Acts, Step, Walks, Throws, Call, TakeSpool, Drain, Unlink, VerifyPasses, Lock, Reconcile,
     AppendRecords, ClearIntent, Inspect, Heal, StoreSeen, ForkConsumed, At
<1> QED
  BY <1>1, <1>2, <1>3, <1>4, <1>5

LEMMA OwnStep ==
  ASSUME LedgerInv, NEW p \in Procs, Acts(p)
  PROVE  IntentsOwn'
<1>0. /\ LedgerTypeOK /\ Moved(p) /\ Others(p)
      /\ \A q, r \in Procs : q # r /\ intents[q] = intents[r] => intents[q] = << >>
      /\ \A q \in Procs : intents[q] \in orphans => intents[q] = << >>
      /\ << >> \notin orphans
      /\ \A q \in Procs :
           /\ \A r \in Procs : r # q => Carried(q) \cap Of(intents[r]) = {}
           /\ \A o \in orphans : Carried(q) \cap Of(o) = {}
           /\ work[q].at \notin Appending \cup {"spool"} => Carried(q) \cap Of(intents[q]) = {}
  BY MovedIs, OthersMove, CarriedIs DEF LedgerInv, IntentsOK, IntentsOwn
<1>1. \A q \in Procs : /\ Carried(q) \cap Of(db.chain) = {}
                       /\ \A r \in Procs : r # q => Carried(q) \cap Carried(r) = {}
  BY CarriedIs DEF LedgerInv, RecordsOK, Pending
<1>2. /\ \A q \in Procs : q # p => Carried(q)' = Carried(q) /\ work'[q].at = work[q].at
      /\ ~Call(p) => Carried(p)' \subseteq Carried(p)
      /\ work'[p].items = << >> => Carried(p)' = {}
  BY <1>0, OfEmpty DEF Moved, Others, Alike, Carried
<1>3. Call(p) => \A q \in Procs : Carried(p)' \cap Of(intents[q]) = {}
  <2> SUFFICES ASSUME Call(p), NEW q \in Procs, NEW e \in Carried(p)', e \in Of(intents[q]) PROVE FALSE
    BY Zenon
  <2>1. made < e /\ made \in Nat
    BY <1>0, CallIs DEF Carried
  <2>2. e <= made
    BY DEF LedgerInv, RecordsOK, MadeOK
  <2>3. e \in Nat
    <3>1. intents[q] \in Chains /\ MaxEvents \in Nat
      BY <1>0, LedgerConstants DEF LedgerTypeOK
    <3> QED
      BY <3>1, EventsAre DEF Events
  <2> QED
    BY <2>1, <2>2, <2>3
<1>4. Call(p) => \A o \in orphans : Carried(p)' \cap Of(o) = {}
  <2> SUFFICES ASSUME Call(p), NEW o \in orphans, NEW e \in Carried(p)', e \in Of(o) PROVE FALSE
    BY Zenon
  <2>1. made < e /\ made \in Nat
    BY <1>0, CallIs DEF Carried
  <2>2. e <= made
    BY DEF LedgerInv, RecordsOK, MadeOK
  <2>3. e \in Nat
    <3>1. o \in Chains /\ MaxEvents \in Nat
      BY <1>0, LedgerConstants DEF LedgerTypeOK
    <3> QED
      BY <3>1, EventsAre DEF Events
  <2> QED
    BY <2>1, <2>2, <2>3
<1>5. CASE WriteIntent(p)
  <2>1. /\ intents'[p] = tx.chain /\ Of(tx.chain) = Of(db.chain) \cup Carried(p) /\ Carried(p) # {}
        /\ \A q \in Procs : q # p => intents'[q] = intents[q]
        /\ orphans' = orphans /\ work'[p].at = "anchor" /\ work'[p].items = work[p].items
    BY <1>0, <1>5, IntentHas, WriteIntentIs DEF Same
  <2>2. /\ \A q \in Procs : q # p => intents[q] # tx.chain
        /\ tx.chain \notin orphans
    BY <1>0, <2>1
  <2>3. \A q \in Procs : Carried(q)' = Carried(q)
    BY <1>2, <2>1 DEF Carried
  <2>4. \A q, r \in Procs : q # r /\ intents'[q] = intents'[r] => intents'[q] = << >>
    BY <1>0, <2>1, <2>2
  <2>5. \A q \in Procs : intents'[q] \in orphans' => intents'[q] = << >>
    BY <1>0, <2>1, <2>2
  <2>6. \A q, r \in Procs : r # q => Carried(q)' \cap Of(intents'[r]) = {}
    BY <1>0, <1>1, <2>1, <2>3
  <2>7. \A q \in Procs : \A o \in orphans' : Carried(q)' \cap Of(o) = {}
    BY <1>0, <2>1, <2>3
  <2>8. \A q \in Procs :
          work'[q].at \notin Appending \cup {"spool"} => Carried(q)' \cap Of(intents'[q]) = {}
    BY <1>0, <1>2, <2>1, <2>3 DEF Appending
  <2> QED
    BY <1>0, <2>1, <2>4, <2>5, <2>6, <2>7, <2>8, CarriedIs DEF IntentsOwn
<1>6. CASE ~WriteIntent(p)
  <2>1. /\ \A q \in Procs : intents'[q] \in {intents[q], << >>}
        /\ orphans' \subseteq orphans \/ Crash(p)
        /\ Crash(p) => orphans' = orphans \cup ({intents[p]} \ {<< >>}) /\ intents'[p] = << >>
    BY <1>6, IntentsMove
  <2>2. Crash(p) => Carried(p)' = {} /\ ~Call(p)
    <3>1. Crash(p) => work'[p].items = << >> /\ work'[p].at = "idle"
      BY <1>0, CrashIs, RestingIs
    <3> QED
      BY <1>0, <1>2, <3>1, CallIs
  <2>3. \A q \in Procs : Of(intents'[q]) \subseteq Of(intents[q])
    BY <2>1, OfEmpty
  <2>4. \A q, r \in Procs : q # r /\ intents'[q] = intents'[r] => intents'[q] = << >>
    BY <1>0, <2>1
  <2>5. \A q \in Procs : intents'[q] \in orphans' => intents'[q] = << >>
    <3>1. CASE Crash(p)
      BY <1>0, <2>1, <3>1
    <3> QED
      BY <1>0, <2>1, <3>1
  <2>6. << >> \notin orphans'
    BY <1>0, <2>1
  <2>7. \A q, r \in Procs : r # q => Carried(q)' \cap Of(intents'[r]) = {}
    <3> SUFFICES ASSUME NEW q \in Procs, NEW r \in Procs, r # q
                 PROVE  Carried(q)' \cap Of(intents[r]) = {}
      BY <2>3, Zenon
    <3> QED
      BY <1>0, <1>2, <1>3
  <2>8. \A q \in Procs : \A o \in orphans' : Carried(q)' \cap Of(o) = {}
    <3>1. \A q \in Procs : \A o \in orphans : Carried(q)' \cap Of(o) = {}
      BY <1>0, <1>2, <1>4
    <3>2. CASE Crash(p)
      BY <1>0, <1>2, <2>1, <2>2, <3>1, <3>2
    <3> QED
      BY <2>1, <3>1, <3>2
  <2>9. \A q \in Procs :
          work'[q].at \notin Appending \cup {"spool"} => Carried(q)' \cap Of(intents'[q]) = {}
    <3> SUFFICES ASSUME NEW q \in Procs, work'[q].at \notin Appending \cup {"spool"}
                 PROVE  Carried(q)' \cap Of(intents'[q]) = {}
      OBVIOUS
    <3>1. CASE q # p
      BY <1>0, <1>2, <2>3, <3>1
    <3>2. CASE q = p /\ Call(p)
      BY <1>3, <2>3, <3>2
    <3>3. CASE q = p /\ ~Call(p)
      <4>1. CASE work[p].at \in Appending \cup {"spool"}
        BY <1>2, <3>3, <4>1, StaysAppending
      <4>2. CASE work[p].at \notin Appending \cup {"spool"}
        BY <1>0, <1>2, <2>3, <3>3, <4>2
      <4> QED
        BY <4>1, <4>2
    <3> QED
      BY <3>1, <3>2, <3>3
  <2> QED
    BY <2>4, <2>5, <2>6, <2>7, <2>8, <2>9, CarriedIs DEF IntentsOwn
<1> QED
  BY <1>5, <1>6

LEMMA NamedIs ==
  /\ ~IsNamed <=> (\A q \in Procs : intents[q] # anchor) /\ anchor \notin orphans
  /\ ~IsNamed' <=> (\A q \in Procs : intents'[q] # anchor') /\ anchor' \notin orphans'
BY DEF IsNamed, NamedBy

\* The anchor is a prefix of the ledger.
LEMMA InChainIs ==
  /\ LedgerTypeOK => (InChain(db) <=> Extends(db.chain, anchor))
  /\ LedgerTypeOK' => (InChain(db)' <=> Extends(db'.chain, anchor'))
<1>1. ASSUME LedgerTypeOK PROVE InChain(db) <=> Extends(db.chain, anchor)
  <2>1. db.chain \in Seq(Events) /\ anchor \in Seq(Events)
    BY <1>1 DEF LedgerTypeOK, Ledgers, Chains
  <2>2. Len(db.chain) \in Nat /\ Len(anchor) \in Nat
    BY <2>1
  <2>3. Len(anchor) <= Len(db.chain) <=> ~Ahead(db)
    BY <2>2 DEF Ahead
  <2> QED
    BY <2>1, <2>3, PrefixIsHash DEF InChain
<1>2. ASSUME LedgerTypeOK' PROVE InChain(db)' <=> Extends(db'.chain, anchor')
  <2>1. db'.chain \in Seq(Events) /\ anchor' \in Seq(Events)
    BY <1>2 DEF LedgerTypeOK, Ledgers, Chains
  <2>2. Len(db'.chain) \in Nat /\ Len(anchor') \in Nat
    BY <2>1
  <2>3. Len(anchor') <= Len(db'.chain) <=> ~Ahead(db)'
    BY <2>2 DEF Ahead
  <2> QED
    BY <2>1, <2>3, PrefixIsHash DEF InChain
<1> QED
  BY <1>1, <1>2

\* What a process knows of its intent while it has the lock, and after COMMIT.
LEMMA ProvesStep ==
  ASSUME LedgerInv, NEW p \in Procs, Acts(p), NEW q \in Procs
  PROVE  Proves(q)'
<1>0. /\ LedgerTypeOK /\ LedgerTypeOK' /\ LockOK /\ WorkOK /\ WorkOK' /\ TxOK /\ ArchiveOK
      /\ IntentsOwn /\ Proves(p) /\ Proves(q) /\ Others(p) /\ Appends(p) /\ Decides(p)
      /\ Extends(db'.chain, db.chain)
  BY TypeParts, TypesStep, LockStep, WorkStep, OthersMove, ChainGrows
     DEF LedgerInv, IntentsOK, TxOK, WorkOK
<1>1. /\ db.chain \in Seq(Events) /\ db'.chain \in Seq(Events) /\ tx.chain \in Seq(Events)
      /\ anchor \in Seq(Events) /\ intents[q] \in Seq(Events) /\ db \in Ledgers
      /\ Len(db.chain) \in Nat /\ Len(tx.chain) \in Nat /\ Len(anchor) \in Nat
      /\ db.boundary \in Nat
  <2>1. db \in Ledgers /\ db' \in Ledgers /\ tx \in Ledgers /\ anchor \in Chains /\ intents[q] \in Chains
    BY <1>0 DEF LedgerTypeOK
  <2>2. /\ db.chain \in Seq(Events) /\ db'.chain \in Seq(Events) /\ tx.chain \in Seq(Events)
        /\ anchor \in Seq(Events) /\ intents[q] \in Seq(Events) /\ db.boundary \in Nat
    BY <2>1 DEF Ledgers, Chains
  <2> QED
    BY <2>1, <2>2
<1>2. Extends(db'.chain, << >>)
  BY <1>1 DEF Extends
<1>3. CASE q # p /\ work[q].at \in Locked
  <2>1. /\ UNCHANGED <<db, tx>> /\ Alike(q) /\ intents'[q] \in {intents[q], << >>}
        /\ anchor' = anchor \/ (StoreSeen(p) /\ Takes(p) /\ anchor' = work[p].row)
    BY <1>3, OnlyTheWriter
  <2>2. CASE anchor' = anchor
    <3>1. InChain(db)' = InChain(db)
      BY <2>1, <2>2 DEF InChain, Ahead
    <3>2. work[q].at \in {"append", "intent"} =>
            anchor' = << >> \/ InChain(db)' \/ (intents'[q] = anchor' => q \in work'[q].fork)
      BY <1>0, <2>1, <2>2, <3>1 DEF Proves, Alike
    <3> QED
      BY <1>0, <1>3, <2>1, <3>2 DEF Proves, Alike, Locked
  <2>3. CASE StoreSeen(p) /\ anchor' = work[p].row
    <3>1. Extends(db.chain, work[p].row)
      BY <2>3 DEF LedgerInv, SeenOK, Seen, StoreSeen, At
    <3>2. InChain(db)'
      BY <1>0, <2>1, <2>3, <3>1, InChainIs
    <3> QED
      BY <1>0, <1>3, <2>1, <3>2 DEF Proves, Alike, Locked
  <2> QED
    BY <2>1, <2>2, <2>3
<1>4. CASE q # p /\ work[q].at \notin Locked
  <2>1. work'[q].at = work[q].at /\ ~work'[q].anchored
    BY <1>0, <1>4 DEF Others, Alike, WorkOK, Decides, Appending, Locked
  <2>2. intents'[q] \in {intents[q], << >>}
    BY <1>4, IntentsMove
  <2>3. work[q].at = "clear" => Extends(db'.chain, intents'[q])
    <3>1. work[q].at = "clear" => Extends(db.chain, intents[q])
      BY <1>0 DEF Proves
    <3>2. work[q].at = "clear" => Extends(db'.chain, intents[q])
      BY <1>0, <1>1, <3>1, ExtendsTwice
    <3> QED
      BY <1>2, <2>2, <3>2
  <2>4. work[q].at \notin {"append", "intent", "anchor"}
    BY <1>4 DEF Locked
  <2> QED
    BY <2>1, <2>3, <2>4 DEF Proves
<1>5. CASE q = p
  <2> SUFFICES Proves(p)'
    BY <1>5
  <2>0. Appends(p) /\ Decides(p) /\ (work'[p].anchored => work'[p].at \in Appending)
    BY <1>0 DEF WorkOK, Decides
  <2>1. CASE Reconcile(p)
    <3>1. tx = db /\ work[p].at = "reconcile"
      BY <1>0, <2>1 DEF Appends, Reconcile, At
    <3>2. /\ work'[p].at = "append" /\ ~Alarm(db) /\ ~work'[p].anchored /\ UNCHANGED db
          /\ \/ anchor' = db.chain
             \/ UNCHANGED <<anchor, intents, orphans>> /\ work'[p].fork = ForkFiles(db)
      BY <1>0, <2>0, <2>1, <3>1, ReconcileIs DEF Same, Appending
    <3>3. CASE anchor' = db.chain
      <4>1. Extends(db'.chain, anchor')
        BY <1>1, <3>2, <3>3, ExtendsSelf
      <4>2. InChain(db)'
        BY <1>0, <4>1, InChainIs
      <4> QED
        BY <3>2, <4>2 DEF Proves
    <3>4. CASE UNCHANGED <<anchor, intents, orphans>> /\ work'[p].fork = ForkFiles(db)
      <4>1. InChain(db)' = InChain(db)
        BY <3>2, <3>4 DEF InChain, Ahead
      <4>2. anchor = << >> \/ InChain(db) \/ Forked(db)
        <5> SUFFICES ASSUME anchor # << >>, ~InChain(db) PROVE Forked(db)
          OBVIOUS
        <5>1. ~Ahead(db) /\ ~(Len(anchor) <= db.boundary)
          BY <3>2 DEF Alarm
        <5>2. Len(anchor) <= Len(db.chain)
          BY <1>1, <5>1 DEF Ahead
        <5>3. Len(anchor) \in db.boundary + 1 .. Len(db.chain)
          BY <1>1, <5>1, <5>2
        <5> QED
          BY <5>3 DEF Forked
      <4>3. Forked(db) /\ intents[p] = anchor => p \in work'[p].fork
        BY <3>4 DEF ForkFiles, NamedBy
      <4> QED
        BY <3>2, <3>4, <4>1, <4>2, <4>3 DEF Proves
    <3> QED
      BY <3>2, <3>3, <3>4
  <2>2. CASE AppendRecords(p)
    <3>1. /\ work[p].at = "append" /\ work'[p].fork = work[p].fork
          /\ work'[p].at = IF work'[p].anchored THEN "intent" ELSE "project"
          /\ UNCHANGED <<db, anchor, intents, orphans>>
      BY <1>0, <2>2, AppendRecordsIs
    <3>2. InChain(db)' = InChain(db)
      BY <3>1 DEF InChain, Ahead
    <3>3. work'[p].anchored => work'[p].at = "intent"
      BY <3>1
    <3>4. anchor = << >> \/ InChain(db) \/ (intents[p] = anchor => p \in work[p].fork)
      BY <1>0, <3>1 DEF Proves
    <3> QED
      BY <3>1, <3>2, <3>3, <3>4 DEF Proves
  <2>3. CASE WriteIntent(p)
    <3>1. work'[p].at = "anchor" /\ intents'[p] = tx.chain /\ tx' = tx
      BY <1>0, <2>3, WriteIntentIs
    <3> QED
      BY <3>1 DEF Proves
  <2>4. CASE StoreAnchor(p)
    <3>1. /\ work[p].at = "anchor" /\ work'[p].at = "project" /\ UNCHANGED tx
          /\ intents'[p] \in {intents[p], << >>}
      BY <1>0, <2>4, StoreAnchorIs DEF Fewer
    <3> QED
      BY <1>0, <3>1 DEF Proves
  <2>5. CASE Project(p) \/ Archive(p) \/ Rebuild(p) \/ ProjectFails(p)
    <3>1. /\ work[p].at \in {"project", "archive", "rebuild"}
          /\ work'[p].at \in {"archive", "rebuild", "commit"}
          /\ work'[p].anchored = work[p].anchored
          /\ tx'.chain = tx.chain /\ intents'[p] = intents[p]
      <4>1. CASE Project(p) \/ Archive(p) \/ Rebuild(p)
        BY <1>0, <4>1, ProjectIs, ArchiveIs, RebuildIs DEF Same
      <4>2. CASE ProjectFails(p)
        BY <1>0, <4>2, GoToIs, TypeWork DEF ProjectFails, At, Places, stored, head, Same
      <4> QED
        BY <2>5, <4>1, <4>2
    <3> QED
      BY <1>0, <3>1 DEF Proves
  <2>6. CASE Heal(p)
    <3>1. work[p].at = "heal" /\ work'[p].at = "project" /\ Same(p)
      BY <1>0, <2>6, HealIs
    <3>2. ~work'[p].anchored
      BY <2>0, <3>1 DEF Decides, Appending, Same
    <3> QED
      BY <3>1, <3>2 DEF Proves
  <2>7. CASE Lock(p)
    <3>1. work'[p].at = "reconcile"
      BY <1>0, <2>7, LockIs
    <3> QED
      BY <2>0, <3>1 DEF Proves, Appending
  <2>8. CASE Commit(p)
    <3>1. /\ work[p].at = "commit" /\ Empty(work'[p]) /\ db' = tx /\ intents'[p] = intents[p]
          /\ work'[p].at = IF work[p].anchored THEN "clear" ELSE "idle"
      BY <1>0, <2>8, CommitIs
    <3>2. work[p].anchored => intents[p] \in {<< >>, tx.chain}
      BY <1>0, <3>1 DEF Proves
    <3>3. work[p].anchored => Extends(db'.chain, intents'[p])
      BY <1>1, <1>2, <3>1, <3>2, ExtendsSelf
    <3> QED
      BY <3>1, <3>3 DEF Proves, Empty
  <2>9. CASE ~Commit(p) /\ work'[p].at \notin Locked
    <3>1. work'[p].at # "clear"
      <4>1. CASE Call(p) \/ Drain(p) \/ VerifyPasses(p) \/ Inspect(p) \/ TakeSpool(p) \/ Unlink(p)
                 \/ NothingToDrain(p) \/ Poll(p)
        BY <1>0, <4>1, CallIs, DrainIs, VerifyPassesIs, InspectIs, TakeSpoolIs, UnlinkIs,
           NothingToDrainIs, PollIs DEF Prepares
      <4>7. CASE Look(p) \/ StoreSeen(p) \/ ForkConsumed(p)
        BY <1>0, <4>7, LookIs, StoreSeenIs, ForkConsumedIs DEF Goes
      <4>2. CASE Throws(p)
        BY <1>0, <4>2, ThrowsIs, ThrowIs
      <4>3. CASE ClearIntent(p) \/ Spool(p) \/ Crash(p)
        BY <1>0, <4>3, ClearIntentIs, SpoolIs, CrashIs, RestingIs
      <4>4. CASE LosesRace(p) \/ ProjectFails(p)
        BY <1>0, <4>4, WalksIs, <4>1, <4>7 DEF Walks
      <4>5. CASE Lock(p) \/ Reconcile(p) \/ AppendRecords(p) \/ WriteIntent(p) \/ StoreAnchor(p)
                 \/ Project(p) \/ Archive(p) \/ Rebuild(p)
        <5>1. Reconcile(p) => tx = db
          BY <1>0 DEF Appends, Reconcile, At
        <5> QED
          BY <1>0, <4>5, <5>1, LockIs, ReconcileIs, AppendRecordsIs, WriteIntentIs, StoreAnchorIs,
             ProjectIs, ArchiveIs, RebuildIs
      <4>6. CASE Heal(p)
        BY <1>0, <4>6, HealIs
      <4> QED
        BY <2>9, <4>1, <4>2, <4>3, <4>4, <4>5, <4>6, <4>7, Zenon DEF Acts, Step, Throws
    <3>2. ~work'[p].anchored
      BY <2>0, <2>9 DEF Appending, Locked
    <3> QED
      BY <2>9, <3>1, <3>2 DEF Proves, Locked
  <2> QED
    BY <2>1, <2>2, <2>3, <2>4, <2>5, <2>6, <2>7, <2>8, <2>9, Leaving, Zenon
<1> QED
  BY <1>3, <1>4, <1>5

\* Rows that were read stay, and an anchor that is a row or of a later event
\* stays one.
LEMMA SeenStays ==
  ASSUME LedgerInv, NEW p \in Procs, Acts(p), NEW row \in Chains, Extends(db.chain, row)
  PROVE  /\ Extends(db'.chain, row)
         /\ InChain(db) \/ Len(anchor) > Len(row) => InChain(db)' \/ Len(anchor') > Len(row)
<1>0. /\ LedgerTypeOK /\ LedgerTypeOK' /\ Extends(db'.chain, db.chain)
      /\ db.chain \in Seq(Events) /\ db'.chain \in Seq(Events) /\ anchor \in Seq(Events)
      /\ anchor' \in Seq(Events) /\ row \in Seq(Events)
  <2>1. LedgerTypeOK /\ LedgerTypeOK' /\ Extends(db'.chain, db.chain)
    BY TypeParts, TypesStep, LockStep, ChainGrows DEF LedgerInv
  <2>2. db \in Ledgers /\ db' \in Ledgers /\ anchor \in Chains /\ anchor' \in Chains
    BY <2>1 DEF LedgerTypeOK
  <2> QED
    BY <2>1, <2>2 DEF Ledgers, Chains
<1>1. Extends(db'.chain, row)
  BY <1>0, ExtendsTwice
<1>2. Extends(db.chain, anchor') => InChain(db)'
  <2>1. Extends(db.chain, anchor') => Extends(db'.chain, anchor')
    BY <1>0, ExtendsTwice
  <2> QED
    BY <1>0, <2>1, InChainIs
<1>3. ASSUME InChain(db) \/ Len(anchor) > Len(row) PROVE InChain(db)' \/ Len(anchor') > Len(row)
  <2>1. CASE anchor' = anchor
    BY <1>0, <1>2, <1>3, <2>1, InChainIs
  <2>2. CASE Extends(anchor', db.chain)
    <3>1. CASE Len(anchor') > Len(row)
      BY <3>1
    <3>2. CASE ~(Len(anchor') > Len(row))
      <4>1. Len(anchor') = Len(db.chain)
        BY <1>0, <2>2, <3>2 DEF Extends
      <4>2. Extends(db.chain, anchor')
        BY <1>0, <2>2, <4>1 DEF Extends
      <4> QED
        BY <1>2, <4>2
    <3> QED
      BY <3>1, <3>2
  <2>3. CASE Extends(db.chain, anchor')
    BY <1>2, <2>3
  <2> QED
    BY <2>1, <2>2, <2>3, AnchorMoves
<1> QED
  BY <1>1, <1>3

LEMMA SeenStep ==
  ASSUME LedgerInv, NEW p \in Procs, Acts(p), NEW q \in Procs
  PROVE  Seen(q)'
<1>0. /\ LedgerTypeOK /\ LedgerTypeOK' /\ WorkOK /\ TxOK /\ ArchiveOK /\ Others(p) /\ Seen(q)
      /\ work[q].row \in Chains /\ db.chain \in Seq(Events)
  <2>1. LedgerTypeOK /\ LedgerTypeOK' /\ Others(p) /\ WorkOK /\ TxOK /\ ArchiveOK /\ Seen(q)
    BY TypeParts, TypesStep, LockStep, OthersMove DEF LedgerInv, SeenOK
  <2> QED
    BY <2>1, TypeWork DEF LedgerTypeOK, Ledgers, Chains, Work
<1>1. CASE q # p
  <2>1. work'[q].at = work[q].at /\ work'[q].row = work[q].row
    BY <1>0, <1>1 DEF Others, Alike
  <2> QED
    BY <1>0, <2>1, SeenStays DEF Seen
<1>2. CASE q = p /\ Look(p)
  <2>1. /\ db' = db /\ work'[p].at # "consume"
        /\ work'[p].at = "store" => work'[p].row = db.chain
    BY <1>0, <1>2, LookIs DEF Goes
  <2> QED
    BY <1>0, <1>2, <2>1, ExtendsSelf DEF Seen
<1>3. CASE q = p /\ StoreSeen(p)
  <2>1. /\ db' = db /\ work[p].at = "store" /\ work'[p].at # "store"
        /\ work'[p].at = "consume" => work'[p].row = work[p].row
        /\ anchor' = work[p].row \/ (anchor' = anchor /\ InChain(db))
    BY <1>0, <1>3, StoreSeenIs DEF Goes
  <2>2. Extends(db.chain, work[p].row)
    BY <1>0, <1>3, <2>1 DEF Seen
  <2>3. Extends(db.chain, anchor')
    BY <1>0, <2>1, <2>2, InChainIs
  <2>4. InChain(db)'
    BY <1>0, <2>1, <2>3, InChainIs
  <2> QED
    BY <1>3, <2>1, <2>2, <2>4 DEF Seen
<1>4. CASE q = p /\ ~Look(p) /\ ~StoreSeen(p)
  <2>1. CASE Call(p) \/ Drain(p) \/ VerifyPasses(p) \/ Inspect(p) \/ TakeSpool(p) \/ Unlink(p)
    BY <1>0, <1>4, <2>1, CallIs, DrainIs, VerifyPassesIs, InspectIs, TakeSpoolIs, UnlinkIs
       DEF Prepares, Seen
  <2>2. CASE Walks(p)
    BY <1>0, <1>4, <2>2, WalksIs, PollIs, NothingToDrainIs DEF Prepares, Seen
  <2>3. CASE Throws(p)
    <3>1. work'[p].at \in {"spool", "idle"}
      BY <1>0, <2>3, ThrowsIs, ThrowIs
    <3> QED
      BY <1>4, <3>1 DEF Seen
  <2>4. CASE ClearIntent(p) \/ Spool(p) \/ Crash(p) \/ Commit(p) \/ ForkConsumed(p) \/ Heal(p)
    BY <1>0, <1>4, <2>4, ClearIntentIs, SpoolIs, CrashIs, CommitIs, ForkConsumedIs, HealIs, RestingIs
       DEF Goes, Seen
  <2>5. CASE Lock(p) \/ AppendRecords(p) \/ WriteIntent(p) \/ StoreAnchor(p) \/ Project(p) \/ Rebuild(p)
    BY <1>0, <1>4, <2>5, LockIs, AppendRecordsIs, WriteIntentIs, StoreAnchorIs, ProjectIs, RebuildIs
       DEF Seen
  <2>6. CASE Reconcile(p)
    <3>1. tx = db
      BY <1>0, <2>6 DEF TxOK, Appends, Reconcile, At
    <3> QED
      BY <1>0, <1>4, <2>6, <3>1, ReconcileIs DEF Seen
  <2>7. CASE Archive(p)
    BY <1>0, <1>4, <2>7, ArchiveIs DEF Seen
  <2> QED
    BY <1>4, <2>1, <2>2, <2>3, <2>4, <2>5, <2>6, <2>7, Zenon DEF Acts, Step, Walks, Throws
<1> QED
  BY <1>1, <1>2, <1>3, <1>4

-----------------------------------------------------------------------------
(* The theorems *)

LEMMA InvStep == LedgerInv /\ [LedgerNext]_ledgerVars => LedgerInv'
<1>1. ASSUME LedgerInv, NEW p \in Procs, Acts(p) PROVE LedgerInv'
  <2>1. LedgerTypeOK'
    BY <1>1, TypesStep, LockStep, TypeParts
  <2>2. WorkOK' /\ TxOK' /\ ArchiveOK' /\ RecordsOK' /\ IntentsOwn'
    BY <1>1, WorkStep, TxStep, ArchiveStep, RecordsStep, OwnStep
  <2>3. \A q \in Procs : Proves(q)' /\ Seen(q)'
    BY <1>1, ProvesStep, SeenStep
  <2> QED
    BY <2>1, <2>2, <2>3 DEF LedgerInv, IntentsOK, SeenOK
<1>2. ASSUME LedgerInv, UNCHANGED ledgerVars PROVE LedgerInv'
  <2>1. /\ LedgerTypeOK' /\ WorkOK' /\ TxOK' /\ ArchiveOK'
    BY <1>2 DEF LedgerInv, ledgerVars, LedgerTypeOK, WorkOK, Carries, Decides, Recording, Busy, TxOK,
       Appends, Leaves, Names, ArchiveOK
  <2>2. RecordsOK'
    <3>1. /\ Once(db.chain) /\ (\A q \in Procs : Pending(q)) /\ FilesOK /\ MadeOK /\ ToldOK
      BY <1>2 DEF LedgerInv, RecordsOK
    <3>2. UNCHANGED <<db, anchor, intents, orphans, spool, ingests, work, witness, told, made>>
      BY <1>2 DEF ledgerVars
    <3>3. Spooled' = Spooled
      BY <3>2, SpooledSame
    <3>i. \A q \in Procs : ItemsOf(q)' = ItemsOf(q)
      BY <3>2 DEF ItemsOf
    <3>4. \A q \in Procs : Pending(q)'
      BY <3>1, <3>2, <3>3, <3>i DEF Pending
    <3>5. FilesOK'
      BY <3>1, <3>2, <3>3 DEF FilesOK
    <3>6. MadeOK'
      BY <3>1, <3>2, <3>3, <3>i DEF MadeOK
    <3>7. ToldOK'
      BY <3>1, <3>2, <3>3 DEF ToldOK
    <3> QED
      BY <3>1, <3>2, <3>4, <3>5, <3>6, <3>7 DEF RecordsOK
  <2>3. IntentsOK'
    <3>1. IntentsOwn /\ \A q \in Procs : Proves(q)
      BY <1>2 DEF LedgerInv, IntentsOK
    <3>2. UNCHANGED <<db, tx, anchor, intents, orphans, work>>
      BY <1>2 DEF ledgerVars
    <3>i. \A q \in Procs : ItemsOf(q)' = ItemsOf(q)
      BY <3>2 DEF ItemsOf
    <3>3. IntentsOwn'
      BY <3>1, <3>2, <3>i DEF IntentsOwn
    <3>4. InChain(db)' = InChain(db)
      BY <3>2 DEF InChain, Ahead
    <3>5. \A q \in Procs : Proves(q)'
      BY <3>1, <3>2, <3>4 DEF Proves
    <3> QED
      BY <3>3, <3>5 DEF IntentsOK
  <2>4. SeenOK'
    <3>1. InChain(db)' = InChain(db)
      BY <1>2 DEF ledgerVars, InChain, Ahead
    <3> QED
      BY <1>2, <3>1 DEF LedgerInv, ledgerVars, SeenOK, Seen
  <2> QED
    BY <2>1, <2>2, <2>3, <2>4 DEF LedgerInv
<1> QED
  BY <1>1, <1>2, Zenon DEF LedgerNext, Acts

\* The first ledger has the events 1 .. n.
LEMMA FirstChain ==
  ASSUME NEW n \in 0 .. Earlier
  PROVE  LET c == [i \in 1 .. n |-> i]
         IN  c \in Chains /\ Len(c) = n /\ Once(c) /\ Of(c) = 1 .. n
<1>1. n \in Nat /\ n <= MaxEvents /\ MaxEvents \in Nat
  BY LedgerConstants
<1>2. PICK c : c = [i \in 1 .. n |-> i]
  OBVIOUS
<1>3. c \in Seq(Events) /\ Len(c) = n /\ DOMAIN c = 1 .. n
  BY <1>1, <1>2 DEF Events
<1>4. Once(c) /\ Of(c) = 1 .. n
  BY <1>2 DEF Once, Of
<1> QED
  BY <1>2, <1>3, <1>4 DEF Chains

LEMMA InvInit == LedgerInit => LedgerInv
<1> SUFFICES ASSUME LedgerInit PROVE LedgerInv
  OBVIOUS
<1>1. PICK n \in 0 .. Earlier :
        /\ db = [chain |-> [i \in 1 .. n |-> i], boundary |-> 0, cursor |-> n]
        /\ told = [e \in Events |-> IF e <= n THEN "durable" ELSE "nothing"]
        /\ \E k \in 0 .. n : anchor = Hash(db.chain, k)
  BY DEF LedgerInit
<1>2. n \in Nat /\ n <= Earlier /\ Earlier \in 0 .. MaxEvents /\ MaxEvents \in Nat /\ MaxFaults \in Nat
      /\ Nobody \notin Procs
  BY LedgerConstants
<1>3. /\ db.chain \in Seq(Events) /\ Len(db.chain) = n /\ Once(db.chain) /\ Of(db.chain) = 1 .. n
      /\ db.boundary = 0 /\ db \in Ledgers
  <2>1. PICK c : c = [i \in 1 .. n |-> i]
    OBVIOUS
  <2>2. c \in Chains /\ Len(c) = n /\ Once(c) /\ Of(c) = 1 .. n
    BY <2>1, FirstChain
  <2>3. db = [chain |-> c, boundary |-> 0, cursor |-> n]
    BY <1>1, <2>1
  <2> QED
    BY <1>2, <2>2, <2>3 DEF Ledgers, Chains
<1>4. PICK k \in 0 .. n : anchor = Hash(db.chain, k)
  BY <1>1
<1>5. anchor \in Seq(Events) /\ Len(anchor) = k
  BY <1>2, <1>3, <1>4, HashIs
<1>6. /\ tx = db /\ writer = Nobody /\ intents = [p \in Procs |-> << >>] /\ orphans = {}
      /\ archive = << >> /\ spool = << >> /\ ingests = {} /\ witness = {}
      /\ made = Earlier /\ faults = 0 /\ projection = Exactly(db)
  BY DEF LedgerInit
<1>7. /\ work \in [Procs -> Work]
      /\ \A p \in Procs : work[p].at = "idle" /\ work[p].kind = "record" /\ Empty(work[p])
  <2>1. PICK w \in {Resting, Fresh} : work = [p \in Procs |-> w]
    BY DEF LedgerInit
  <2> QED
    BY <2>1, RestingType, RestingIs
<1>8. \A p \in Procs : work[p].items = << >> /\ ~work[p].roll /\ ~work[p].anchored
  BY <1>7 DEF Empty
<1>9. << >> \in Chains
  BY DEF Chains
<1>10. LedgerTypeOK
  <2>1. told \in [Events -> {"nothing", "durable", "anchored", "spooled"}]
    BY <1>1
  <2>2. projection \in [from : Nat, chain : Chains]
    BY <1>3, <1>6, ExactlyType
  <2>3. LockOK
    BY <1>2, <1>6, <1>7 DEF LockOK, Locked
  <2>4. Types
    BY <1>2, <1>3, <1>5, <1>6, <1>7, <1>9, <2>1, <2>2 DEF Types, Chains
  <2> QED
    BY <2>3, <2>4, TypeParts
<1>11. WorkOK
  <2>1. MaxTogether \in Nat
    BY LedgerConstants
  <2> QED
    BY <1>7, <1>8, <2>1 DEF WorkOK, Carries, Decides, Busy, Recording
<1>12. TxOK
  BY <1>7, <1>8 DEF TxOK, Appends, Leaves, Names, Appending
<1>13. ArchiveOK
  BY <1>2, <1>3, <1>5, <1>6 DEF ArchiveOK
<1>14. RecordsOK
  <2>1. Spooled = {}
    BY <1>6, OfEmpty DEF Spooled
  <2>2. \A p \in Procs : ItemsOf(p) = {} /\ Once(work[p].items)
    BY <1>8, OfEmpty DEF ItemsOf, Of
  <2>3. \A p \in Procs : Pending(p)
    BY <2>2 DEF Pending
  <2>4. FilesOK
    BY <1>3, <1>6, <1>7, <1>8, <2>1, OfEmpty DEF FilesOK
  <2>5. MadeOK
    BY <1>2, <1>3, <1>6, <2>1, <2>2, OfEmpty DEF MadeOK
  <2>6. ToldOK
    <3>1. \A e \in Events : told[e] # "anchored" /\ told[e] # "spooled"
      BY <1>1
    <3>2. \A e \in Events : told[e] = "durable" => e <= n
      BY <1>1
    <3>3. \A e \in Events : e <= n => e \in 1 .. n
      BY <1>2 DEF Events
    <3> QED
      BY <1>3, <3>1, <3>2, <3>3 DEF ToldOK
  <2> QED
    BY <1>3, <2>3, <2>4, <2>5, <2>6 DEF RecordsOK
<1>15. IntentsOK
  <2>1. \A p \in Procs : ItemsOf(p) = {}
    BY <1>8, OfEmpty DEF ItemsOf, Of
  <2>2. IntentsOwn
    BY <1>6, <2>1 DEF IntentsOwn
  <2> QED
    BY <1>7, <1>8, <2>2 DEF IntentsOK, Proves
<1>16. SeenOK
  BY <1>7 DEF SeenOK, Seen
<1> QED
  BY <1>10, <1>11, <1>12, <1>13, <1>14, <1>15, <1>16 DEF LedgerInv

\* record(), retention, the health poll and crashes between any of their steps keep
\* everything that makes the three properties below hold.
THEOREM LedgerInvariant == LedgerSpec => []LedgerInv
BY InvInit, InvStep, PTL DEF LedgerSpec

\* Types, and the lock: whoever works on the open transaction holds it.
THEOREM LedgerTypes == LedgerSpec => []LedgerTypeOK
<1>1. LedgerInv => LedgerTypeOK
  BY DEF LedgerInv
<1> QED
  BY <1>1, LedgerInvariant, PTL

\* appendEvent(), ingestEmergency() and requireRecord(): no record has two
\* rows, and what its caller was told of it is true.
THEOREM KeepsRecords == LedgerSpec => []RecordsKept
<1>1. LedgerInv => RecordsKept
  <2> SUFFICES ASSUME LedgerInv, NEW e \in Events
               PROVE  /\ Cardinality(RowsOf(e)) <= 1
                      /\ told[e] \in {"durable", "anchored"} => RowsOf(e) # {}
                      /\ told[e] = "anchored" =>
                           \E i \in RowsOf(e) : i <= Len(anchor) /\ Hash(anchor, i) = Hash(db.chain, i)
                      /\ told[e] = "spooled" =>
                           \/ RowsOf(e) # {}
                           \/ \E f \in ingests \cup {spool} : \E i \in DOMAIN f : f[i] = e
    BY DEF RecordsKept
  <2>1. /\ db.chain \in Seq(Events) /\ anchor \in Seq(Events) /\ Once(db.chain) /\ ToldOK
    <3>1. db \in Ledgers /\ anchor \in Chains
      BY DEF LedgerInv, LedgerTypeOK
    <3> QED
      BY <3>1 DEF Ledgers, Chains, LedgerInv, RecordsOK
  <2>2. e \in Of(db.chain) <=> RowsOf(e) # {}
    BY DEF Of, RowsOf
  <2>3. Cardinality(RowsOf(e)) <= 1
    <3>1. CASE RowsOf(e) = {}
      BY <3>1, FS_EmptySet
    <3>2. CASE RowsOf(e) # {}
      <4>1. PICK i \in DOMAIN db.chain : db.chain[i] = e
        BY <3>2 DEF RowsOf
      <4>2. RowsOf(e) = {i}
        BY <2>1, <4>1 DEF RowsOf, Once
      <4>3. Cardinality({i}) = 1
        BY FS_Singleton
      <4> QED
        BY <4>2, <4>3
    <3> QED
      BY <3>1, <3>2
  <2>4. told[e] \in {"durable", "anchored"} => RowsOf(e) # {}
    BY <2>1, <2>2 DEF ToldOK
  <2>5. ASSUME told[e] = "anchored"
        PROVE  \E i \in RowsOf(e) : i <= Len(anchor) /\ Hash(anchor, i) = Hash(db.chain, i)
    <3>1. PICK i \in DOMAIN db.chain :
            /\ db.chain[i] = e /\ i <= Len(anchor)
            /\ \A k \in 1 .. i : anchor[k] = db.chain[k]
      BY <2>1, <2>5 DEF ToldOK
    <3>2. i \in 0 .. Len(db.chain) /\ i \in 0 .. Len(anchor) /\ i \in RowsOf(e)
      BY <2>1, <3>1 DEF RowsOf
    <3>3. /\ Hash(db.chain, i) \in Seq(Events) /\ Len(Hash(db.chain, i)) = i
          /\ \A k \in 1 .. i : Hash(db.chain, i)[k] = db.chain[k]
      BY <2>1, <3>2, HashIs
    <3>4. /\ Hash(anchor, i) \in Seq(Events) /\ Len(Hash(anchor, i)) = i
          /\ \A k \in 1 .. i : Hash(anchor, i)[k] = anchor[k]
      BY <2>1, <3>2, HashIs
    <3>5. Hash(anchor, i) = Hash(db.chain, i)
      BY <3>1, <3>3, <3>4, SameSeq
    <3> QED
      BY <3>1, <3>2, <3>5
  <2>6. ASSUME told[e] = "spooled"
        PROVE  \/ RowsOf(e) # {}
               \/ \E f \in ingests \cup {spool} : \E i \in DOMAIN f : f[i] = e
    <3>1. e \in Of(db.chain) \cup Spooled
      BY <2>1, <2>6 DEF ToldOK
    <3> QED
      BY <2>2, <3>1 DEF Spooled, Of
  <2> QED
    BY <2>3, <2>4, <2>5, <2>6
<1> QED
  BY <1>1, LedgerInvariant, PTL

\* rollArchiveOnce() and appendArchiveEvent(): every row is archived once, in
\* its place, and before it leaves; the anchored row never leaves.
THEOREM ArchivesExactly == LedgerSpec => []ArchiveExact
<1>1. LedgerInv => ArchiveExact
  <2> SUFFICES ASSUME LedgerInv PROVE ArchiveExact
    OBVIOUS
  <2>1. db.boundary \in Nat /\ tx.boundary \in Nat /\ Len(archive) \in Nat
    BY DEF LedgerInv, LedgerTypeOK, Ledgers
  <2>2. db.boundary <= Len(archive)
    BY <2>1 DEF LedgerInv, ArchiveOK
  <2> QED
    BY <2>2 DEF LedgerInv, ArchiveOK, ArchiveExact
<1> QED
  BY <1>1, LedgerInvariant, PTL

LEMMA ProofStep ==
  ASSUME LedgerInv, NEW p \in Procs, Acts(p), AnchorProven
  PROVE  AnchorProven' \/ Overwrites(p) \/ StoresUnproven(p) \/ RemovesNewer(p)
<1>0. /\ LedgerTypeOK /\ LedgerTypeOK' /\ WorkOK /\ TxOK /\ ArchiveOK /\ Proves(p) /\ Seen(p)
      /\ Appends(p) /\ Extends(db'.chain, db.chain)
  BY TypeParts, TypesStep, LockStep, ChainGrows DEF LedgerInv, IntentsOK, SeenOK, TxOK
<1>1. /\ db.chain \in Seq(Events) /\ db'.chain \in Seq(Events) /\ anchor \in Seq(Events)
      /\ Len(anchor) \in Nat
  <2>1. db \in Ledgers /\ db' \in Ledgers /\ anchor \in Chains
    BY <1>0 DEF LedgerTypeOK
  <2> QED
    BY <2>1 DEF Ledgers, Chains
<1>2. ASSUME anchor = << >> \/ InChain(db), anchor' = anchor PROVE AnchorProven'
  <2>1. CASE anchor = << >>
    BY <1>2, <2>1 DEF AnchorProven
  <2>2. CASE InChain(db)
    <3>1. Extends(db.chain, anchor)
      BY <1>0, <2>2, InChainIs
    <3>2. Extends(db'.chain, anchor')
      BY <1>0, <1>1, <1>2, <3>1, ExtendsTwice
    <3> QED
      BY <1>0, <3>2, InChainIs DEF AnchorProven
  <2> QED
    BY <1>2, <2>1, <2>2
<1>3. ASSUME UNCHANGED <<anchor, intents, orphans>> PROVE AnchorProven'
  <2>1. IsNamed' = IsNamed
    BY <1>3 DEF IsNamed, NamedBy
  <2> QED
    BY <1>2, <1>3, <2>1 DEF AnchorProven
<1>4. CASE Reconcile(p) \/ Inspect(p)
  <2>1. Reconcile(p) => tx = db
    BY <1>0 DEF Appends, Reconcile, At
  <2>2. Reconciles /\ db' = db
    BY <1>0, <1>4, <2>1, ReconcileIs, InspectIs, Zenon
  <2>3. CASE anchor' = db.chain
    <3>1. Extends(db'.chain, anchor')
      BY <1>1, <2>2, <2>3, ExtendsSelf
    <3> QED
      BY <1>0, <3>1, InChainIs DEF AnchorProven
  <2> QED
    BY <1>3, <2>2, <2>3 DEF Reconciles
<1>5. CASE WriteIntent(p)
  <2>1. /\ work[p].at = "intent" /\ \A q \in Procs : q # p => intents'[q] = intents[q]
        /\ UNCHANGED <<anchor, orphans>>
    BY <1>0, <1>5, WriteIntentIs
  <2>2. CASE anchor = << >> \/ InChain(db)
    BY <1>2, <2>1, <2>2
  <2>3. CASE ~(anchor = << >> \/ InChain(db))
    <3>1. IsNamed
      BY <2>3 DEF AnchorProven
    <3>2. CASE (\E q \in Procs : q # p /\ intents[q] = anchor) \/ anchor \in orphans
      <4>1. IsNamed'
        BY <2>1, <3>2, NamedIs
      <4> QED
        BY <4>1 DEF AnchorProven
    <3>3. CASE intents[p] = anchor
      BY <1>0, <1>5, <2>1, <2>3, <3>3 DEF Proves, Overwrites
    <3> QED
      BY <3>1, <3>2, <3>3, NamedIs
  <2> QED
    BY <2>2, <2>3
<1>6. CASE StoreAnchor(p)
  <2>1. /\ work[p].at = "anchor" /\ anchor' = tx.chain
        /\ p \notin work[p].fork => intents'[p] = intents[p]
    BY <1>0, <1>6, StoreAnchorIs
  <2>2. CASE p \in work[p].fork \/ intents[p] = << >>
    BY <1>6, <2>2 DEF StoresUnproven
  <2>3. CASE ~(p \in work[p].fork \/ intents[p] = << >>)
    <3>1. intents'[p] = tx.chain
      BY <1>0, <2>1, <2>3 DEF Proves
    <3>2. IsNamed'
      BY <2>1, <3>1, NamedIs
    <3> QED
      BY <3>2 DEF AnchorProven
  <2> QED
    BY <2>2, <2>3
<1>7. CASE ClearIntent(p)
  <2>1. /\ work[p].at = "clear" /\ \A q \in Procs : q # p => intents'[q] = intents[q]
        /\ UNCHANGED <<anchor, orphans, db>>
    BY <1>0, <1>7, ClearIntentIs
  <2>2. CASE intents[p] = anchor
    <3>1. Extends(db.chain, anchor)
      BY <1>0, <2>1, <2>2 DEF Proves
    <3> QED
      BY <1>0, <1>2, <2>1, <3>1, InChainIs
  <2>3. CASE intents[p] # anchor
    <3>1. IsNamed => IsNamed'
      BY <2>1, <2>3, NamedIs
    <3> QED
      BY <1>2, <2>1, <3>1 DEF AnchorProven
  <2> QED
    BY <2>2, <2>3
<1>8. CASE Crash(p)
  <2>1. /\ anchor' = anchor /\ orphans' = orphans \cup ({intents[p]} \ {<< >>})
        /\ \A q \in Procs : q # p => intents'[q] = intents[q]
    BY <1>0, <1>8, CrashIs
  <2>2. anchor # << >> /\ IsNamed => IsNamed'
    BY <2>1, NamedIs
  <2> QED
    BY <1>2, <2>1, <2>2 DEF AnchorProven
<1>9. CASE StoreSeen(p)
  <2>1. /\ work[p].at = "store"
        /\ anchor' = work[p].row \/ (anchor' = anchor /\ InChain(db))
    BY <1>0, <1>9, StoreSeenIs
  <2>2. CASE anchor' = work[p].row
    <3>1. Extends(db.chain, anchor') /\ anchor' \in Seq(Events)
      BY <1>0, <2>1, <2>2 DEF Seen, LedgerTypeOK, Chains
    <3>2. Extends(db'.chain, anchor')
      BY <1>0, <1>1, <3>1, ExtendsTwice
    <3> QED
      BY <1>0, <3>2, InChainIs DEF AnchorProven
  <2> QED
    BY <1>2, <2>1, <2>2
<1>10. CASE ForkConsumed(p)
  <2>1. /\ work[p].at = "consume" /\ anchor' = anchor
        /\ orphans' = orphans \ work[p].left
        /\ \A q \in Procs : intents'[q] = IF q \in work[p].fork THEN << >> ELSE intents[q]
        /\ work[p].fork \in SUBSET Procs
    BY <1>0, <1>10, ForkConsumedIs, TypeWork DEF Work
  <2>2. CASE anchor = << >> \/ InChain(db)
    BY <1>2, <2>1, <2>2
  <2>3. CASE ~(anchor = << >> \/ InChain(db))
    <3>1. IsNamed /\ Len(anchor) > Len(work[p].row)
      BY <1>0, <2>1, <2>3 DEF AnchorProven, Seen
    <3>2. CASE IsNamed'
      BY <3>2 DEF AnchorProven
    <3>3. CASE ~IsNamed'
      <4>1. anchor \in work[p].left \/ \E q \in work[p].fork : intents[q] = anchor
        BY <2>1, <3>1, <3>3, NamedIs
      <4>2. anchor \in work[p].left \cup {intents[q] : q \in work[p].fork}
        BY <4>1
      <4> QED
        BY <1>10, <3>1, <4>2 DEF RemovesNewer
    <3> QED
      BY <3>2, <3>3
  <2> QED
    BY <2>2, <2>3
<1>11. CASE Throws(p)
  BY <1>0, <1>3, <1>11, ThrowsIs
<1>12. CASE Call(p) \/ Walks(p) \/ TakeSpool(p) \/ Drain(p) \/ Unlink(p) \/ VerifyPasses(p) \/ Lock(p)
  BY <1>0, <1>3, <1>12, WalksIs, TakeSpoolIs, DrainIs, UnlinkIs, VerifyPassesIs, LockIs, Zenon
     DEF Call, head
<1>13. CASE AppendRecords(p) \/ Project(p) \/ Archive(p) \/ Rebuild(p) \/ Commit(p) \/ Spool(p) \/ Heal(p)
  BY <1>0, <1>3, <1>13, AppendRecordsIs, ProjectIs, ArchiveIs, RebuildIs, CommitIs, SpoolIs, HealIs,
     Zenon
<1> QED
  BY <1>4, <1>5, <1>6, <1>7, <1>8, <1>9, <1>10, <1>11, <1>12, <1>13, Zenon
     DEF Acts, Step, Walks, Throws

\* consumeAnchorIntent(): "until then it must keep proving the same fork to
\* every reader".  Reconciliations, with the lock and without it, admissions,
\* failures, alarms and crashes leave a proved anchor proved, but for the three
\* ways in which a file that proved a fork is the one its process names the
\* next event in.
THEOREM KeepsProof == LedgerSpec => ProofKept
<1>1. ASSUME LedgerInv, [LedgerNext]_ledgerVars
      PROVE  [AnchorProven =>
                AnchorProven' \/ \E p \in Procs : Overwrites(p) \/ StoresUnproven(p) \/ RemovesNewer(p)
             ]_ledgerVars
  <2>1. CASE UNCHANGED ledgerVars
    BY <2>1
  <2>2. CASE LedgerNext
    <3>1. PICK p \in Procs : Acts(p)
      BY <2>2, Zenon DEF LedgerNext, Acts
    <3> QED
      BY <1>1, <3>1, ProofStep
  <2> QED
    BY <1>1, <2>1, <2>2
<1> QED
  BY <1>1, LedgerInvariant, PTL DEF LedgerSpec, ProofKept

-----------------------------------------------------------------------------
(* The admission lane: sequences *)

Rising(s) == \A i, j \in DOMAIN s : i < j => s[i].id < s[j].id

LEMMA HeadAndRest ==
  ASSUME NEW S, NEW s \in Seq(S), s # << >>
  PROVE  /\ Head(s) \in S /\ Tail(s) \in Seq(S) /\ Head(s) \in Elements(s)
         /\ Elements(s) = {Head(s)} \cup Elements(Tail(s))
         /\ Rising(s) => /\ Rising(Tail(s))
                         /\ \A q \in Elements(Tail(s)) : Head(s).id < q.id
<1>1. /\ Len(s) \in Nat /\ Len(s) > 0 /\ DOMAIN s = 1 .. Len(s) /\ Head(s) = s[1]
      /\ Tail(s) \in Seq(S) /\ Head(s) \in S
      /\ DOMAIN Tail(s) = 1 .. (Len(s) - 1) /\ \A i \in 1 .. (Len(s) - 1) : Tail(s)[i] = s[i + 1]
  BY LenProperties, HeadTailProperties
<1>2. \A i \in DOMAIN Tail(s) : i \in DOMAIN s /\ i + 1 \in DOMAIN s /\ 1 < i + 1 /\ Tail(s)[i] = s[i + 1]
  BY <1>1
<1>3. \A i \in DOMAIN s : i = 1 \/ (i - 1 \in DOMAIN Tail(s) /\ s[i] = Tail(s)[i - 1])
  <2>1. ASSUME NEW i \in DOMAIN s, i # 1 PROVE i - 1 \in DOMAIN Tail(s) /\ s[i] = Tail(s)[i - 1]
    <3>1. PICK k : k = i - 1
      OBVIOUS
    <3>2. k \in 1 .. (Len(s) - 1) /\ k + 1 = i
      BY <1>1, <2>1, <3>1
    <3>3. Tail(s)[k] = s[k + 1] /\ k \in DOMAIN Tail(s)
      BY <1>1, <3>2
    <3> QED
      BY <3>1, <3>2, <3>3
  <2> QED
    BY <2>1
<1>4. 1 \in DOMAIN s
  BY <1>1
<1>5. Elements(s) \subseteq {Head(s)} \cup Elements(Tail(s))
  <2>1. \A i \in DOMAIN s : s[i] = Head(s) \/ \E k \in DOMAIN Tail(s) : s[i] = Tail(s)[k]
    BY <1>1, <1>3
  <2> QED
    BY <2>1 DEF Elements
<1>6. {Head(s)} \cup Elements(Tail(s)) \subseteq Elements(s)
  BY <1>1, <1>2, <1>4 DEF Elements
<1>7. ASSUME Rising(s) PROVE Rising(Tail(s)) /\ \A q \in Elements(Tail(s)) : Head(s).id < q.id
  <2>1. \A i, j \in DOMAIN Tail(s) : i < j => i + 1 < j + 1
    BY <1>1
  <2>2. Rising(Tail(s))
    BY <1>2, <1>7, <2>1 DEF Rising
  <2> QED
    BY <1>1, <1>2, <1>4, <1>7, <2>2 DEF Rising, Elements
<1> QED
  BY <1>1, <1>4, <1>5, <1>6, <1>7 DEF Elements

LEMMA AppendedTo ==
  ASSUME NEW S, NEW s \in Seq(S), NEW e \in S
  PROVE  /\ Append(s, e) \in Seq(S) /\ Append(s, e) # << >>
         /\ Elements(Append(s, e)) = Elements(s) \cup {e}
         /\ Rising(s) /\ (\A q \in Elements(s) : q.id < e.id) => Rising(Append(s, e))
         /\ Ascending(s) /\ (\A q \in Elements(s) : q < e) => Ascending(Append(s, e))
<1> DEFINE t == Append(s, e)
<1>1. /\ Len(s) \in Nat /\ DOMAIN s = 1 .. Len(s) /\ t \in Seq(S) /\ DOMAIN t = 1 .. (Len(s) + 1)
      /\ \A i \in 1 .. Len(s) : t[i] = s[i]
      /\ t[Len(s) + 1] = e /\ t # << >>
  BY LenProperties, AppendProperties
<1>2. \A i \in DOMAIN t : (i \in DOMAIN s /\ t[i] = s[i]) \/ (i = Len(s) + 1 /\ t[i] = e)
  <2> SUFFICES ASSUME NEW i \in DOMAIN t
               PROVE  (i \in DOMAIN s /\ t[i] = s[i]) \/ (i = Len(s) + 1 /\ t[i] = e)
    OBVIOUS
  <2>1. i \in DOMAIN s \/ i = Len(s) + 1
    BY <1>1
  <2>2. \A k \in DOMAIN s : t[k] = s[k]
    BY <1>1
  <2>3. t[Len(s) + 1] = e
    BY <1>1
  <2> QED
    BY <2>1, <2>2, <2>3, Zenon
<1>3. DOMAIN s \subseteq DOMAIN t /\ Len(s) + 1 \in DOMAIN t /\ \A i \in DOMAIN s : t[i] = s[i]
  BY <1>1
<1>4. \A i, j \in DOMAIN t : i < j =>
        i \in DOMAIN s /\ t[i] = s[i] /\ ((j \in DOMAIN s /\ t[j] = s[j]) \/ t[j] = e)
  BY <1>1
<1> HIDE DEF t
<1>5. Elements(t) = Elements(s) \cup {e}
  BY <1>1, <1>2, <1>3 DEF Elements
<1>6. Rising(s) /\ (\A q \in Elements(s) : q.id < e.id) => Rising(t)
  BY <1>4 DEF Rising, Elements
<1>7. Ascending(s) /\ (\A q \in Elements(s) : q < e) => Ascending(t)
  BY <1>4 DEF Ascending, Elements
<1> QED
  BY <1>1, <1>5, <1>6, <1>7 DEF t

LEMMA Split ==
  ASSUME NEW S \in SUBSET Nat, NEW s \in Seq(S), Ascending(s), NEW n \in 1 .. Len(s)
  PROVE  /\ SubSeq(s, 1, n) \in Seq(S) /\ SubSeq(s, n + 1, Len(s)) \in Seq(S)
         /\ Len(SubSeq(s, 1, n)) = n /\ SubSeq(s, 1, n) # << >>
         /\ Ascending(SubSeq(s, 1, n)) /\ Ascending(SubSeq(s, n + 1, Len(s)))
         /\ Elements(s) = Elements(SubSeq(s, 1, n)) \cup Elements(SubSeq(s, n + 1, Len(s)))
         /\ \A a \in Elements(SubSeq(s, 1, n)) :
              \A b \in Elements(SubSeq(s, n + 1, Len(s))) : a < b
<1>0. Len(s) \in Nat /\ n \in 1 .. Len(s) /\ DOMAIN s = 1 .. Len(s) /\ \A i \in 1 .. Len(s) : s[i] \in S
  BY LenProperties, ElementOfSeq
<1>1. PICK a : a = SubSeq(s, 1, n)
  OBVIOUS
<1>2. PICK b : b = SubSeq(s, n + 1, Len(s))
  OBVIOUS
<1>a. a \in Seq(S) /\ Len(a) = n /\ \A i \in 1 .. n : a[i] = s[i]
  <2>1. \A i \in 1 .. n : s[i] \in S
    BY <1>0
  <2>2. 1 \in Int /\ n \in Int /\ 1 <= n + 1 /\ n - 1 + 1 = n /\ \A i \in 1 .. n : 1 + i - 1 = i
    BY <1>0
  <2>3. a \in Seq(S) /\ Len(a) = n - 1 + 1 /\ \A i \in 1 .. n - 1 + 1 : a[i] = s[1 + i - 1]
    BY <1>1, <2>1, <2>2, SubSeqProperties
  <2> QED
    BY <2>2, <2>3
<1>b. b \in Seq(S) /\ Len(b) = Len(s) - n /\ \A i \in 1 .. (Len(s) - n) : b[i] = s[n + i]
  <2>1. \A i \in n + 1 .. Len(s) : s[i] \in S
    BY <1>0
  <2>2. /\ n + 1 \in Int /\ Len(s) \in Int /\ n + 1 <= Len(s) + 1 /\ Len(s) - (n + 1) + 1 = Len(s) - n
        /\ \A i \in 1 .. Len(s) - n : n + 1 + i - 1 = n + i
    BY <1>0
  <2>a. /\ b \in Seq(S) /\ Len(b) = (IF n + 1 <= Len(s) THEN Len(s) - (n + 1) + 1 ELSE 0)
        /\ \A i \in 1 .. Len(s) - (n + 1) + 1 : b[i] = s[n + 1 + i - 1]
    BY <1>2, <2>1, <2>2, SubSeqProperties
  <2>b. (IF n + 1 <= Len(s) THEN Len(s) - (n + 1) + 1 ELSE 0) = Len(s) - (n + 1) + 1
    <3>1. PICK k \in Nat : k = Len(s)
      BY <1>0
    <3>2. n \in 1 .. k
      BY <1>0, <3>1
    <3>3. n \in Nat /\ n <= k
      BY <3>2
    <3>4. n + 1 <= k \/ k - (n + 1) + 1 = 0
      BY <3>3
    <3> QED
      BY <3>1, <3>4
  <2>3. /\ b \in Seq(S) /\ Len(b) = Len(s) - (n + 1) + 1
        /\ \A i \in 1 .. Len(s) - (n + 1) + 1 : b[i] = s[n + 1 + i - 1]
    BY <2>a, <2>b, Zenon
  <2> QED
    BY <2>2, <2>3
<1>3. /\ Len(s) \in Nat /\ n \in 1 .. Len(s) /\ DOMAIN s = 1 .. Len(s) /\ DOMAIN a = 1 .. n
      /\ DOMAIN b = 1 .. (Len(s) - n)
  BY <1>0, <1>a, <1>b, LenProperties
<1>4. /\ \A i \in DOMAIN a : i \in DOMAIN s /\ i <= n /\ a[i] = s[i]
      /\ \A i \in DOMAIN b : n + i \in DOMAIN s /\ n < n + i /\ b[i] = s[n + i]
      /\ \A i \in DOMAIN s : (i \in DOMAIN a /\ s[i] = a[i]) \/ (i - n \in DOMAIN b /\ s[i] = b[i - n])
  <2>1. \A i \in DOMAIN a : i \in DOMAIN s /\ i <= n /\ a[i] = s[i]
    BY <1>a, <1>3
  <2>2. \A i \in DOMAIN b : n + i \in DOMAIN s /\ n < n + i /\ b[i] = s[n + i]
    BY <1>b, <1>3
  <2>3. ASSUME NEW i \in DOMAIN s
        PROVE  (i \in DOMAIN a /\ s[i] = a[i]) \/ (i - n \in DOMAIN b /\ s[i] = b[i - n])
    <3>1. PICK k : k = i - n
      OBVIOUS
    <3>2. i \in DOMAIN a \/ (k \in DOMAIN b /\ n + k = i)
      BY <1>3, <3>1
    <3> QED
      BY <2>1, <2>2, <3>1, <3>2
  <2> QED
    BY <2>1, <2>2, <2>3
<1>5. Ascending(a)
  BY <1>4 DEF Ascending
<1>6. Ascending(b)
  BY <1>3, <1>4 DEF Ascending
<1>7. \A x \in Elements(a) : \A y \in Elements(b) : x < y
  <2>1. \A i \in DOMAIN a, j \in DOMAIN b : i < n + j
    BY <1>3
  <2> QED
    BY <1>4, <2>1 DEF Elements, Ascending
<1>8. Elements(s) = Elements(a) \cup Elements(b)
  <2>1. Elements(s) \subseteq Elements(a) \cup Elements(b)
    BY <1>4 DEF Elements
  <2>2. Elements(a) \subseteq Elements(s) /\ Elements(b) \subseteq Elements(s)
    BY <1>4 DEF Elements
  <2> QED
    BY <2>1, <2>2
<1>9. a # << >>
  BY <1>a, <1>3, EmptySeq
<1> QED
  BY <1>1, <1>2, <1>a, <1>b, <1>5, <1>6, <1>7, <1>8, <1>9

LEMMA NothingIn == Elements(<< >>) = {} /\ Ascending(<< >>) /\ Rising(<< >>)
BY DEF Elements, Ascending, Rising

LEMMA SomethingIn ==
  ASSUME NEW S, NEW s \in Seq(S), s # << >>
  PROVE  Elements(s) # {}
BY HeadAndRest

-----------------------------------------------------------------------------
(* The lane: batches, and what is written of them *)

Rows == [record : Records, named : BOOLEAN]
InLedger(l) == {l[i].record : i \in DOMAIN l}

\* A batch as it must be: in the order of submission, and with nothing left
\* behind that was submitted earlier and has no answer.
Answered(r) == answer[r] \in {"durable", "failed"}
Whole(items) ==
  /\ items \in Seq(Records) /\ Ascending(items)
  /\ \A s \in Elements(items) : \A r \in Records : r < s => r \in Elements(items) \/ Answered(r)

\* A ledger as it must be.
DurableIn(l) == \A r \in Records : answer[r] = "durable" => r \in InLedger(l)
OrderIn(l) ==
  \A r, s \in Records : r < s /\ answer[r] # "failed" =>
    \A i \in DOMAIN l : l[i].record = s => \E j \in DOMAIN l : j < i /\ l[j].record = r
LedgerOK(l) ==
  /\ l \in Seq(Rows) /\ DurableIn(l) /\ OrderIn(l)
  /\ \A r \in InLedger(l) : r <= submitted /\ r \notin Elements(pending)
Singly(l) == \A i, j \in DOMAIN l : l[i].record = l[j].record => i = j

LEMMA Parts ==
  ASSUME NEW S, NEW s \in Seq(S)
  PROVE  /\ Len(s) \in Nat /\ DOMAIN s = 1 .. Len(s) /\ \A i \in DOMAIN s : s[i] \in S
         /\ Elements(s) \subseteq S
BY LenProperties, ElementOfSeq DEF Elements

LEMMA RecordsAre == Records \subseteq Nat \ {0} /\ MaxRecords \in Nat /\ MaxBatch \in Nat \ {0}
BY AdmissionConstants DEF Records

LEMMA Filtered ==
  ASSUME NEW items \in Seq(Records), Ascending(items), NEW P \in SUBSET DOMAIN items
  PROVE  /\ Subsequence(items, P) \in Seq(Records) /\ Ascending(Subsequence(items, P))
         /\ Elements(Subsequence(items, P)) = {items[k] : k \in P}
<1> DEFINE f == Subsequence(items, P)
<1>1. /\ f \in Seq(Records) /\ DOMAIN f = 1 .. Cardinality(P)
      /\ \A j \in DOMAIN f : Nth(P, j) \in P /\ f[j] = items[Nth(P, j)]
      /\ \A i \in P : \E j \in DOMAIN f : Nth(P, j) = i
      /\ \A j, k \in DOMAIN f : j < k => Nth(P, j) < Nth(P, k)
  BY SubsequenceElements, SMTT(30)
<1> HIDE DEF f
<1>2. Ascending(f)
  <2>1. ASSUME NEW j \in DOMAIN f, NEW k \in DOMAIN f, j < k PROVE f[j] < f[k]
    BY <1>1, <2>1 DEF Ascending
  <2> QED
    BY <2>1 DEF Ascending
<1>3. Elements(f) = {items[k] : k \in P}
  BY <1>1 DEF Elements
<1> QED
  BY <1>1, <1>2, <1>3 DEF f

\* The transaction of a batch adds rows behind those that are there: at most one
\* for each record, in their order, so that every record of it is in the ledger.
LEMMA WrittenIs ==
  ASSUME NEW l \in Seq(Rows), NEW items \in Seq(Records), Ascending(items)
  PROVE  LET w == Written(l, items) IN
         /\ w \in Seq(Rows) /\ DOMAIN l \subseteq DOMAIN w /\ \A i \in DOMAIN l : w[i] = l[i]
         /\ \A i \in DOMAIN w : i \notin DOMAIN l =>
              w[i].record \in Elements(items) /\ \A j \in DOMAIN l : j < i
         /\ \A i, j \in DOMAIN w : i \notin DOMAIN l /\ j \notin DOMAIN l /\ i < j
              => w[i].record < w[j].record
         /\ InLedger(w) = InLedger(l) \cup Elements(items)
<1> DEFINE known(r) == Keeps(items, r) /\ [record |-> r, named |-> TRUE] \in Elements(l)
           P == {i \in DOMAIN items : ~known(items[i])}
<1>1. PICK f : f = Subsequence(items, P)
  OBVIOUS
<1>2. f \in Seq(Records) /\ Ascending(f) /\ Elements(f) = {items[k] : k \in P}
  BY <1>1, Filtered
<1>3. PICK g : g = [i \in DOMAIN f |-> [record |-> f[i], named |-> Keeps(items, f[i])]]
  OBVIOUS
<1>4. Len(f) \in Nat /\ DOMAIN f = 1 .. Len(f) /\ \A i \in DOMAIN f : f[i] \in Records
  BY <1>2, Parts
<1>5. \A r : Keeps(items, r) \in BOOLEAN
  BY DEF Keeps
<1>6. g \in [1 .. Len(f) -> Rows] /\ \A i \in 1 .. Len(f) : g[i].record = f[i]
  BY <1>3, <1>4, <1>5 DEF Rows
<1>7. g \in Seq(Rows) /\ Len(g) = Len(f)
  <2>1. g \in Seq(Rows)
    BY <1>4, <1>6, IsASeq
  <2> QED
    BY <1>4, <1>6, <2>1, Parts, LenProperties
<1>8. PICK w : w = Written(l, items)
  OBVIOUS
<1>9. w = l \o g
  BY <1>1, <1>3, <1>8 DEF Written
<1>10. PICK n \in Nat : n = Len(l) /\ DOMAIN l = 1 .. n
  BY Parts
<1>11. PICK m \in Nat : m = Len(f) /\ DOMAIN f = 1 .. m
  BY <1>4
<1>12. /\ w \in Seq(Rows) /\ DOMAIN w = 1 .. (n + m)
       /\ \A i \in 1 .. (n + m) : w[i] = IF i <= n THEN l[i] ELSE g[i - n]
  <2>1. w \in Seq(Rows) /\ Len(w) = n + m
        /\ \A i \in 1 .. (n + m) : w[i] = IF i <= n THEN l[i] ELSE g[i - n]
    <3>1. /\ l \o g \in Seq(Rows) /\ Len(l \o g) = Len(l) + Len(g)
          /\ \A i \in 1 .. Len(l) + Len(g) : (l \o g)[i] = IF i <= Len(l) THEN l[i] ELSE g[i - Len(l)]
      BY <1>7, ConcatProperties
    <3>2. Len(l) = n /\ Len(g) = m
      BY <1>7, <1>10, <1>11
    <3> QED
      BY <1>9, <3>1, <3>2
  <2> QED
    BY <2>1, Parts
<1>13. \A i \in DOMAIN l : i \in DOMAIN w /\ w[i] = l[i]
  BY <1>10, <1>12
<1>14. \A i \in DOMAIN w : i \notin DOMAIN l =>
         \E k \in DOMAIN f : k = i - n /\ w[i].record = f[k] /\ \A j \in DOMAIN l : j < i
  <2> SUFFICES ASSUME NEW i \in DOMAIN w, i \notin DOMAIN l
               PROVE  \E k \in DOMAIN f : k = i - n /\ w[i].record = f[k] /\ \A j \in DOMAIN l : j < i
    OBVIOUS
  <2>1. PICK k : k = i - n
    OBVIOUS
  <2>2. k \in 1 .. m /\ ~(i <= n) /\ \A j \in 1 .. n : j < i
    BY <1>10, <1>12, <2>1
  <2>3. w[i] = g[k]
    BY <1>12, <2>1, <2>2
  <2> QED
    BY <1>6, <1>10, <1>11, <2>1, <2>2, <2>3
<1>15. \A k \in DOMAIN f : \E i \in DOMAIN w : w[i].record = f[k]
  <2> SUFFICES ASSUME NEW k \in DOMAIN f PROVE \E i \in DOMAIN w : w[i].record = f[k]
    OBVIOUS
  <2>1. PICK i : i = n + k
    OBVIOUS
  <2>2. i \in 1 .. (n + m) /\ ~(i <= n) /\ i - n = k
    BY <1>10, <1>11, <2>1
  <2> QED
    BY <1>6, <1>11, <1>12, <2>2
<1>16. \A i, j \in DOMAIN w : i \notin DOMAIN l /\ j \notin DOMAIN l /\ i < j => w[i].record < w[j].record
  <2> SUFFICES ASSUME NEW i \in DOMAIN w, NEW j \in DOMAIN w, i \notin DOMAIN l, j \notin DOMAIN l, i < j
               PROVE  w[i].record < w[j].record
    OBVIOUS
  <2>1. PICK a \in DOMAIN f : a = i - n /\ w[i].record = f[a]
    BY <1>14
  <2>2. PICK b \in DOMAIN f : b = j - n /\ w[j].record = f[b]
    BY <1>14
  <2>3. a < b
    BY <1>10, <1>12, <2>1, <2>2
  <2> QED
    BY <1>2, <2>1, <2>2, <2>3 DEF Ascending
<1>17. Elements(f) \subseteq Elements(items)
  BY <1>2 DEF Elements
<1>18. \A r \in Elements(items) : r \in Elements(f) \/ r \in InLedger(l)
  <2> SUFFICES ASSUME NEW k \in DOMAIN items PROVE items[k] \in Elements(f) \/ items[k] \in InLedger(l)
    BY DEF Elements
  <2>1. CASE k \in P
    BY <1>2, <2>1
  <2>2. CASE k \notin P
    <3>1. [record |-> items[k], named |-> TRUE] \in Elements(l)
      BY <2>2
    <3> QED
      BY <3>1 DEF Elements, InLedger
  <2> QED
    BY <2>1, <2>2
<1>19. InLedger(w) = InLedger(l) \cup Elements(items)
  <2>1. \A i \in DOMAIN w : w[i].record \in InLedger(l) \cup Elements(items)
    BY <1>13, <1>14, <1>17 DEF InLedger, Elements
  <2>2. \A i \in DOMAIN l : l[i].record \in InLedger(w)
    BY <1>13 DEF InLedger
  <2>3. \A r \in Elements(f) : r \in InLedger(w)
    BY <1>15 DEF InLedger, Elements
  <2>4. InLedger(l) \subseteq InLedger(w) /\ InLedger(w) \subseteq InLedger(l) \cup Elements(items)
    BY <2>1, <2>2 DEF InLedger
  <2> QED
    BY <1>18, <2>3, <2>4
<1> HIDE DEF P, known
<1>20. \A i \in DOMAIN w : i \notin DOMAIN l => w[i].record \in Elements(items) /\ \A j \in DOMAIN l : j < i
  BY <1>14, <1>17 DEF Elements
<1> QED
  BY <1>8, <1>12, <1>13, <1>16, <1>19, <1>20

-----------------------------------------------------------------------------
(* The lane: its invariant *)

\* The queue: what has no answer yet is in the batch or behind it.
Queued ==
  /\ Ascending(pending) /\ Whole(batch) /\ (batch = << >> <=> waiting = 0)
  /\ Elements(batch) \cap Elements(pending) = {}
  /\ \A r \in Elements(batch) \cup Elements(pending) : r <= submitted
  /\ \A r \in Records :
       answer[r] = "none" <=> r > submitted \/ r \in Elements(batch) \cup Elements(pending)
  /\ \A r \in Records : answer[r] = "refused" =>
       Retiring /\ \A s \in Elements(batch) \cup Elements(pending) : s < r

\* Requests are answered in the order of their numbers.
Numbered ==
  /\ nextId # 0 /\ Rising(replies) /\ Rising(thread.box)
  /\ \A m \in Elements(replies) : m.id \in 1 .. nextId - 1 /\ \A q \in Elements(thread.box) : m.id < q.id
  /\ \A q \in Elements(thread.box) : q.id \in 1 .. nextId - 1
  /\ ~thread.up => thread.box = << >>

\* What the thread was sent, and what it answers about the batch in flight.
Messages ==
  /\ \A q \in Elements(thread.box) :
       /\ q.kind = "events" => /\ Whole(q.items)
                               /\ \A r \in Elements(q.items) : r <= submitted /\ r \notin Elements(pending)
       /\ q.id = waiting => q.kind = "events" /\ q.items = batch
  /\ \A m \in Elements(replies) : m.id = waiting =>
       m.result # "done" /\ (m.result = "durable" => Elements(batch) \subseteq InLedger(ledger))

\* Without a fallback only the batch in flight can be written, and only once.
Unrepeated ==
  ~fellBack =>
    /\ Singly(ledger)
    /\ \A q \in Elements(thread.box) : q.kind = "events" =>
         q.id = waiting /\ Elements(batch) \cap InLedger(ledger) = {}

\* close() goes on when nothing is queued and nobody waits.
Closes ==
  /\ closing.stage \notin {"open", "flushing"} \/ acknowledged => batch = << >> /\ pending = << >>
  /\ acknowledged => Retiring /\ thread.box = << >>
  /\ closing.stage = "asking" => waiters \subseteq {closing.id} /\ closing.id = nextId - 1
  /\ closing.stage = "ending" => waiters = {} /\ thread.box = << >>
  /\ closing.stage = "closed" => waiters = {} /\ ~thread.up

LaneInv ==
  AdmissionTypeOK /\ Queued /\ Numbered /\ Messages /\ LedgerOK(ledger) /\ Unrepeated /\ Closes

LEMMA WrittenKeeps ==
  ASSUME NEW l, LedgerOK(l), NEW items, Whole(items)
  PROVE  LET w == Written(l, items) IN
         w \in Seq(Rows) /\ DurableIn(w) /\ OrderIn(w)
         /\ InLedger(w) = InLedger(l) \cup Elements(items)
<1>1. l \in Seq(Rows) /\ items \in Seq(Records) /\ Ascending(items)
  BY DEF LedgerOK, Whole
<1>2. PICK w : w = Written(l, items)
  OBVIOUS
<1>3. /\ w \in Seq(Rows) /\ DOMAIN l \subseteq DOMAIN w /\ \A i \in DOMAIN l : w[i] = l[i]
      /\ \A i \in DOMAIN w : i \notin DOMAIN l =>
           w[i].record \in Elements(items) /\ \A j \in DOMAIN l : j < i
      /\ \A i, j \in DOMAIN w : i \notin DOMAIN l /\ j \notin DOMAIN l /\ i < j
           => w[i].record < w[j].record
      /\ InLedger(w) = InLedger(l) \cup Elements(items)
  BY <1>1, <1>2, WrittenIs
<1>4. DurableIn(w)
  BY <1>3 DEF DurableIn, LedgerOK
<1>5. ASSUME NEW r \in Records, NEW s \in Records, r < s, answer[r] # "failed",
             NEW i \in DOMAIN w, w[i].record = s
      PROVE  \E j \in DOMAIN w : j < i /\ w[j].record = r
  <2>1. CASE i \in DOMAIN l
    <3>1. PICK j \in DOMAIN l : j < i /\ l[j].record = r
      BY <1>3, <1>5, <2>1 DEF LedgerOK, OrderIn
    <3> QED
      BY <1>3, <3>1
  <2>2. CASE i \notin DOMAIN l
    <3>1. r \in InLedger(l) \/ r \in Elements(items)
      BY <1>3, <1>5, <2>2 DEF Whole, Answered, LedgerOK, DurableIn
    <3>2. CASE r \in InLedger(l)
      <4>1. PICK j \in DOMAIN l : l[j].record = r
        BY <3>2 DEF InLedger
      <4> QED
        BY <1>3, <2>2, <4>1
    <3>3. CASE r \notin InLedger(l)
      <4>1. PICK j \in DOMAIN w : w[j].record = r
        BY <1>3, <3>1 DEF InLedger
      <4>2. j \notin DOMAIN l
        BY <1>3, <3>3, <4>1 DEF InLedger
      <4>3. i \in Nat /\ j \in Nat
        BY <1>3, Parts
      <4>4. ~(i < j) /\ i # j
        <5>1. i < j => s < r
          BY <1>3, <1>5, <2>2, <4>1, <4>2
        <5> QED
          BY <1>5, <4>1, <5>1, RecordsAre
      <4> QED
        BY <4>1, <4>3, <4>4
    <3> QED
      BY <3>2, <3>3
  <2> QED
    BY <2>1, <2>2
<1>6. OrderIn(w)
  BY <1>5 DEF OrderIn
<1> QED
  BY <1>2, <1>3, <1>4, <1>6

\* Nobody is told something else than he was told.
AnswersGrow == \A r \in Records : answer'[r] = answer[r] \/ answer[r] = "none"

LEMMA WholeStays ==
  ASSUME AnswersGrow, NEW CONSTANT items, Whole(items)
  PROVE  Whole(items)'
BY DEF AnswersGrow, Whole, Answered

\* settle(): the batch is answered, and what is written of it is in the ledger.
LEMMA Settles ==
  ASSUME LaneInv, NEW CONSTANT l, LedgerOK(l), NEW CONSTANT items, Whole(items),
         NEW CONSTANT left \in Seq(Records), Ascending(left), NEW callbacks \in Nat,
         NEW status \in {"durable", "failed"},
         Elements(items) \cap Elements(left) = {}, Elements(left) \subseteq Elements(pending),
         Elements(items) \cup Elements(left) = Elements(batch) \cup Elements(pending),
         Settle(items, left, callbacks, status), Retiring => Retiring',
         ledger' \in {l, Written(l, items)},
         status = "durable" => ledger' = Written(l, items) \/ Elements(items) \subseteq InLedger(l)
  PROVE  /\ Queued' /\ LedgerOK(ledger)' /\ AnswersGrow
         /\ answer' \in [Records -> {"none", "durable", "failed", "refused"}]
         /\ timer' \in BOOLEAN /\ ticks' \in Nat /\ (timer' => ticks' > 0)
         /\ batch' = << >> /\ waiting' = 0 /\ pending' = left /\ UNCHANGED submitted
         /\ Elements(pending') \subseteq Elements(pending)
<1>1. /\ batch' = << >> /\ waiting' = 0 /\ pending' = left /\ submitted' = submitted
      /\ answer' = [r \in Records |-> IF r \in Elements(items) THEN status ELSE answer[r]]
      /\ timer' = (left # << >>) /\ ticks' = callbacks + (IF left # << >> THEN 1 ELSE 0)
  BY DEF Settle, NextBatch
<1>2. /\ answer \in [Records -> {"none", "durable", "failed", "refused"}]
      /\ items \in Seq(Records) /\ Elements(items) \subseteq Records /\ Elements(left) \subseteq Records
  BY Parts DEF LaneInv, AdmissionTypeOK, Whole
<1>3. \A r \in Records : answer'[r] = IF r \in Elements(items) THEN status ELSE answer[r]
  BY <1>1
<1>4. \A r \in Elements(items) : answer[r] = "none" /\ r <= submitted
  BY <1>2 DEF LaneInv, Queued
<1>5. AnswersGrow
  BY <1>3, <1>4 DEF AnswersGrow
<1>6. Queued'
  <2>1. Whole(<< >>)'
    BY NothingIn DEF Whole
  <2>2. \A r \in Records : answer'[r] = "none" <=> r > submitted \/ r \in Elements(left)
    <3> SUFFICES ASSUME NEW r \in Records
                 PROVE  answer'[r] = "none" <=> r > submitted \/ r \in Elements(left)
      OBVIOUS
    <3>1. answer[r] = "none" <=> r > submitted \/ r \in Elements(items) \cup Elements(left)
      BY DEF LaneInv, Queued
    <3>2. r \in Elements(items) => ~(r > submitted) /\ r \notin Elements(left)
      <4>1. r \in Nat /\ submitted \in Nat
        BY RecordsAre DEF LaneInv, AdmissionTypeOK
      <4> QED
        BY <1>4, <4>1
    <3> QED
      BY <1>3, <3>1, <3>2
  <2>3. \A r \in Records : answer'[r] = "refused" => Retiring' /\ \A s \in Elements(left) : s < r
    BY <1>3 DEF LaneInv, Queued
  <2>4. \A r \in Elements(left) : r <= submitted
    BY DEF LaneInv, Queued
  <2> QED
    BY <1>1, <2>1, <2>2, <2>3, <2>4, NothingIn DEF Queued
<1>7. ledger' \in Seq(Rows) /\ DurableIn(ledger') /\ OrderIn(ledger')
      /\ InLedger(ledger') \subseteq InLedger(l) \cup Elements(items)
      /\ (status = "durable" => Elements(items) \subseteq InLedger(ledger'))
  <2>1. CASE ledger' = l
    <3>1. l \in Seq(Rows) /\ DurableIn(l) /\ OrderIn(l)
      BY DEF LedgerOK
    <3>2. status = "durable" => Elements(items) \subseteq InLedger(l)
      <4>1. PICK w : w = Written(l, items)
        OBVIOUS
      <4>2. Elements(items) \subseteq InLedger(w)
        BY <4>1, WrittenKeeps
      <4> QED
        BY <2>1, <4>1, <4>2
    <3> QED
      BY <2>1, <3>1, <3>2
  <2>2. CASE ledger' = Written(l, items)
    BY <2>2, WrittenKeeps
  <2> QED
    BY <2>1, <2>2
<1>8. LedgerOK(ledger)'
  <2> DEFINE m == ledger'
  <2>1. \A r \in Records : answer'[r] = "durable" => r \in InLedger(m)
    BY <1>3, <1>7 DEF DurableIn
  <2>2. \A r, s \in Records : r < s /\ answer'[r] # "failed" =>
           \A i \in DOMAIN m : m[i].record = s => \E j \in DOMAIN m : j < i /\ m[j].record = r
    <3>1. \A r \in Records : answer[r] = "failed" => answer'[r] = "failed"
      BY <1>5 DEF AnswersGrow
    <3> QED
      BY <1>7, <3>1 DEF OrderIn
  <2>3. \A r \in InLedger(m) : r <= submitted /\ r \notin Elements(left)
    <3>1. \A r \in InLedger(l) : r <= submitted /\ r \notin Elements(left)
      BY DEF LedgerOK
    <3> QED
      BY <1>4, <1>7, <3>1
  <2> QED
    BY <1>1, <1>7, <2>1, <2>2, <2>3 DEF LedgerOK, DurableIn, OrderIn, InLedger
<1>9. timer' \in BOOLEAN /\ ticks' \in Nat /\ (timer' => ticks' > 0)
  <2>1. CASE left = << >>
    <3>1. ticks' = callbacks + 0
      BY <1>1, <2>1
    <3>2. ticks' \in Nat
      BY <3>1
    <3>3. timer' \in BOOLEAN /\ ~timer'
      BY <1>1, <2>1
    <3> QED
      BY <3>2, <3>3
  <2>2. CASE left # << >>
    <3>1. timer' = TRUE /\ ticks' = callbacks + 1
      BY <1>1, <2>2
    <3> QED
      BY <3>1
  <2> QED
    BY <2>1, <2>2
<1>10. answer' \in [Records -> {"none", "durable", "failed", "refused"}]
  BY <1>1, <1>2
<1> QED
  BY <1>1, <1>5, <1>6, <1>8, <1>9, <1>10

-----------------------------------------------------------------------------
(* The lane: types and messages *)

Threads == [up : BOOLEAN, box : Seq(Requests)]
Replies == [id : Nat, result : {"durable", "failed", "done", "error"}]

LEMMA LaneTypes ==
  ASSUME LaneInv
  PROVE  /\ thread \in Threads /\ thread.up \in BOOLEAN /\ thread.box \in Seq(Requests)
         /\ replies \in Seq(Replies) /\ nextId \in Nat \ {0} /\ waiters \subseteq 1 .. nextId - 1
         /\ waiting \in Nat /\ submitted \in Nat /\ pending \in Seq(Records) /\ batch \in Seq(Records)
         /\ ledger \in Seq(Rows) /\ ticks \in Nat
         /\ Elements(batch) \subseteq Records /\ Elements(pending) \subseteq Records
         /\ closing \in [stage : Stages, id : Nat, calls : 0 .. MaxCloses] /\ closing.stage \in Stages
         /\ \A q \in Elements(thread.box) : q \in Requests /\ q.id \in Nat /\ q.items \in Seq(Records)
         /\ \A m \in Elements(replies) : m \in Replies /\ m.id \in Nat
<1>1. /\ thread \in Threads /\ replies \in Seq(Replies) /\ nextId \in Nat \ {0}
      /\ waiters \subseteq 1 .. nextId - 1 /\ waiting \in Nat /\ submitted \in 0 .. MaxRecords
      /\ pending \in Seq(Records) /\ batch \in Seq(Records) /\ ledger \in Seq(Rows) /\ ticks \in Nat
      /\ closing \in [stage : Stages, id : Nat, calls : 0 .. MaxCloses]
  BY DEF LaneInv, AdmissionTypeOK, Numbered, LedgerOK, Threads, Replies
<1>2. thread.up \in BOOLEAN /\ thread.box \in Seq(Requests) /\ closing.stage \in Stages
  BY <1>1 DEF Threads
<1>3. Elements(thread.box) \subseteq Requests /\ Elements(replies) \subseteq Replies
      /\ Elements(batch) \subseteq Records /\ Elements(pending) \subseteq Records
  BY <1>1, <1>2, Parts
<1>4. \A q \in Requests : q.id \in Nat /\ q.items \in Seq(Records)
  BY DEF Requests
<1>5. \A m \in Replies : m.id \in Nat
  BY DEF Replies
<1>6. submitted \in Nat
  BY <1>1, RecordsAre
<1> QED
  BY <1>1, <1>2, <1>3, <1>4, <1>5, <1>6

\* admitOnWorker()
LEMMA PostIs ==
  ASSUME LaneInv, NEW kind \in {"events", "meter", "close"}, NEW items \in Seq(Records),
         Post(kind, items)
  PROVE  /\ thread' \in Threads /\ thread'.up
         /\ Request(kind, items).id = nextId /\ Request(kind, items).kind = kind
         /\ Request(kind, items).items = items
         /\ Elements(thread'.box) = Elements(thread.box) \cup {Request(kind, items)}
         /\ waiters' = waiters \cup {nextId} /\ waiters' \subseteq 1 .. nextId' - 1
         /\ nextId' = nextId + 1 /\ nextId' \in Nat /\ UNCHANGED <<broken, replies>>
         /\ Numbered'
<1> DEFINE q == Request(kind, items)
<1>1. q \in Requests /\ q.id = nextId /\ q.kind = kind /\ q.items = items
  BY LaneTypes DEF Request, Requests
<1>2. /\ thread' = [up |-> TRUE, box |-> Append(thread.box, q)]
      /\ waiters' = waiters \cup {nextId} /\ nextId' = nextId + 1
      /\ UNCHANGED <<broken, replies>>
  BY DEF Post
<1> HIDE DEF q
<1>3. /\ \A r \in Elements(thread.box) : r.id \in 1 .. nextId - 1
      /\ \A m \in Elements(replies) : m.id \in 1 .. nextId - 1 /\ \A r \in Elements(thread.box) : m.id < r.id
      /\ Rising(thread.box) /\ Rising(replies)
  BY DEF LaneInv, Numbered
<1>4. thread.box \in Seq(Requests) /\ nextId \in Nat \ {0} /\ waiters \subseteq 1 .. nextId - 1
  BY LaneTypes
<1>5. \A i \in 1 .. nextId - 1 : i < nextId /\ i \in 1 .. (nextId + 1) - 1
  BY <1>4
<1>6. /\ Append(thread.box, q) \in Seq(Requests)
      /\ Elements(Append(thread.box, q)) = Elements(thread.box) \cup {q}
      /\ Rising(Append(thread.box, q))
  BY <1>1, <1>3, <1>4, <1>5, AppendedTo
<1>7. thread' \in Threads /\ thread'.up /\ thread'.box = Append(thread.box, q)
  BY <1>2, <1>6 DEF Threads
<1>8. nextId' \in Nat /\ nextId' # 0 /\ nextId \in 1 .. nextId' - 1
  BY <1>2, <1>4
<1>9. waiters' \subseteq 1 .. nextId' - 1
  BY <1>2, <1>4, <1>5, <1>8
<1>10. Numbered'
  <2>1. Rising(replies') /\ Rising(thread'.box)
    BY <1>2, <1>3, <1>6, <1>7
  <2>2. \A m \in Elements(replies') :
          m.id \in 1 .. nextId' - 1 /\ \A r \in Elements(thread'.box) : m.id < r.id
    BY <1>1, <1>2, <1>3, <1>5, <1>6, <1>7
  <2>3. \A r \in Elements(thread'.box) : r.id \in 1 .. nextId' - 1
    BY <1>1, <1>2, <1>3, <1>5, <1>6, <1>7, <1>8
  <2>4. Rising(replies)' /\ Rising(thread.box)'
    BY <2>1 DEF Rising
  <2> QED
    BY <1>7, <1>8, <2>2, <2>3, <2>4 DEF Numbered, Elements
<1> QED
  BY <1>1, <1>2, <1>6, <1>7, <1>8, <1>9, <1>10 DEF q

\* pending.splice(0, limit)
LEMMA BatchIs ==
  ASSUME LaneInv, batch = << >>, pending # << >>
  PROVE  /\ Whole(SubSeq(pending, 1, BatchSize)) /\ SubSeq(pending, 1, BatchSize) # << >>
         /\ Len(SubSeq(pending, 1, BatchSize)) <= MaxBatch
         /\ Left(BatchSize) \in Seq(Records) /\ Ascending(Left(BatchSize))
         /\ Elements(pending) = Elements(SubSeq(pending, 1, BatchSize)) \cup Elements(Left(BatchSize))
         /\ Elements(SubSeq(pending, 1, BatchSize)) \cap Elements(Left(BatchSize)) = {}
         /\ SubSeq(pending, 1, BatchSize) \in Seq(Records)
<1>1. /\ pending \in Seq(Records) /\ Ascending(pending) /\ Elements(pending) \subseteq Nat
      /\ Elements(batch) = {} /\ Elements(pending) \subseteq Records
  BY LaneTypes, RecordsAre, NothingIn DEF LaneInv, Queued
<1>2. Len(pending) \in Nat /\ Len(pending) > 0 /\ MaxBatch \in Nat \ {0}
  BY <1>1, RecordsAre, LenProperties, EmptySeq
<1>3. PICK n : n = BatchSize
  OBVIOUS
<1>4. n \in 1 .. Len(pending) /\ n <= MaxBatch
  BY <1>2, <1>3 DEF BatchSize
<1>5. PICK a : a = SubSeq(pending, 1, n)
  OBVIOUS
<1>6. PICK b : b = SubSeq(pending, n + 1, Len(pending))
  OBVIOUS
<1>7. /\ a \in Seq(Records) /\ b \in Seq(Records) /\ Len(a) = n /\ a # << >>
      /\ Ascending(a) /\ Ascending(b) /\ Elements(pending) = Elements(a) \cup Elements(b)
      /\ \A x \in Elements(a) : \A y \in Elements(b) : x < y
  BY <1>1, <1>4, <1>5, <1>6, RecordsAre, Split
<1>8. Elements(a) \cap Elements(b) = {}
  <2>1. \A x \in Elements(a) : x \in Nat
    BY <1>1, <1>7
  <2>2. \A x \in Nat : ~(x < x)
    OBVIOUS
  <2> QED
    BY <1>7, <2>1, <2>2
<1>9. Whole(a)
  <2> SUFFICES ASSUME NEW s \in Elements(a), NEW r \in Records, r < s
               PROVE  r \in Elements(a) \/ Answered(r)
    BY <1>7 DEF Whole
  <2>1. s <= submitted /\ s \in Nat /\ r \in Nat /\ submitted \in Nat
    BY <1>1, <1>7, LaneTypes, RecordsAre DEF LaneInv, Queued
  <2>2. ~(r > submitted)
    BY <2>1
  <2>3. answer[r] = "none" => r \in Elements(a)
    <3>1. r \in Elements(b) => s < r
      BY <1>7
    <3>2. ~(s < r)
      BY <2>1
    <3> QED
      BY <1>1, <1>7, <2>2, <3>1, <3>2 DEF LaneInv, Queued
  <2>4. answer[r] # "refused"
    <3>1. answer[r] = "refused" => s < r
      BY <1>7 DEF LaneInv, Queued
    <3>2. ~(s < r)
      BY <2>1
    <3> QED
      BY <3>1, <3>2
  <2>5. answer[r] \in {"none", "durable", "failed", "refused"}
    BY DEF LaneInv, AdmissionTypeOK
  <2> QED
    BY <2>3, <2>4, <2>5 DEF Answered
<1> QED
  BY <1>3, <1>4, <1>5, <1>6, <1>7, <1>8, <1>9 DEF Left

LEMMA SinglyWritten ==
  ASSUME NEW l, LedgerOK(l), NEW items, Whole(items), Singly(l), Elements(items) \cap InLedger(l) = {}
  PROVE  Singly(Written(l, items))
<1>1. PICK w : w = Written(l, items)
  OBVIOUS
<1>2. l \in Seq(Rows) /\ items \in Seq(Records) /\ Ascending(items)
  BY DEF LedgerOK, Whole
<1>3. /\ w \in Seq(Rows) /\ DOMAIN l \subseteq DOMAIN w /\ \A i \in DOMAIN l : w[i] = l[i]
      /\ \A i \in DOMAIN w : i \notin DOMAIN l => w[i].record \in Elements(items)
      /\ \A i, j \in DOMAIN w : i \notin DOMAIN l /\ j \notin DOMAIN l /\ i < j
           => w[i].record < w[j].record
  BY <1>1, <1>2, WrittenIs
<1>4. \A i \in DOMAIN w : i \in Nat /\ w[i].record \in Nat
  <2>1. \A i \in DOMAIN w : i \in Nat /\ w[i] \in Rows
    BY <1>3, Parts
  <2> QED
    BY <2>1, RecordsAre DEF Rows
<1>5. ASSUME NEW i \in DOMAIN w, NEW j \in DOMAIN w, w[i].record = w[j].record PROVE i = j
  <2>1. CASE i \in DOMAIN l /\ j \in DOMAIN l
    BY <1>3, <1>5, <2>1 DEF Singly
  <2>2. CASE i \notin DOMAIN l /\ j \notin DOMAIN l
    <3>1. ~(i < j)
      BY <1>3, <1>4, <1>5, <2>2
    <3>2. ~(j < i)
      BY <1>3, <1>4, <1>5, <2>2
    <3> QED
      BY <1>4, <3>1, <3>2
  <2>3. CASE i \in DOMAIN l /\ j \notin DOMAIN l
    BY <1>3, <1>5, <2>3 DEF InLedger
  <2>4. CASE i \notin DOMAIN l /\ j \in DOMAIN l
    BY <1>3, <1>5, <2>4 DEF InLedger
  <2> QED
    BY <2>1, <2>2, <2>3, <2>4
<1> QED
  BY <1>1, <1>5 DEF Singly

\* Whatever else goes on while a batch is answered, the thread is sent nothing.
LEMMA SettledKeeps ==
  ASSUME LaneInv, NEW CONSTANT l, LedgerOK(l), NEW CONSTANT items, Whole(items),
         NEW CONSTANT left \in Seq(Records), Ascending(left), NEW callbacks \in Nat,
         NEW status \in {"durable", "failed"},
         Elements(items) \cap Elements(left) = {}, Elements(left) \subseteq Elements(pending),
         Elements(items) \cup Elements(left) = Elements(batch) \cup Elements(pending),
         Settle(items, left, callbacks, status), ledger' \in {l, Written(l, items)},
         status = "durable" => ledger' = Written(l, items) \/ Elements(items) \subseteq InLedger(l),
         batch # << >> \/ pending # << >>, UNCHANGED <<lane, nextId>>,
         thread' \in Threads, Elements(thread'.box) \subseteq Elements(thread.box),
         replies' \in Seq(Replies), Elements(replies') \subseteq Elements(replies), Numbered',
         broken' \in BOOLEAN, fellBack' \in BOOLEAN, waiters' \subseteq waiters,
         ~fellBack' => /\ ~fellBack /\ \A q \in Elements(thread'.box) : q.kind # "events"
                       /\ \/ ledger' = ledger
                          \/ ledger' = Written(ledger, items) /\ Elements(items) \cap InLedger(ledger) = {}
  PROVE  LaneInv'
<1>1. /\ Queued' /\ LedgerOK(ledger)' /\ AnswersGrow
      /\ answer' \in [Records -> {"none", "durable", "failed", "refused"}]
      /\ timer' \in BOOLEAN /\ ticks' \in Nat /\ (timer' => ticks' > 0)
      /\ batch' = << >> /\ waiting' = 0 /\ pending' = left /\ UNCHANGED submitted
      /\ Elements(pending') \subseteq Elements(pending)
  <2>1. Retiring => Retiring'
    BY DEF lane, Retiring
  <2> QED
    BY <2>1, Settles
<1>2. UNCHANGED <<meters, closing, acknowledged, nextId>>
  BY DEF lane
<1>3. closing.stage \in {"open", "flushing"} /\ ~acknowledged
  BY DEF LaneInv, Closes
<1>4. AdmissionTypeOK'
  <2>1. ledger' \in Seq(Rows)
    BY <1>1 DEF LedgerOK
  <2>2. submitted' \in 0 .. MaxRecords /\ pending' \in Seq(Records) /\ waiting' \in Nat /\ waiting' = 0
    BY <1>1 DEF LaneInv, AdmissionTypeOK
  <2>3. batch' \in Seq(Records) /\ Len(batch') <= MaxBatch
    BY <1>1, RecordsAre, EmptySeq
  <2>4. waiters' \subseteq 1 .. nextId' - 1 /\ nextId' \in Nat
    BY <1>2, LaneTypes
  <2>5. meters' \in 0 .. MaxMeters /\ acknowledged' \in BOOLEAN
        /\ closing' \in [stage : Stages, id : Nat, calls : 0 .. MaxCloses]
    BY <1>2 DEF LaneInv, AdmissionTypeOK
  <2> QED
    BY <1>1, <2>1, <2>2, <2>3, <2>4, <2>5 DEF AdmissionTypeOK, Threads, Replies, Rows
<1>5. Messages'
  <2>1. \A q \in Elements(thread'.box) : q.kind = "events" =>
          Whole(q.items) /\ \A r \in Elements(q.items) : r <= submitted /\ r \notin Elements(pending)
    BY DEF LaneInv, Messages
  <2>2. ASSUME NEW CONSTANT q \in Elements(thread'.box), q.kind = "events"
        PROVE  Whole(q.items)' /\ \A r \in Elements(q.items) : r <= submitted' /\ r \notin Elements(pending')
    <3>1. PICK i : i = q.items
      OBVIOUS
    <3>2. Whole(i)'
      BY <1>1, <2>1, <2>2, <3>1, WholeStays
    <3> QED
      BY <1>1, <2>1, <2>2, <3>1, <3>2
  <2>3. \A q \in Elements(thread'.box) : q.id # waiting'
    BY <1>1 DEF Numbered, Elements
  <2>4. \A m \in Elements(replies') : m.id # waiting'
    BY <1>1 DEF Numbered, Elements
  <2> QED
    BY <2>2, <2>3, <2>4 DEF Messages, Elements
<1>6. Unrepeated'
  <2>1. ~fellBack' => Singly(ledger')
    BY SinglyWritten DEF LaneInv, Unrepeated
  <2> QED
    BY <2>1 DEF Unrepeated, Singly, Elements
<1>7. Closes'
  BY <1>2, <1>3 DEF Closes
<1> QED
  BY <1>1, <1>4, <1>5, <1>6, <1>7 DEF LaneInv

\* The requests of the thread that are left, when nothing else is sent.
LEMMA NumberedStays ==
  ASSUME LaneInv, UNCHANGED nextId, thread'.box \in {thread.box, << >>}, ~thread'.up => thread'.box = << >>,
         \/ replies' = replies
         \/ replies # << >> /\ replies' = Tail(replies)
  PROVE  /\ Numbered' /\ replies' \in Seq(Replies) /\ Elements(replies') \subseteq Elements(replies)
         /\ Elements(thread'.box) \subseteq Elements(thread.box)
<1>1. replies' \in Seq(Replies) /\ Elements(replies') \subseteq Elements(replies) /\ Rising(replies')
  BY LaneTypes, HeadAndRest DEF LaneInv, Numbered
<1>2. Elements(thread'.box) \subseteq Elements(thread.box) /\ Rising(thread'.box)
  BY NothingIn DEF LaneInv, Numbered
<1>3. Rising(replies)' /\ Rising(thread.box)'
  BY <1>1, <1>2 DEF Rising
<1> QED
  BY <1>1, <1>2, <1>3 DEF LaneInv, Numbered, Elements

\* drain() admits the batch itself.
LEMMA HereKeeps ==
  ASSUME LaneInv, batch = << >>, pending # << >>, NEW callbacks \in Nat,
         AdmitHere(ledger, SubSeq(pending, 1, BatchSize), Left(BatchSize), callbacks),
         UNCHANGED <<lane, thread, waiters, replies, nextId>>, broken' \in BOOLEAN,
         fellBack' \in {TRUE, fellBack}
  PROVE  LaneInv'
<1>1. PICK items : items = SubSeq(pending, 1, BatchSize)
  OBVIOUS
<1>2. PICK left : left = Left(BatchSize)
  OBVIOUS
<1>3. /\ Whole(items) /\ left \in Seq(Records) /\ Ascending(left)
      /\ Elements(pending) = Elements(items) \cup Elements(left)
      /\ Elements(items) \cap Elements(left) = {}
  BY <1>1, <1>2, BatchIs
<1>4. PICK written \in BOOLEAN :
        /\ ledger' = IF written THEN Written(ledger, items) ELSE ledger
        /\ Settle(items, left, callbacks, IF written THEN "durable" ELSE "failed")
  BY <1>1, <1>2 DEF AdmitHere
<1>5. PICK l : l = ledger
  OBVIOUS
<1>6. LedgerOK(l) /\ Elements(items) \cap InLedger(ledger) = {}
  BY <1>3, <1>5 DEF LaneInv, LedgerOK
<1>7. PICK status : status = IF written THEN "durable" ELSE "failed"
  OBVIOUS
<1>8. /\ status \in {"durable", "failed"} /\ ledger' \in {l, Written(l, items)}
      /\ status = "durable" => ledger' = Written(l, items)
  BY <1>4, <1>5, <1>7
<1>9. Numbered'
  BY DEF LaneInv, Numbered, Elements, Rising
<1>10. ~fellBack => \A q \in Elements(thread.box) : q.kind # "events"
  <2>1. waiting = 0
    BY DEF LaneInv, Queued
  <2>2. \A q \in Elements(thread.box) : q.id # 0
    BY DEF LaneInv, Numbered
  <2> QED
    BY <2>1, <2>2 DEF LaneInv, Unrepeated
<1>11. /\ thread' \in Threads /\ replies' \in Seq(Replies) /\ fellBack' \in BOOLEAN
       /\ Elements(batch) = {}
  BY LaneTypes, NothingIn DEF LaneInv, AdmissionTypeOK
<1>12. ~fellBack' => /\ ~fellBack /\ \A q \in Elements(thread'.box) : q.kind # "events"
                     /\ \/ ledger' = ledger
                        \/ ledger' = Written(ledger, items) /\ Elements(items) \cap InLedger(ledger) = {}
  BY <1>5, <1>6, <1>8, <1>10
<1>13. Settle(items, left, callbacks, status)
  BY <1>4, <1>7
<1>14. /\ Elements(left) \subseteq Elements(pending)
       /\ Elements(items) \cup Elements(left) = Elements(batch) \cup Elements(pending)
  BY <1>3, <1>11
<1> QED
  BY <1>3, <1>6, <1>8, <1>9, <1>11, <1>12, <1>13, <1>14, SettledKeeps

\* The batch that waits for the thread is admitted here: the thread has failed it.
LEMMA FallBackKeeps ==
  ASSUME LaneInv, waiting # 0, NEW CONSTANT l, LedgerOK(l), FallBack(l),
         UNCHANGED <<lane, nextId>>, thread' \in Threads, broken' \in BOOLEAN, waiters' \subseteq waiters,
         thread'.box \in {thread.box, << >>}, ~thread'.up => thread'.box = << >>,
         \/ replies' = replies
         \/ replies # << >> /\ replies' = Tail(replies)
  PROVE  LaneInv'
<1>1. PICK items : items = batch
  OBVIOUS
<1>2. PICK left : left = pending
  OBVIOUS
<1>3. /\ Whole(items) /\ left \in Seq(Records) /\ Ascending(left) /\ batch # << >>
      /\ Elements(items) \cap Elements(left) = {}
  BY <1>1, <1>2, LaneTypes DEF LaneInv, Queued
<1>4. PICK written \in BOOLEAN :
        /\ ledger' = IF written THEN Written(l, items) ELSE l
        /\ Settle(items, left, ticks, IF written THEN "durable" ELSE "failed")
  BY <1>1, <1>2 DEF AdmitHere, FallBack
<1>5. PICK status : status = IF written THEN "durable" ELSE "failed"
  OBVIOUS
<1>6. /\ status \in {"durable", "failed"} /\ ledger' \in {l, Written(l, items)}
      /\ status = "durable" => ledger' = Written(l, items)
  BY <1>4, <1>5
<1>7. Settle(items, left, ticks, status)
  BY <1>4, <1>5
<1>8. /\ Numbered' /\ replies' \in Seq(Replies) /\ Elements(replies') \subseteq Elements(replies)
      /\ Elements(thread'.box) \subseteq Elements(thread.box)
  BY NumberedStays
<1>9. fellBack' = TRUE /\ ticks \in Nat
  BY LaneTypes DEF FallBack
<1>10. /\ Elements(left) \subseteq Elements(pending)
       /\ Elements(items) \cup Elements(left) = Elements(batch) \cup Elements(pending)
  BY <1>1, <1>2
<1> QED
  BY <1>3, <1>6, <1>7, <1>8, <1>9, <1>10, SettledKeeps

\* The thread answers the batch in flight.
LEMMA AnswerKeeps ==
  ASSUME LaneInv, waiting # 0, replies # << >>, Head(replies).id = waiting,
         NEW status \in {"durable", "failed"}, Head(replies).result = status,
         Settle(batch, pending, ticks, status), waiters' \subseteq waiters,
         UNCHANGED <<lane, nextId, thread, broken, fellBack, ledger>>, replies' = Tail(replies)
  PROVE  LaneInv'
<1>1. PICK items : items = batch
  OBVIOUS
<1>2. PICK left : left = pending
  OBVIOUS
<1>a. PICK l : l = ledger
  OBVIOUS
<1>3. /\ Whole(items) /\ left \in Seq(Records) /\ Ascending(left) /\ batch # << >>
      /\ Elements(items) \cap Elements(left) = {} /\ LedgerOK(l)
  BY <1>1, <1>2, <1>a, LaneTypes DEF LaneInv, Queued
<1>4. Head(replies) \in Elements(replies)
  BY LaneTypes, HeadAndRest
<1>5. status = "durable" => Elements(items) \subseteq InLedger(l)
  BY <1>1, <1>a, <1>4 DEF LaneInv, Messages
<1>6. ~thread.up => thread.box = << >>
  BY DEF LaneInv, Numbered
<1>7. /\ Numbered' /\ replies' \in Seq(Replies) /\ Elements(replies') \subseteq Elements(replies)
      /\ Elements(thread'.box) \subseteq Elements(thread.box)
  BY <1>6, NumberedStays
<1>8. \A q \in Elements(thread.box) : q.id # waiting
  <2>1. \A q \in Elements(thread.box) : waiting < q.id
    BY <1>4 DEF LaneInv, Numbered
  <2>2. waiting \in Nat
    BY LaneTypes
  <2> QED
    BY <2>1, <2>2
<1>9. ~fellBack => \A q \in Elements(thread.box) : q.kind # "events"
  BY <1>8 DEF LaneInv, Unrepeated
<1>10. /\ Elements(left) \subseteq Elements(pending)
       /\ Elements(items) \cup Elements(left) = Elements(batch) \cup Elements(pending)
  BY <1>1, <1>2
<1>11. /\ thread' \in Threads /\ broken' \in BOOLEAN /\ fellBack' \in BOOLEAN /\ ticks \in Nat
       /\ ledger' \in {l, Written(l, items)}
  BY <1>a, LaneTypes DEF LaneInv, AdmissionTypeOK
<1>12. Settle(items, left, ticks, status)
  BY <1>1, <1>2
<1> QED
  BY <1>3, <1>5, <1>7, <1>9, <1>10, <1>11, <1>12, SettledKeeps

\* The steps that answer nobody whose record is in the queue.
LEMMA QuietKeeps ==
  ASSUME LaneInv, UNCHANGED <<submitted, pending, batch, answer, waiting, fellBack>>,
         timer' \in BOOLEAN, ticks' \in Nat, timer' => ticks' > 0, meters' \in 0 .. MaxMeters,
         broken' \in BOOLEAN, acknowledged' \in BOOLEAN,
         closing' \in [stage : Stages, id : Nat, calls : 0 .. MaxCloses], Closes', Retiring => Retiring',
         thread' \in Threads, nextId' \in Nat, waiters' \subseteq 1 .. nextId' - 1,
         waiting # 0 => waiting \in waiters', replies' \in Seq(Replies), Numbered',
         \A q \in Elements(thread'.box) :
           q \in Elements(thread.box) \/ (q.kind # "events" /\ q.id # waiting),
         \A m \in Elements(replies') : m \in Elements(replies) \/
           (m.id = waiting => /\ m.result # "done"
                              /\ m.result = "durable" => Elements(batch) \subseteq InLedger(ledger')),
         NEW CONSTANT l, ledger' = l, LedgerOK(l), InLedger(ledger) \subseteq InLedger(l),
         ~fellBack => \/ ledger' = ledger
                      \/ Singly(ledger') /\ \A q \in Elements(thread'.box) : q.kind # "events"
  PROVE  LaneInv'
<1>1. AnswersGrow
  BY DEF AnswersGrow
<1>2. AdmissionTypeOK'
  <2>1. ledger' \in Seq(Rows)
    BY DEF LedgerOK
  <2>2. /\ submitted' \in 0 .. MaxRecords /\ pending' \in Seq(Records) /\ waiting' \in Nat
        /\ batch' \in Seq(Records) /\ Len(batch') <= MaxBatch /\ fellBack' \in BOOLEAN
        /\ answer' \in [Records -> {"none", "durable", "failed", "refused"}]
        /\ (waiting' # 0 => waiting' \in waiters' /\ batch' # << >>)
    BY DEF LaneInv, AdmissionTypeOK
  <2> QED
    BY <2>1, <2>2 DEF AdmissionTypeOK, Threads, Replies, Rows
<1>3. Queued'
  <2>1. PICK b : b = batch
    OBVIOUS
  <2>2. Whole(b)'
    BY <1>1, <2>1, WholeStays DEF LaneInv, Queued
  <2>3. Whole(batch)'
    BY <2>1, <2>2 DEF Whole, Answered, Elements, Ascending
  <2> QED
    BY <2>3 DEF LaneInv, Queued, Elements, Ascending
<1>4. Messages'
  <2>1. ASSUME NEW CONSTANT q \in Elements(thread'.box), q.kind = "events"
        PROVE  Whole(q.items)' /\ \A r \in Elements(q.items) : r <= submitted' /\ r \notin Elements(pending')
    <3>1. PICK i : i = q.items
      OBVIOUS
    <3>2. /\ Whole(i) /\ \A r \in Elements(q.items) : r <= submitted /\ r \notin Elements(pending)
      BY <2>1, <3>1 DEF LaneInv, Messages
    <3>3. Whole(i)'
      BY <1>1, <3>2, WholeStays
    <3> QED
      BY <3>1, <3>2, <3>3
  <2>2. \A q \in Elements(thread'.box) : q.id = waiting' => q.kind = "events" /\ q.items = batch'
    BY DEF LaneInv, Messages
  <2>3. \A m \in Elements(replies') : m.id = waiting' =>
          m.result # "done" /\ (m.result = "durable" => Elements(batch') \subseteq InLedger(ledger'))
    BY DEF LaneInv, Messages
  <2> QED
    BY <2>1, <2>2, <2>3 DEF Messages, Elements, InLedger
<1>5. LedgerOK(ledger)'
  BY DEF LedgerOK, DurableIn, OrderIn, InLedger, Elements
<1>6. Unrepeated'
  <2>1. ~fellBack' => Singly(ledger')
    BY DEF LaneInv, Unrepeated
  <2>2. ~fellBack' => \A q \in Elements(thread'.box) : q.kind = "events" =>
          q.id = waiting' /\ Elements(batch') \cap InLedger(ledger') = {}
    BY DEF LaneInv, Unrepeated
  <2> QED
    BY <2>1, <2>2 DEF Unrepeated, Singly, Elements, InLedger
<1> QED
  BY <1>2, <1>3, <1>4, <1>5, <1>6 DEF LaneInv

-----------------------------------------------------------------------------
(* The lane: steps that answer nobody *)

LEMMA LaneNow ==
  ASSUME LaneInv
  PROVE  /\ timer \in BOOLEAN /\ ticks \in Nat /\ (timer => ticks > 0) /\ meters \in 0 .. MaxMeters
         /\ broken \in BOOLEAN /\ acknowledged \in BOOLEAN /\ fellBack \in BOOLEAN
         /\ waiting # 0 => waiting \in waiters /\ batch # << >>
         /\ MaxMeters \in Nat /\ MaxCloses \in Nat /\ closing.calls \in 0 .. MaxCloses
         /\ Queued /\ Numbered /\ Messages /\ LedgerOK(ledger) /\ Unrepeated /\ Closes
BY AdmissionConstants DEF LaneInv, AdmissionTypeOK

\* The steps that leave the messages and the ledger alone.
LEMMA StillKeeps ==
  ASSUME LaneInv, UNCHANGED <<submitted, pending, batch, answer, waiting, fellBack, ledger, worker>>,
         timer' \in BOOLEAN, ticks' \in Nat, timer' => ticks' > 0, meters' \in 0 .. MaxMeters,
         UNCHANGED acknowledged, Retiring => Retiring',
         closing' \in [stage : Stages, id : Nat, calls : 0 .. MaxCloses], Closes'
  PROVE  LaneInv'
<1>1. UNCHANGED <<thread, broken, waiters, replies, nextId>>
  BY DEF worker
<1>2. PICK l : l = ledger'
  OBVIOUS
<1>3. Numbered'
  BY <1>1, LaneNow DEF Numbered, Elements, Rising
<1>4. LedgerOK(l) /\ InLedger(ledger) \subseteq InLedger(l)
  BY <1>2, LaneNow
<1> QED
  BY <1>1, <1>2, <1>3, <1>4, LaneNow, LaneTypes, QuietKeeps

LEMMA IdleTick ==
  ASSUME LaneInv, Tick, ~(batch = << >> /\ pending # << >>)
  PROVE  LaneInv'
<1>1. /\ timer' = FALSE /\ ticks' = ticks - 1 /\ ticks > 0
      /\ UNCHANGED <<submitted, pending, batch, answer, waiting, worker, lane, fellBack, ledger>>
  BY DEF Tick
<1>2. UNCHANGED <<meters, closing, acknowledged>> /\ UNCHANGED <<thread, broken, waiters, replies, nextId>>
  BY <1>1 DEF lane, worker
<1>3. ticks' \in Nat /\ timer' \in BOOLEAN /\ ~timer'
  <2>1. ticks' \in Nat
    BY <1>1, LaneNow
  <2> QED
    BY <1>1, <2>1
<1>4. Closes' /\ (Retiring => Retiring')
  BY <1>1, <1>2, LaneNow DEF Closes, Retiring
<1> QED
  BY <1>1, <1>2, <1>3, <1>4, LaneNow, LaneTypes, StillKeeps

LEMMA CloseKeeps ==
  ASSUME LaneInv, Close
  PROVE  LaneInv'
<1>1. /\ closing.stage \in {"open", "failed"} /\ closing.calls < MaxCloses
      /\ closing' = [stage |-> "flushing", id |-> 0, calls |-> closing.calls + 1]
      /\ timer' = FALSE /\ ticks' = IF timer THEN ticks - 1 ELSE ticks
      /\ UNCHANGED <<submitted, pending, batch, answer, waiting, worker, meters, acknowledged,
                     fellBack, ledger>>
  BY DEF Close
<1>2. UNCHANGED <<thread, broken, waiters, replies, nextId>>
  BY <1>1 DEF worker
<1>3. ticks' \in Nat
  BY <1>1, LaneNow
<1>4. closing' \in [stage : Stages, id : Nat, calls : 0 .. MaxCloses] /\ closing'.stage = "flushing"
  BY <1>1, LaneNow DEF Stages
<1>5. Closes' /\ Retiring'
  BY <1>1, <1>2, <1>4, LaneNow DEF Closes, Retiring
<1>6. timer' \in BOOLEAN /\ ~timer'
  BY <1>1
<1> QED
  BY <1>1, <1>3, <1>4, <1>5, <1>6, LaneNow, StillKeeps

LEMMA MeterKeeps ==
  ASSUME LaneInv, Meter
  PROVE  LaneInv'
<1>1. /\ meters < MaxMeters /\ closing.stage = "open" /\ meters' = meters + 1
      /\ UNCHANGED <<queue, waiting, closing, acknowledged, fellBack, ledger>>
  BY DEF Meter, Retiring
<1>2. UNCHANGED <<submitted, pending, batch, timer, ticks, answer>>
  BY <1>1 DEF queue
<1>3. meters' \in 0 .. MaxMeters
  BY <1>1, LaneNow
<1>4. PICK l : l = ledger'
  OBVIOUS
<1>5. LedgerOK(l) /\ InLedger(ledger) \subseteq InLedger(l)
  BY <1>1, <1>4, LaneNow
<1>6. ~acknowledged
  BY <1>1, LaneNow DEF Closes, Retiring
<1>7. Closes' /\ (Retiring => Retiring')
  BY <1>1, <1>6 DEF Closes, Retiring
<1>8. CASE Post("meter", << >>)
  <2>1. PICK q : q = Request("meter", << >>)
    OBVIOUS
  <2>2. << >> \in Seq(Records)
    BY EmptySeq
  <2>3. /\ thread' \in Threads /\ q.id = nextId /\ q.kind = "meter"
        /\ Elements(thread'.box) = Elements(thread.box) \cup {q}
        /\ waiters' = waiters \cup {nextId} /\ waiters' \subseteq 1 .. nextId' - 1
        /\ nextId' \in Nat /\ UNCHANGED <<broken, replies>> /\ Numbered'
    BY <1>8, <2>1, <2>2, PostIs
  <2>4. q.id # waiting
    <3>1. waiting # 0 => waiting \in 1 .. nextId - 1
      BY LaneNow, LaneTypes
    <3>2. nextId \in Nat \ {0}
      BY LaneTypes
    <3> QED
      BY <2>3, <3>1, <3>2
  <2>5. \A r \in Elements(thread'.box) : r \in Elements(thread.box) \/ (r.kind # "events" /\ r.id # waiting)
    BY <2>3, <2>4
  <2> QED
    BY <1>1, <1>2, <1>3, <1>4, <1>5, <1>7, <2>3, <2>5, LaneNow, LaneTypes, QuietKeeps
<1>9. CASE NoThread
  <2>1. broken' = ~thread.up /\ UNCHANGED <<thread, waiters, replies, nextId>>
    BY <1>9 DEF NoThread
  <2>2. Numbered' /\ broken' \in BOOLEAN
    BY <2>1, LaneNow DEF Numbered, Elements, Rising
  <2> QED
    BY <1>1, <1>2, <1>3, <1>4, <1>5, <1>7, <2>1, <2>2, LaneNow, LaneTypes, QuietKeeps
<1> QED
  BY <1>8, <1>9 DEF Meter

LEMMA TerminateKeeps ==
  ASSUME LaneInv, NEW ended \in BOOLEAN, Terminate(ended)
  PROVE  LaneInv'
<1>1. /\ closing.stage = "ending"
      /\ closing' = [closing EXCEPT !.stage = IF ended THEN "closed" ELSE "failed"]
      /\ thread' = IF ended THEN [up |-> FALSE, box |-> << >>] ELSE thread
      /\ UNCHANGED <<queue, waiting, broken, waiters, replies, nextId, meters, acknowledged,
                     fellBack, ledger>>
  BY DEF Terminate
<1>2. UNCHANGED <<submitted, pending, batch, timer, ticks, answer>>
  BY <1>1 DEF queue
<1>3. thread' \in Threads /\ thread'.box \in {thread.box, << >>} /\ (ended => ~thread'.up)
      /\ (~thread'.up => thread'.box = << >>)
  <2>1. CASE ended
    <3>1. [up |-> FALSE, box |-> << >>] \in Threads
      BY EmptySeq DEF Threads
    <3> QED
      BY <1>1, <2>1, <3>1
  <2>2. CASE ~ended
    BY <1>1, <2>2, LaneNow, LaneTypes DEF Numbered
  <2> QED
    BY <2>1, <2>2
<1>4. /\ closing' \in [stage : Stages, id : Nat, calls : 0 .. MaxCloses]
      /\ closing'.stage = IF ended THEN "closed" ELSE "failed"
  BY <1>1, LaneTypes DEF Stages
<1>5. waiters = {} /\ thread.box = << >> /\ batch = << >> /\ pending = << >>
  BY <1>1, LaneNow DEF Closes
<1>6. Closes' /\ Retiring'
  BY <1>1, <1>2, <1>3, <1>4, <1>5, LaneNow DEF Closes, Retiring
<1>7. Numbered' /\ Elements(thread'.box) \subseteq Elements(thread.box)
  BY <1>1, <1>3, NumberedStays
<1>8. PICK l : l = ledger'
  OBVIOUS
<1>9. LedgerOK(l) /\ InLedger(ledger) \subseteq InLedger(l)
  BY <1>1, <1>8, LaneNow
<1> QED
  BY <1>1, <1>2, <1>3, <1>4, <1>6, <1>7, <1>8, <1>9, LaneNow, LaneTypes, QuietKeeps

LEMMA AskKeeps ==
  ASSUME LaneInv, AskToClose
  PROVE  LaneInv'
<1>1. /\ closing.stage = "flushing" /\ batch = << >> /\ pending = << >> /\ waiters = {}
      /\ UNCHANGED <<queue, waiting, meters, acknowledged, fellBack, ledger>>
  BY DEF AskToClose, Flushed
<1>2. UNCHANGED <<submitted, pending, batch, timer, ticks, answer>>
  BY <1>1 DEF queue
<1>3. CASE UNCHANGED worker
  <2>1. PICK stage \in {"failed", "ending", "closed"} :
          /\ closing' = [closing EXCEPT !.stage = stage]
          /\ stage = "ending" => thread.box = << >>
          /\ stage = "closed" => ~thread.up
    <3>1. CASE thread.up /\ ~acknowledged
      <4>1. waiters' = waiters
        BY <1>3 DEF worker
      <4>2. ~Post("close", << >>)
        <5>1. nextId \in Nat /\ (Post("close", << >>) => nextId' = nextId + 1) /\ nextId' = nextId
          BY <1>3, LaneTypes DEF Post, worker
        <5> QED
          BY <5>1
      <4> QED
        BY <3>1, <4>2 DEF AskToClose
    <3>2. CASE ~(thread.up /\ ~acknowledged)
      <4>1. closing' = [closing EXCEPT !.stage = IF thread.up THEN "ending" ELSE "closed"]
        BY <3>2 DEF AskToClose
      <4>2. thread.up => thread.box = << >>
        BY <3>2, LaneNow DEF Closes
      <4> QED
        BY <4>1, <4>2
    <3> QED
      BY <3>1, <3>2
  <2>2. UNCHANGED <<thread, broken, waiters, replies, nextId>>
    BY <1>3 DEF worker
  <2>3. closing' \in [stage : Stages, id : Nat, calls : 0 .. MaxCloses] /\ closing'.stage = stage
    BY <2>1, LaneTypes DEF Stages
  <2>4. Closes' /\ Retiring'
    BY <1>1, <1>2, <2>1, <2>2, <2>3, LaneNow DEF Closes, Retiring
  <2> QED
    BY <1>1, <1>2, <1>3, <2>3, <2>4, LaneNow, StillKeeps
<1>4. CASE ~UNCHANGED worker
  <2>1. /\ thread.up /\ ~acknowledged /\ Post("close", << >>)
        /\ closing' = [closing EXCEPT !.stage = "asking", !.id = nextId]
    BY <1>4 DEF AskToClose
  <2>2. PICK q : q = Request("close", << >>)
    OBVIOUS
  <2>3. << >> \in Seq(Records)
    BY EmptySeq
  <2>4. /\ thread' \in Threads /\ q.id = nextId /\ q.kind = "close"
        /\ Elements(thread'.box) = Elements(thread.box) \cup {q}
        /\ waiters' = waiters \cup {nextId} /\ waiters' \subseteq 1 .. nextId' - 1
        /\ nextId' = nextId + 1 /\ nextId' \in Nat /\ UNCHANGED <<broken, replies>> /\ Numbered'
    BY <2>1, <2>2, <2>3, PostIs
  <2>5. waiting = 0
    BY <1>1, LaneNow DEF Queued
  <2>6. nextId \in Nat \ {0}
    BY LaneTypes
  <2>7. closing' \in [stage : Stages, id : Nat, calls : 0 .. MaxCloses]
        /\ closing'.stage = "asking" /\ closing'.id = nextId
    BY <2>1, <2>6, LaneTypes DEF Stages
  <2>8. nextId' - 1 = nextId /\ waiters' = {nextId}
    BY <1>1, <2>4, <2>6
  <2>9. Closes' /\ Retiring'
    BY <1>1, <1>2, <2>1, <2>7, <2>8, LaneNow DEF Closes, Retiring
  <2>10. \A r \in Elements(thread'.box) : r \in Elements(thread.box) \/ (r.kind # "events" /\ r.id # waiting)
    BY <2>4, <2>5, <2>6
  <2>11. PICK l : l = ledger'
    OBVIOUS
  <2>12. LedgerOK(l) /\ InLedger(ledger) \subseteq InLedger(l)
    BY <1>1, <2>11, LaneNow
  <2> QED
    BY <1>1, <1>2, <2>4, <2>5, <2>7, <2>9, <2>10, <2>11, <2>12, LaneNow, LaneTypes, QuietKeeps
<1> QED
  BY <1>3, <1>4

-----------------------------------------------------------------------------
(* The lane: the thread and its answers *)

\* The thread takes the message at the head of its box, and answers.
LEMMA ThreadIs ==
  ASSUME LaneInv, thread.up, thread.box # << >>, NEW result \in {"durable", "failed", "done", "error"},
         replies' = Append(replies, [id |-> Head1.id, result |-> result]),
         thread' = [thread EXCEPT !.box = Tail(@)], UNCHANGED nextId
  PROVE  /\ thread' \in Threads /\ replies' \in Seq(Replies) /\ Numbered'
         /\ Head1 \in Elements(thread.box) /\ Elements(thread'.box) \subseteq Elements(thread.box)
         /\ \A q \in Elements(thread'.box) : q.id # Head1.id
         /\ \A m \in Elements(replies') :
              m \in Elements(replies) \/ (m.id = Head1.id /\ m.result = result)
<1>1. /\ thread.box \in Seq(Requests) /\ replies \in Seq(Replies) /\ nextId \in Nat \ {0}
      /\ thread \in Threads
  BY LaneTypes
<1>2. PICK q : q = Head1
  OBVIOUS
<1>3. PICK m : m = [id |-> q.id, result |-> result]
  OBVIOUS
<1>4. PICK rest : rest = Tail(thread.box)
  OBVIOUS
<1>5. /\ q \in Requests /\ rest \in Seq(Requests) /\ q \in Elements(thread.box)
      /\ Elements(thread.box) = {q} \cup Elements(rest)
      /\ Rising(rest) /\ \A r \in Elements(rest) : q.id < r.id
  BY <1>1, <1>2, <1>4, HeadAndRest, LaneNow DEF Head1, Numbered
<1>6. m \in Replies /\ m.id = q.id /\ m.result = result
  BY <1>3, <1>5 DEF Requests, Replies
<1>7. /\ \A n \in Elements(replies) : n.id \in 1 .. nextId - 1 /\ \A r \in Elements(thread.box) : n.id < r.id
      /\ \A r \in Elements(thread.box) : r.id \in 1 .. nextId - 1 /\ r.id \in Nat
      /\ Rising(replies)
  BY LaneNow, LaneTypes DEF Numbered
<1>8. replies' = Append(replies, m)
  BY <1>2, <1>3
<1>9. /\ replies' \in Seq(Replies) /\ Elements(replies') = Elements(replies) \cup {m} /\ Rising(replies')
  BY <1>1, <1>5, <1>6, <1>7, <1>8, AppendedTo
<1>10. thread' \in Threads /\ thread'.box = rest /\ thread'.up
  BY <1>1, <1>4, <1>5 DEF Threads
<1>11. \A n \in Elements(replies') : n.id \in 1 .. nextId - 1 /\ \A r \in Elements(rest) : n.id < r.id
  BY <1>5, <1>6, <1>7, <1>9
<1>12. Numbered'
  <2>1. Rising(replies)' /\ Rising(thread.box)'
    BY <1>5, <1>9, <1>10 DEF Rising
  <2>2. \A r \in Elements(rest) : r.id \in 1 .. nextId - 1
    BY <1>5, <1>7
  <2>3. nextId' # 0 /\ nextId' = nextId
    BY <1>1
  <2> QED
    BY <1>10, <1>11, <2>1, <2>2, <2>3, ZenonT(60) DEF Numbered, Elements
<1>13. \A r \in Elements(rest) : r.id # q.id
  BY <1>5, <1>7
<1> QED
  BY <1>2, <1>5, <1>6, <1>9, <1>10, <1>12, <1>13

\* What the thread writes of a batch it was sent.
LEMMA SentIs ==
  ASSUME LaneInv, NEW q \in Elements(thread.box), q.kind = "events"
  PROVE  /\ LedgerOK(Written(ledger, q.items)) /\ Whole(q.items)
         /\ InLedger(Written(ledger, q.items)) = InLedger(ledger) \cup Elements(q.items)
<1>1. /\ Whole(q.items) /\ LedgerOK(ledger)
      /\ \A r \in Elements(q.items) : r <= submitted /\ r \notin Elements(pending)
  BY LaneNow DEF Messages
<1>2. PICK w : w = Written(ledger, q.items)
  OBVIOUS
<1>3. w \in Seq(Rows) /\ DurableIn(w) /\ OrderIn(w) /\ InLedger(w) = InLedger(ledger) \cup Elements(q.items)
  BY <1>1, <1>2, WrittenKeeps
<1> QED
  BY <1>1, <1>2, <1>3 DEF LedgerOK

LEMMA ThreadAdmitsKeeps ==
  ASSUME LaneInv, NEW result \in {"durable", "failed", "error"}, ThreadAdmits(result)
  PROVE  LaneInv'
<1>1. /\ thread.up /\ thread.box # << >> /\ Head1.kind = "events"
      /\ ledger' = IF result = "durable" THEN Written(ledger, Head1.items) ELSE ledger
      /\ replies' = Append(replies, [id |-> Head1.id, result |-> result])
      /\ thread' = [thread EXCEPT !.box = Tail(@)]
      /\ UNCHANGED <<queue, waiting, broken, waiters, nextId, lane, fellBack>>
  BY DEF ThreadAdmits
<1>2. UNCHANGED <<submitted, pending, batch, timer, ticks, answer, meters, closing, acknowledged>>
  BY <1>1 DEF queue, lane
<1>3. PICK q : q = Head1
  OBVIOUS
<1>4. /\ thread' \in Threads /\ replies' \in Seq(Replies) /\ Numbered'
      /\ q \in Elements(thread.box) /\ Elements(thread'.box) \subseteq Elements(thread.box)
      /\ \A r \in Elements(thread'.box) : r.id # q.id
      /\ \A m \in Elements(replies') : m \in Elements(replies) \/ (m.id = q.id /\ m.result = result)
  BY <1>1, <1>3, ThreadIs
<1>5. /\ LedgerOK(Written(ledger, q.items)) /\ Whole(q.items)
      /\ InLedger(Written(ledger, q.items)) = InLedger(ledger) \cup Elements(q.items)
      /\ q.id = waiting => q.items = batch
  BY <1>1, <1>3, <1>4, SentIs, LaneNow DEF Messages
<1>6. PICK l : l = ledger'
  OBVIOUS
<1>7. l = IF result = "durable" THEN Written(ledger, q.items) ELSE ledger
  BY <1>1, <1>3, <1>6
<1>8. /\ LedgerOK(l) /\ InLedger(ledger) \subseteq InLedger(l)
      /\ result = "durable" => Elements(q.items) \subseteq InLedger(l)
  BY <1>5, <1>7, LaneNow
<1>9. \A m \in Elements(replies') : m \in Elements(replies) \/
        (m.id = waiting => /\ m.result # "done"
                           /\ m.result = "durable" => Elements(batch) \subseteq InLedger(ledger'))
  BY <1>4, <1>5, <1>6, <1>8
<1>10. ~fellBack => \/ ledger' = ledger
                    \/ Singly(ledger') /\ \A r \in Elements(thread'.box) : r.kind # "events"
  <2> SUFFICES ASSUME ~fellBack, result = "durable"
               PROVE  Singly(ledger') /\ \A r \in Elements(thread'.box) : r.kind # "events"
    BY <1>1
  <2>1. q.id = waiting /\ Elements(batch) \cap InLedger(ledger) = {} /\ Singly(ledger)
    BY <1>1, <1>3, <1>4, LaneNow DEF Unrepeated
  <2>2. Singly(Written(ledger, q.items))
    BY <1>5, <2>1, LaneNow, SinglyWritten
  <2>3. \A r \in Elements(thread'.box) : r.kind # "events"
    BY <1>4, <2>1, LaneNow DEF Unrepeated
  <2> QED
    BY <1>6, <1>7, <2>2, <2>3
<1>11. Closes' /\ (Retiring => Retiring')
  <2>1. ~acknowledged /\ closing.stage # "ending"
    BY <1>1, LaneNow DEF Closes
  <2>2. thread'.up = thread.up
    BY <1>1, LaneTypes DEF Threads
  <2> QED
    BY <1>1, <1>2, <2>1, <2>2, LaneNow DEF Closes, Retiring
<1> QED
  BY <1>1, <1>2, <1>4, <1>6, <1>8, <1>9, <1>10, <1>11, LaneNow, LaneTypes, QuietKeeps

LEMMA ThreadServesKeeps ==
  ASSUME LaneInv, NEW result \in {"done", "error"}, ThreadServes(result)
  PROVE  LaneInv'
<1>1. /\ thread.up /\ thread.box # << >> /\ Head1.kind # "events"
      /\ replies' = Append(replies, [id |-> Head1.id, result |-> result])
      /\ thread' = [thread EXCEPT !.box = Tail(@)]
      /\ UNCHANGED <<queue, waiting, broken, waiters, nextId, lane, fellBack, ledger>>
  BY DEF ThreadServes
<1>2. UNCHANGED <<submitted, pending, batch, timer, ticks, answer, meters, closing, acknowledged>>
  BY <1>1 DEF queue, lane
<1>3. PICK q : q = Head1
  OBVIOUS
<1>4. /\ thread' \in Threads /\ replies' \in Seq(Replies) /\ Numbered'
      /\ q \in Elements(thread.box) /\ Elements(thread'.box) \subseteq Elements(thread.box)
      /\ \A m \in Elements(replies') : m \in Elements(replies) \/ (m.id = q.id /\ m.result = result)
  BY <1>1, <1>3, ThreadIs
<1>5. q.id # waiting
  BY <1>1, <1>3, <1>4, LaneNow DEF Messages
<1>6. PICK l : l = ledger'
  OBVIOUS
<1>7. LedgerOK(l) /\ InLedger(ledger) \subseteq InLedger(l)
  BY <1>1, <1>6, LaneNow
<1>8. \A m \in Elements(replies') : m \in Elements(replies) \/
        (m.id = waiting => /\ m.result # "done"
                           /\ m.result = "durable" => Elements(batch) \subseteq InLedger(ledger'))
  BY <1>4, <1>5
<1>9. Closes' /\ (Retiring => Retiring')
  <2>1. ~acknowledged /\ closing.stage # "ending"
    BY <1>1, LaneNow DEF Closes
  <2>2. thread'.up = thread.up
    BY <1>1, LaneTypes DEF Threads
  <2> QED
    BY <1>1, <1>2, <2>1, <2>2, LaneNow DEF Closes, Retiring
<1> QED
  BY <1>1, <1>2, <1>4, <1>6, <1>7, <1>8, <1>9, LaneNow, LaneTypes, QuietKeeps

\* The promise of a request settles.
LEMMA ResolveKeeps ==
  ASSUME LaneInv, NEW id \in waiters, NEW result \in {"durable", "failed", "done", "error"},
         Resolve(id, result), UNCHANGED <<thread, broken, nextId, meters>>,
         \/ replies' = replies /\ result = "error"
         \/ /\ replies # << >> /\ replies' = Tail(replies)
            /\ Head(replies).id = id /\ Head(replies).result = result
  PROVE  LaneInv'
<1>1. waiters' \subseteq waiters /\ waiters' = waiters \ {id} /\ id \in 1 .. nextId - 1 /\ id # 0
      /\ nextId \in Nat \ {0}
  BY LaneTypes DEF Resolve
<1>2. thread' \in Threads /\ broken' \in BOOLEAN /\ thread'.box \in {thread.box, << >>}
      /\ (~thread'.up => thread'.box = << >>)
  BY LaneNow, LaneTypes DEF Numbered
<1>3. /\ Numbered' /\ replies' \in Seq(Replies) /\ Elements(replies') \subseteq Elements(replies)
      /\ Elements(thread'.box) \subseteq Elements(thread.box)
  BY <1>2, NumberedStays
<1>4. replies # << >> => Head(replies) \in Elements(replies)
  BY LaneTypes, HeadAndRest
<1>5. CASE id = waiting
  <2>1. waiting # 0 /\ batch # << >>
    BY <1>1, <1>5, LaneNow
  <2>2. closing.stage # "asking"
    BY <2>1, LaneNow DEF Closes
  <2>3. UNCHANGED <<lane, nextId>>
    BY <2>2 DEF Resolve, lane
  <2>4. CASE result = "error"
    <3>1. FallBack(ledger)
      BY <1>5, <2>4 DEF Resolve
    <3>2. PICK l : l = ledger
      OBVIOUS
    <3>3. FallBack(l) /\ LedgerOK(l)
      BY <3>1, <3>2, LaneNow
    <3>4. replies' = replies \/ (replies # << >> /\ replies' = Tail(replies))
      OBVIOUS
    <3> QED
      BY <1>1, <1>2, <2>1, <2>3, <3>3, <3>4, FallBackKeeps
  <2>5. CASE result # "error"
    <3>1. /\ replies # << >> /\ replies' = Tail(replies)
          /\ Head(replies).id = waiting /\ Head(replies).result = result
      BY <1>5, <2>5
    <3>2. result \in {"durable", "failed"}
      BY <1>4, <2>5, <3>1, LaneNow DEF Messages
    <3>3. Settle(batch, pending, ticks, result) /\ UNCHANGED <<fellBack, ledger>>
      BY <1>5, <2>5 DEF Resolve
    <3> QED
      BY <1>1, <2>1, <2>3, <3>1, <3>2, <3>3, AnswerKeeps
  <2> QED
    BY <2>4, <2>5
<1>6. CASE id # waiting
  <2>1. UNCHANGED <<queue, waiting, fellBack, ledger>>
    BY <1>6 DEF Resolve
  <2>2. UNCHANGED <<submitted, pending, batch, timer, ticks, answer>>
    BY <2>1 DEF queue
  <2>3. waiting # 0 => waiting \in waiters'
    BY <1>1, <1>6, LaneNow
  <2>4. PICK l : l = ledger'
    OBVIOUS
  <2>5. LedgerOK(l) /\ InLedger(ledger) \subseteq InLedger(l)
    BY <2>1, <2>4, LaneNow
  <2>6. CASE closing.stage = "asking" /\ id = closing.id
    <3>1. /\ closing' = [closing EXCEPT !.stage = IF result = "error" THEN "failed" ELSE "ending"]
          /\ acknowledged' = (acknowledged \/ result # "error")
      BY <2>6 DEF Resolve
    <3>2. /\ closing' \in [stage : Stages, id : Nat, calls : 0 .. MaxCloses]
          /\ closing'.stage = IF result = "error" THEN "failed" ELSE "ending"
      BY <3>1, LaneTypes DEF Stages
    <3>3. waiters' = {} /\ id = nextId - 1 /\ batch = << >> /\ pending = << >>
      BY <1>1, <2>6, LaneNow DEF Closes
    <3>4. result # "error" => thread.box = << >>
      <4> SUFFICES ASSUME result # "error", thread.box # << >> PROVE FALSE
        OBVIOUS
      <4>1. PICK q \in Elements(thread.box) : TRUE
        BY LaneTypes, SomethingIn
      <4>2. id < q.id /\ q.id \in 1 .. nextId - 1
        BY <1>4, LaneNow DEF Numbered
      <4> QED
        BY <1>1, <3>3, <4>2
    <3>5. Closes' /\ Retiring' /\ acknowledged' \in BOOLEAN
      <4>1. acknowledged => thread.box = << >>
        BY LaneNow DEF Closes
      <4>2. acknowledged' \in BOOLEAN /\ (acknowledged' => thread.box = << >>)
        BY <3>1, <3>4, <4>1, LaneNow
      <4>3. Retiring' /\ closing'.stage \in {"failed", "ending"}
            /\ (closing'.stage = "ending" => thread.box = << >>)
        BY <3>2, <3>4 DEF Retiring
      <4> QED
        BY <2>2, <3>3, <4>2, <4>3 DEF Closes
    <3> QED
      BY <1>1, <1>2, <1>3, <2>1, <2>2, <2>3, <2>4, <2>5, <3>2, <3>5, LaneNow, LaneTypes, QuietKeeps
  <2>7. CASE ~(closing.stage = "asking" /\ id = closing.id)
    <3>1. UNCHANGED <<closing, acknowledged>>
      BY <2>7 DEF Resolve
    <3>2. Closes' /\ (Retiring => Retiring')
      BY <1>1, <2>2, <3>1, LaneNow DEF Closes, Retiring
    <3> QED
      BY <1>1, <1>2, <1>3, <2>1, <2>2, <2>3, <2>4, <2>5, <3>1, <3>2, LaneNow, LaneTypes, QuietKeeps
  <2> QED
    BY <2>6, <2>7
<1> QED
  BY <1>5, <1>6

LEMMA ReplyKeeps ==
  ASSUME LaneInv, Reply
  PROVE  LaneInv'
<1>1. /\ replies # << >> /\ replies' = Tail(replies) /\ UNCHANGED <<thread, broken, nextId, meters>>
  BY DEF Reply
<1>2. PICK m : m = Head(replies)
  OBVIOUS
<1>3. m \in Replies /\ m.result \in {"durable", "failed", "done", "error"}
  <2>1. m \in Replies
    BY <1>1, <1>2, LaneTypes, HeadAndRest
  <2> QED
    BY <2>1 DEF Replies
<1>4. CASE m.id \in waiters
  <2>1. Resolve(m.id, m.result)
    BY <1>2, <1>4 DEF Reply, Addressee
  <2>2. PICK id \in waiters : id = m.id
    BY <1>4
  <2>3. PICK result \in {"durable", "failed", "done", "error"} : result = m.result
    BY <1>3
  <2>4. Resolve(id, result) /\ Head(replies).id = id /\ Head(replies).result = result
    BY <1>2, <2>1, <2>2, <2>3
  <2> QED
    BY <1>1, <2>4, ResolveKeeps
<1>5. CASE m.id \notin waiters
  <2>1. UNCHANGED <<waiters, queue, waiting, fellBack, ledger, closing, acknowledged>>
    BY <1>2, <1>5 DEF Reply, Addressee
  <2>2. UNCHANGED <<submitted, pending, batch, timer, ticks, answer>>
    BY <2>1 DEF queue
  <2>3. thread' \in Threads /\ thread'.box \in {thread.box, << >>} /\ (~thread'.up => thread'.box = << >>)
    BY <1>1, LaneNow, LaneTypes DEF Numbered
  <2>4. /\ Numbered' /\ replies' \in Seq(Replies) /\ Elements(replies') \subseteq Elements(replies)
    BY <1>1, <2>3, NumberedStays
  <2>5. PICK l : l = ledger'
    OBVIOUS
  <2>6. LedgerOK(l) /\ InLedger(ledger) \subseteq InLedger(l)
    BY <2>1, <2>5, LaneNow
  <2>7. Closes' /\ (Retiring => Retiring')
    BY <1>1, <2>1, <2>2, LaneNow DEF Closes, Retiring
  <2> QED
    BY <1>1, <2>1, <2>2, <2>3, <2>4, <2>5, <2>6, <2>7, LaneNow, LaneTypes, QuietKeeps
<1> QED
  BY <1>4, <1>5

LEMMA TimeoutKeeps ==
  ASSUME LaneInv, NEW id \in waiters, Timeout(id)
  PROVE  LaneInv'
<1>1. Resolve(id, "error") /\ UNCHANGED <<thread, broken, replies, nextId, meters>>
  BY DEF Timeout
<1> QED
  BY <1>1, ResolveKeeps

LEMMA ExitKeeps ==
  ASSUME LaneInv, NEW clean \in BOOLEAN, Exit(clean)
  PROVE  LaneInv'
<1>1. /\ thread.up /\ replies = << >> /\ thread' = [up |-> FALSE, box |-> << >>]
      /\ broken' = (broken \/ ~(clean \/ acknowledged)) /\ waiters' = {}
      /\ closing' = IF closing.stage = "asking" THEN [closing EXCEPT !.stage = "failed"] ELSE closing
      /\ UNCHANGED <<replies, nextId, meters, acknowledged>>
  BY DEF Exit
<1>2. PICK l \in LeftBehind :
        IF waiting # 0 THEN FallBack(l) ELSE ledger' = l /\ UNCHANGED <<queue, waiting, fellBack>>
  BY DEF Exit
<1>3. thread' \in Threads /\ thread'.box = << >> /\ ~thread'.up /\ broken' \in BOOLEAN
  <2>1. [up |-> FALSE, box |-> << >>] \in Threads
    BY EmptySeq DEF Threads
  <2> QED
    BY <1>1, <2>1
<1>4. thread.box # << >> => Head1 \in Elements(thread.box)
  BY LaneTypes, HeadAndRest DEF Head1
<1>5. LedgerOK(l) /\ InLedger(ledger) \subseteq InLedger(l)
  <2>1. CASE l = ledger
    BY <2>1, LaneNow
  <2>2. CASE l # ledger
    <3>1. PICK q \in Elements(thread.box) : q.kind = "events" /\ l = Written(ledger, q.items)
      BY <1>2, <1>4, <2>2 DEF LeftBehind
    <3> QED
      BY <3>1, SentIs
  <2> QED
    BY <2>1, <2>2
<1>6. CASE waiting # 0
  <2>1. closing.stage # "asking"
    BY <1>6, LaneNow DEF Closes
  <2>2. UNCHANGED <<lane, nextId>>
    BY <1>1, <2>1 DEF lane
  <2> QED
    BY <1>1, <1>2, <1>3, <1>5, <1>6, <2>2, FallBackKeeps
<1>7. CASE waiting = 0
  <2>1. ledger' = l /\ UNCHANGED <<queue, waiting, fellBack>>
    BY <1>2, <1>7
  <2>2. UNCHANGED <<submitted, pending, batch, timer, ticks, answer>>
    BY <2>1 DEF queue
  <2>3. ~thread'.up => thread'.box = << >>
    BY <1>3
  <2>4. Numbered' /\ replies' \in Seq(Replies) /\ Elements(replies') \subseteq Elements(replies)
        /\ Elements(thread'.box) = {}
    BY <1>1, <1>3, <2>3, NumberedStays, NothingIn
  <2>5. ~fellBack => ledger' = ledger
    <3>1. ~fellBack => \A q \in Elements(thread.box) : q.kind # "events"
      <4>1. \A q \in Elements(thread.box) : q.id # waiting
        BY <1>7, LaneNow DEF Numbered
      <4> QED
        BY <4>1, LaneNow DEF Unrepeated
    <3> QED
      BY <1>2, <1>4, <2>1, <3>1 DEF LeftBehind
  <2>6. closing' \in [stage : Stages, id : Nat, calls : 0 .. MaxCloses]
        /\ closing'.stage = IF closing.stage = "asking" THEN "failed" ELSE closing.stage
    BY <1>1, LaneTypes DEF Stages
  <2>7. Closes' /\ (Retiring => Retiring')
    BY <1>1, <1>3, <2>2, <2>6, LaneNow DEF Closes, Retiring
  <2>8. waiters' \subseteq 1 .. nextId' - 1 /\ nextId' \in Nat
    BY <1>1, LaneTypes
  <2> QED
    BY <1>1, <1>3, <1>5, <1>7, <2>1, <2>2, <2>4, <2>5, <2>6, <2>7, <2>8, LaneNow, LaneTypes, QuietKeeps
<1> QED
  BY <1>6, <1>7

-----------------------------------------------------------------------------
(* The lane: submissions and batches *)

\* submit()
LEMMA SubmitIs ==
  ASSUME LaneInv, Submit
  PROVE  /\ submitted' = submitted + 1 /\ submitted + 1 \in Records /\ submitted \in Nat
         /\ UNCHANGED <<batch, waiting, worker, lane, fellBack, ledger>>
         /\ \/ /\ Retiring /\ answer' = [answer EXCEPT ![submitted + 1] = "refused"]
               /\ UNCHANGED <<pending, timer, ticks>>
            \/ /\ ~Retiring /\ pending' = Append(pending, submitted + 1) /\ UNCHANGED answer
         /\ timer' \in BOOLEAN /\ ticks' \in Nat /\ (timer' => ticks' > 0)
<1>1. submitted < MaxRecords /\ submitted' = submitted + 1
      /\ UNCHANGED <<batch, waiting, worker, lane, fellBack, ledger>>
  BY DEF Submit
<1>2. submitted \in Nat /\ submitted + 1 \in Records
  BY <1>1, LaneTypes, RecordsAre DEF Records
<1>3. timer' \in BOOLEAN /\ ticks' \in Nat /\ (timer' => ticks' > 0)
  <2>1. UNCHANGED <<timer, ticks>> \/ (timer' = TRUE /\ ticks' = ticks + 1)
    BY DEF Submit, Arm
  <2>2. CASE UNCHANGED <<timer, ticks>>
    BY <2>2, LaneNow
  <2>3. CASE timer' = TRUE /\ ticks' = ticks + 1
    <3>1. ticks' \in Nat /\ ticks' > 0
      BY <2>3, LaneNow
    <3> QED
      BY <2>3, <3>1
  <2> QED
    BY <2>1, <2>2, <2>3
<1> QED
  BY <1>1, <1>2, <1>3 DEF Submit

LEMMA SubmitKeeps ==
  ASSUME LaneInv, Submit
  PROVE  LaneInv'
<1> DEFINE new == submitted + 1
<1>1. /\ submitted' = new /\ new \in Records /\ submitted \in Nat /\ new \in Nat /\ submitted < new
      /\ UNCHANGED <<batch, waiting, worker, lane, fellBack, ledger>>
      /\ timer' \in BOOLEAN /\ ticks' \in Nat /\ (timer' => ticks' > 0)
      /\ Records \subseteq Nat
  BY SubmitIs, RecordsAre
<1>2. \/ /\ Retiring /\ answer' = [answer EXCEPT ![new] = "refused"] /\ UNCHANGED pending
      \/ /\ ~Retiring /\ pending' = Append(pending, new) /\ UNCHANGED answer
  BY SubmitIs
<1>3. UNCHANGED <<thread, broken, waiters, replies, nextId, meters, closing, acknowledged>>
  BY <1>1 DEF worker, lane
<1> HIDE DEF new
<1>4. \A n : n <= submitted /\ n \in Nat => n <= new /\ n < new /\ n # new /\ ~(n > new)
  BY <1>1
<1>5. /\ \A r \in Elements(batch) \cup Elements(pending) : r <= submitted /\ r \in Nat
      /\ \A r \in InLedger(ledger) : r <= submitted /\ r \in Nat
      /\ \A q \in Elements(thread.box) : q.kind = "events" =>
           \A r \in Elements(q.items) : r <= submitted /\ r \in Nat
  <2>1. \A r \in InLedger(ledger) : r \in Nat
    <3>1. \A i \in DOMAIN ledger : ledger[i] \in Rows
      BY LaneTypes, Parts
    <3> QED
      BY <1>1, <3>1 DEF InLedger, Rows
  <2>2. \A q \in Elements(thread.box) : Elements(q.items) \subseteq Records
    BY LaneTypes, Parts
  <2> QED
    BY <1>1, <2>1, <2>2, LaneTypes, LaneNow DEF Queued, LedgerOK, Messages
<1>6. new > submitted /\ new \notin Elements(batch) \cup Elements(pending) /\ answer[new] = "none"
      /\ ~(new > new)
  <2>1. new > submitted /\ ~(new > new)
    BY <1>1
  <2>2. new \notin Elements(batch) \cup Elements(pending)
    BY <1>4, <1>5
  <2>3. answer[new] = "none" <=> new > submitted \/ new \in Elements(batch) \cup Elements(pending)
    BY <1>1, LaneNow DEF Queued
  <2> QED
    BY <2>1, <2>2, <2>3
<1>7. answer \in [Records -> {"none", "durable", "failed", "refused"}]
  BY DEF LaneInv, AdmissionTypeOK
<1>8. /\ \A r \in Records : r # new => answer'[r] = answer[r]
      /\ answer'[new] \in {"none", "refused"} /\ AnswersGrow
      /\ answer' \in [Records -> {"none", "durable", "failed", "refused"}]
      /\ (~Retiring => answer'[new] = "none") /\ (Retiring => answer'[new] = "refused")
  BY <1>1, <1>2, <1>6, <1>7 DEF AnswersGrow
<1>9. /\ pending' \in Seq(Records) /\ Ascending(pending')
      /\ Elements(pending') = Elements(pending) \cup (IF Retiring THEN {} ELSE {new})
      /\ ~Retiring => pending' # << >>
  <2>1. CASE Retiring
    BY <1>2, <2>1, LaneNow, LaneTypes DEF Queued
  <2>2. CASE ~Retiring
    <3>1. \A q \in Elements(pending) : q < new
      BY <1>4, <1>5
    <3>2. pending \in Seq(Records) /\ Ascending(pending)
      BY LaneNow, LaneTypes DEF Queued
    <3>3. /\ Append(pending, new) \in Seq(Records) /\ Append(pending, new) # << >>
          /\ Elements(Append(pending, new)) = Elements(pending) \cup {new}
          /\ Ascending(Append(pending, new))
      BY <1>1, <3>1, <3>2, AppendedTo
    <3> QED
      BY <1>2, <2>2, <3>3
  <2> QED
    BY <2>1, <2>2
<1>10. Retiring' <=> Retiring
  BY <1>3 DEF Retiring
<1>11. AdmissionTypeOK'
  BY <1>1, <1>3, <1>8, <1>9, RecordsAre, SMTT(30) DEF LaneInv, AdmissionTypeOK, Records
<1>12. Queued'
  <2>1. PICK b : b = batch
    OBVIOUS
  <2>2. Whole(b)'
    BY <1>8, <2>1, WholeStays, LaneNow DEF Queued
  <2>3. Whole(batch)'
    BY <1>1, <2>1, <2>2 DEF Whole, Answered, Elements, Ascending
  <2>4. Elements(batch) \cap Elements(pending') = {}
    BY <1>6, <1>9, LaneNow DEF Queued
  <2>5. \A r \in Elements(batch) \cup Elements(pending') : r <= new
    BY <1>1, <1>4, <1>5, <1>9
  <2>6. \A r \in Records :
          answer'[r] = "none" <=> r > new \/ r \in Elements(batch) \cup Elements(pending')
    <3> SUFFICES ASSUME NEW r \in Records
                 PROVE  answer'[r] = "none" <=> r > new \/ r \in Elements(batch) \cup Elements(pending')
      OBVIOUS
    <3>1. CASE r = new
      BY <1>6, <1>8, <1>9, <3>1
    <3>2. CASE r # new
      <4>1. r > submitted <=> r > new
        <5>1. r \in Nat /\ new = submitted + 1
          BY <1>1 DEF new
        <5> QED
          BY <1>1, <3>2, <5>1
      <4>2. r \in Elements(pending') <=> r \in Elements(pending)
        BY <1>9, <3>2
      <4>3. answer[r] = "none" <=> r > submitted \/ r \in Elements(batch) \cup Elements(pending)
        BY LaneNow DEF Queued
      <4> QED
        BY <1>8, <3>2, <4>1, <4>2, <4>3
    <3> QED
      BY <3>1, <3>2
  <2>7. \A r \in Records : answer'[r] = "refused" =>
          Retiring /\ \A s \in Elements(batch) \cup Elements(pending') : s < r
    <3> SUFFICES ASSUME NEW r \in Records, answer'[r] = "refused"
                 PROVE  Retiring /\ \A s \in Elements(batch) \cup Elements(pending') : s < r
      OBVIOUS
    <3>1. Retiring
      BY <1>8, LaneNow DEF Queued
    <3>2. Elements(pending') = Elements(pending)
      BY <1>9, <3>1
    <3>3. CASE r = new
      BY <1>4, <1>5, <3>1, <3>2, <3>3
    <3>4. CASE r # new
      BY <1>8, <3>1, <3>2, <3>4, LaneNow DEF Queued
    <3> QED
      BY <3>3, <3>4
  <2>8. batch' = batch /\ waiting' = waiting /\ submitted' = new /\ Elements(batch') = Elements(batch)
    BY <1>1
  <2>9. Ascending(pending)'
    BY <1>9 DEF Ascending
  <2>10. batch' = << >> <=> waiting' = 0
    BY <2>8, LaneNow DEF Queued
  <2>11. /\ Elements(batch') \cap Elements(pending') = {}
         /\ \A r \in Elements(batch') \cup Elements(pending') : r <= submitted'
         /\ \A r \in Records : answer'[r] = "none" <=>
              r > submitted' \/ r \in Elements(batch') \cup Elements(pending')
         /\ \A r \in Records : answer'[r] = "refused" =>
              Retiring' /\ \A s \in Elements(batch') \cup Elements(pending') : s < r
    BY <1>10, <2>4, <2>5, <2>6, <2>7, <2>8
  <2> QED
    BY <2>3, <2>9, <2>10, <2>11 DEF Queued, Elements
<1>13. Numbered'
  BY <1>3, LaneNow DEF Numbered, Elements, Rising
<1>14. Messages'
  <2>1. ASSUME NEW CONSTANT q \in Elements(thread.box), q.kind = "events"
        PROVE  Whole(q.items)' /\ \A r \in Elements(q.items) : r <= submitted' /\ r \notin Elements(pending')
    <3>1. PICK i : i = q.items
      OBVIOUS
    <3>2. Whole(i) /\ \A r \in Elements(q.items) : r <= submitted /\ r \notin Elements(pending)
      BY <2>1, <3>1, LaneNow DEF Messages
    <3>3. Whole(i)'
      BY <1>8, <3>2, WholeStays
    <3>4. \A r \in Elements(q.items) : r <= new /\ r # new
      BY <1>4, <1>5, <2>1
    <3> QED
      BY <1>1, <1>9, <3>1, <3>2, <3>3, <3>4
  <2>2. \A q \in Elements(thread'.box) : q.id = waiting' => q.kind = "events" /\ q.items = batch'
    BY <1>1, <1>3, LaneNow DEF Messages
  <2>3. \A m \in Elements(replies') : m.id = waiting' =>
          m.result # "done" /\ (m.result = "durable" => Elements(batch') \subseteq InLedger(ledger'))
    BY <1>1, <1>3, LaneNow DEF Messages
  <2>4. \A q \in Elements(thread'.box) : q.kind = "events" =>
          Whole(q.items)' /\ \A r \in Elements(q.items) : r <= submitted' /\ r \notin Elements(pending')
    BY <1>3, <2>1
  <2> QED
    BY <2>2, <2>3, <2>4 DEF Messages, Elements, InLedger
<1>15. LedgerOK(ledger)'
  <2>1. ledger \in Seq(Rows) /\ DurableIn(ledger) /\ OrderIn(ledger)
        /\ \A r \in InLedger(ledger) : r <= submitted /\ r \notin Elements(pending)
    BY LaneNow DEF LedgerOK
  <2>2. \A r \in InLedger(ledger) : r <= new /\ r \notin Elements(pending')
    BY <1>4, <1>5, <1>9, <2>1
  <2>3. \A r \in Records : (answer'[r] = "durable" => answer[r] = "durable")
                        /\ (answer'[r] # "failed" => answer[r] # "failed")
    BY <1>6, <1>8
  <2>4. \A r \in Records : answer'[r] = "durable" => r \in InLedger(ledger)
    BY <2>1, <2>3 DEF DurableIn
  <2>5. \A r, s \in Records : r < s /\ answer'[r] # "failed" =>
          \A i \in DOMAIN ledger : ledger[i].record = s =>
            \E j \in DOMAIN ledger : j < i /\ ledger[j].record = r
    BY <2>1, <2>3 DEF OrderIn
  <2>6. ledger' = ledger /\ submitted' = new
    BY <1>1
  <2>7. (\A r \in InLedger(ledger) : r <= submitted /\ r \notin Elements(pending))'
    BY <2>2, <2>6 DEF InLedger, Elements
  <2>8. DurableIn(ledger)' /\ OrderIn(ledger)'
    BY <2>4, <2>5, <2>6 DEF DurableIn, OrderIn, InLedger
  <2> QED
    BY <2>1, <2>6, <2>7, <2>8 DEF LedgerOK
<1>16. Unrepeated'
  BY <1>1, <1>3, LaneNow, SMTT(30) DEF Unrepeated, Singly, Elements, InLedger
<1>17. Closes'
  <2>1. CASE Retiring
    <3>1. UNCHANGED pending
      BY <1>2, <2>1
    <3> QED
      BY <1>1, <1>3, <2>1, <3>1, LaneNow DEF Closes, Retiring
  <2>2. CASE ~Retiring
    BY <1>1, <1>3, <2>2, LaneNow DEF Closes, Retiring
  <2> QED
    BY <2>1, <2>2
<1> QED
  BY <1>11, <1>12, <1>13, <1>14, <1>15, <1>16, <1>17 DEF LaneInv

\* drain() sends the batch to the thread.
LEMMA SendKeeps ==
  ASSUME LaneInv, batch = << >>, pending # << >>, NEW callbacks \in Nat,
         Post("events", SubSeq(pending, 1, BatchSize)), waiting' = nextId,
         batch' = SubSeq(pending, 1, BatchSize), pending' = Left(BatchSize),
         timer' = FALSE, ticks' = callbacks, UNCHANGED <<submitted, answer, lane, fellBack, ledger>>
  PROVE  LaneInv'
<1>1. PICK items : items = SubSeq(pending, 1, BatchSize)
  OBVIOUS
<1>2. PICK left : left = Left(BatchSize)
  OBVIOUS
<1>3. /\ Whole(items) /\ items # << >> /\ Len(items) <= MaxBatch /\ items \in Seq(Records)
      /\ left \in Seq(Records) /\ Ascending(left)
      /\ Elements(pending) = Elements(items) \cup Elements(left)
      /\ Elements(items) \cap Elements(left) = {}
  BY <1>1, <1>2, BatchIs
<1>4. PICK q : q = Request("events", items)
  OBVIOUS
<1>5. /\ thread' \in Threads /\ thread'.up /\ q.id = nextId /\ q.kind = "events" /\ q.items = items
      /\ Elements(thread'.box) = Elements(thread.box) \cup {q}
      /\ waiters' = waiters \cup {nextId} /\ waiters' \subseteq 1 .. nextId' - 1
      /\ nextId' = nextId + 1 /\ nextId' \in Nat /\ UNCHANGED <<broken, replies>> /\ Numbered'
  BY <1>1, <1>3, <1>4, PostIs
<1>6. batch' = items /\ pending' = left
  BY <1>1, <1>2
<1>7. UNCHANGED <<meters, closing, acknowledged>>
  BY DEF lane
<1>8. closing.stage \in {"open", "flushing"} /\ ~acknowledged
  BY LaneNow DEF Closes
<1>9. waiting = 0 /\ Elements(batch) = {} /\ nextId \in Nat \ {0}
  BY LaneNow, LaneTypes, NothingIn DEF Queued
<1>10. /\ \A r \in Elements(thread.box) : r.id # nextId /\ r.id # waiting
       /\ \A m \in Elements(replies) : m.id # nextId
  BY <1>9, LaneNow DEF Numbered
<1>11. AnswersGrow
  BY DEF AnswersGrow
<1>12. AdmissionTypeOK'
  <2>1. /\ submitted' \in 0 .. MaxRecords /\ answer' \in [Records -> {"none", "durable", "failed", "refused"}]
        /\ meters' \in 0 .. MaxMeters /\ acknowledged' \in BOOLEAN /\ fellBack' \in BOOLEAN
        /\ closing' \in [stage : Stages, id : Nat, calls : 0 .. MaxCloses] /\ broken' \in BOOLEAN
    BY <1>5, <1>7 DEF LaneInv, AdmissionTypeOK
  <2>2. /\ pending' \in Seq(Records) /\ batch' \in Seq(Records) /\ Len(batch') <= MaxBatch
        /\ waiting' \in Nat /\ waiting' \in waiters' /\ batch' # << >>
        /\ replies' \in Seq(Replies) /\ ledger' \in Seq(Rows)
    BY <1>3, <1>5, <1>6, LaneTypes
  <2>3. timer' \in BOOLEAN /\ ticks' \in Nat /\ ~timer'
    OBVIOUS
  <2> QED
    BY <1>5, <2>1, <2>2, <2>3 DEF AdmissionTypeOK, Threads, Replies, Rows
<1>13. Queued'
  <2>1. Whole(items)'
    BY <1>3, <1>11, WholeStays
  <2>2. Whole(batch)'
    BY <1>6, <2>1 DEF Whole, Answered, Elements, Ascending
  <2>3. waiting' # 0 /\ batch' # << >>
    BY <1>3, <1>6, <1>9
  <2>4. Retiring' <=> Retiring
    BY <1>7 DEF Retiring
  <2>5. Elements(items) \cup Elements(left) = Elements(batch) \cup Elements(pending)
    BY <1>3, <1>9
  <2>6. /\ \A r \in Elements(items) \cup Elements(left) : r <= submitted
        /\ \A r \in Records :
             answer[r] = "none" <=> r > submitted \/ r \in Elements(items) \cup Elements(left)
        /\ \A r \in Records : answer[r] = "refused" =>
             Retiring /\ \A s \in Elements(items) \cup Elements(left) : s < r
    BY <2>5, LaneNow DEF Queued
  <2>7. /\ Elements(batch') = Elements(items) /\ Elements(pending') = Elements(left)
        /\ UNCHANGED <<submitted, answer>>
    BY <1>6
  <2>8. Ascending(pending)'
    BY <1>3, <1>6 DEF Ascending
  <2>9. /\ Elements(batch') \cap Elements(pending') = {}
        /\ \A r \in Elements(batch') \cup Elements(pending') : r <= submitted'
        /\ \A r \in Records : answer'[r] = "none" <=>
             r > submitted' \/ r \in Elements(batch') \cup Elements(pending')
        /\ \A r \in Records : answer'[r] = "refused" =>
             Retiring' /\ \A s \in Elements(batch') \cup Elements(pending') : s < r
    BY <1>3, <2>4, <2>6, <2>7
  <2> QED
    BY <2>2, <2>3, <2>8, <2>9 DEF Queued, Elements
<1>14. Messages'
  <2>1. ASSUME NEW CONSTANT r \in Elements(thread'.box), r.kind = "events"
        PROVE  Whole(r.items)' /\ \A s \in Elements(r.items) : s <= submitted' /\ s \notin Elements(pending')
    <3>1. PICK i : i = r.items
      OBVIOUS
    <3>2. Whole(i) /\ \A s \in Elements(i) : s <= submitted /\ s \notin Elements(left)
      <4>1. CASE r = q
        <5>1. \A s \in Elements(items) : s <= submitted /\ s \notin Elements(left)
          BY <1>3, LaneNow DEF Queued
        <5> QED
          BY <1>3, <1>5, <3>1, <4>1, <5>1
      <4>2. CASE r \in Elements(thread.box)
        BY <1>3, <2>1, <3>1, <4>2, LaneNow DEF Messages
      <4> QED
        BY <1>5, <4>1, <4>2
    <3>3. Whole(i)'
      BY <1>11, <3>2, WholeStays
    <3> QED
      BY <1>6, <3>1, <3>2, <3>3
  <2>2. \A r \in Elements(thread'.box) : r.id = waiting' => r.kind = "events" /\ r.items = batch'
    BY <1>5, <1>6, <1>10
  <2>3. \A m \in Elements(replies') : m.id # waiting'
    BY <1>5, <1>10
  <2> QED
    BY <2>1, <2>2, <2>3 DEF Messages, Elements, InLedger
<1>15. LedgerOK(ledger)'
  <2>1. (\A r \in InLedger(ledger) : r <= submitted /\ r \notin Elements(pending))'
    BY <1>3, <1>6, LaneNow DEF LedgerOK, InLedger, Elements
  <2>2. DurableIn(ledger)' /\ OrderIn(ledger)' /\ ledger' \in Seq(Rows)
    BY LaneNow DEF LedgerOK, DurableIn, OrderIn, InLedger
  <2> QED
    BY <2>1, <2>2 DEF LedgerOK
<1>16. Unrepeated'
  <2>1. ~fellBack' => ~fellBack
    OBVIOUS
  <2>2. ~fellBack' => Singly(ledger)'
    BY <2>1, LaneNow DEF Unrepeated, Singly
  <2>3. ~fellBack' => \A r \in Elements(thread'.box) : r.kind = "events" => r.id = waiting'
    BY <1>5, <1>10, <2>1, LaneNow DEF Unrepeated
  <2>4. Elements(batch') \cap InLedger(ledger') = {}
    BY <1>3, <1>6, LaneNow DEF LedgerOK
  <2> QED
    BY <2>2, <2>3, <2>4 DEF Unrepeated, Elements, InLedger
<1>17. Closes'
  BY <1>7, <1>8 DEF Closes
<1> QED
  BY <1>12, <1>13, <1>5, <1>14, <1>15, <1>16, <1>17 DEF LaneInv

\* drain()
LEMMA DrainKeeps ==
  ASSUME LaneInv, batch = << >>, pending # << >>, NEW callbacks \in Nat, StartBatch(callbacks)
  PROVE  LaneInv'
<1>1. CASE UseWorker /\ ~broken
  <2>1. CASE /\ Post("events", SubSeq(pending, 1, BatchSize))
             /\ waiting' = nextId /\ batch' = SubSeq(pending, 1, BatchSize) /\ pending' = Left(BatchSize)
             /\ timer' = FALSE /\ ticks' = callbacks
             /\ UNCHANGED <<submitted, answer, lane, fellBack, ledger>>
    BY <2>1, SendKeeps
  <2>2. CASE /\ NoThread /\ fellBack' = TRUE
             /\ AdmitHere(ledger, SubSeq(pending, 1, BatchSize), Left(BatchSize), callbacks)
             /\ UNCHANGED lane
    <3>1. broken' \in BOOLEAN /\ UNCHANGED <<lane, thread, waiters, replies, nextId>>
      BY <2>2 DEF NoThread
    <3> QED
      BY <2>2, <3>1, HereKeeps
  <2> QED
    BY <1>1, <2>1, <2>2 DEF StartBatch
<1>2. CASE ~(UseWorker /\ ~broken)
  <2>1. /\ AdmitHere(ledger, SubSeq(pending, 1, BatchSize), Left(BatchSize), callbacks)
        /\ UNCHANGED <<worker, lane, fellBack>>
    BY <1>2 DEF StartBatch
  <2>2. broken' \in BOOLEAN /\ UNCHANGED <<lane, thread, waiters, replies, nextId>> /\ fellBack' = fellBack
    BY <2>1, LaneNow DEF worker
  <2> QED
    BY <2>1, <2>2, HereKeeps
<1> QED
  BY <1>1, <1>2

-----------------------------------------------------------------------------
(* The lane: theorems *)

LEMMA LaneStep == LaneInv /\ [AdmissionNext]_admissionVars => LaneInv'
<1> SUFFICES ASSUME LaneInv, [AdmissionNext]_admissionVars PROVE LaneInv'
  OBVIOUS
<1>1. CASE Submit
  BY <1>1, SubmitKeeps
<1>2. CASE Tick
  <2>1. CASE batch = << >> /\ pending # << >>
    <3>1. StartBatch(ticks - 1) /\ ticks - 1 \in Nat
      BY <1>2, <2>1, LaneNow DEF Tick
    <3> QED
      BY <2>1, <3>1, DrainKeeps
  <2>2. CASE ~(batch = << >> /\ pending # << >>)
    BY <1>2, <2>2, IdleTick
  <2> QED
    BY <2>1, <2>2
<1>3. CASE FlushDrain
  BY <1>3, DrainKeeps, LaneNow DEF FlushDrain
<1>4. CASE Reply
  BY <1>4, ReplyKeeps
<1>5. CASE Meter
  BY <1>5, MeterKeeps
<1>6. CASE Close
  BY <1>6, CloseKeeps
<1>7. CASE AskToClose
  BY <1>7, AskKeeps
<1>8. ASSUME NEW b \in BOOLEAN, Exit(b) \/ Terminate(b) PROVE LaneInv'
  BY <1>8, ExitKeeps, TerminateKeeps
<1>9. ASSUME NEW result \in {"durable", "failed", "error"}, ThreadAdmits(result) PROVE LaneInv'
  BY <1>9, ThreadAdmitsKeeps
<1>10. ASSUME NEW result \in {"done", "error"}, ThreadServes(result) PROVE LaneInv'
  BY <1>10, ThreadServesKeeps
<1>11. ASSUME NEW id \in waiters, Timeout(id) PROVE LaneInv'
  BY <1>11, TimeoutKeeps
<1>12. CASE UNCHANGED admissionVars
  <2>1. UNCHANGED <<submitted, pending, batch, waiting, timer, ticks, answer, thread, broken, waiters,
                    replies, nextId, meters, closing, acknowledged, fellBack, ledger>>
    BY <1>12 DEF admissionVars
  <2>2. UNCHANGED worker /\ Closes' /\ (Retiring => Retiring')
    BY <2>1, LaneNow DEF worker, Closes, Retiring
  <2> QED
    BY <2>1, <2>2, LaneNow, LaneTypes, StillKeeps
<1> QED
  BY <1>1, <1>2, <1>3, <1>4, <1>5, <1>6, <1>7, <1>8, <1>9, <1>10, <1>11, <1>12 DEF AdmissionNext

LEMMA LaneStart == AdmissionInit => LaneInv
<1> SUFFICES ASSUME AdmissionInit PROVE LaneInv
  OBVIOUS
<1>1. << >> \in Seq(Records) /\ << >> \in Seq(Rows) /\ << >> \in Seq(Requests) /\ << >> \in Seq(Replies)
      /\ Len(<< >>) = 0
  BY EmptySeq
<1>2. MaxRecords \in Nat /\ MaxBatch \in Nat \ {0} /\ MaxMeters \in Nat /\ MaxCloses \in Nat
  BY AdmissionConstants
<1>3. AdmissionTypeOK
  <2>1. /\ submitted \in 0 .. MaxRecords /\ pending \in Seq(Records) /\ batch \in Seq(Records)
        /\ Len(batch) <= MaxBatch /\ waiting \in Nat /\ waiting = 0
    BY <1>1, <1>2 DEF AdmissionInit
  <2>2. timer \in BOOLEAN /\ ~timer /\ ticks \in Nat /\ broken \in BOOLEAN /\ acknowledged \in BOOLEAN
        /\ fellBack \in BOOLEAN
    BY DEF AdmissionInit
  <2>3. answer \in [Records -> {"none", "durable", "failed", "refused"}]
    BY DEF AdmissionInit
  <2>4. thread \in Threads
    BY <1>1 DEF AdmissionInit, Threads
  <2>5. /\ waiters \subseteq 1 .. nextId - 1 /\ nextId \in Nat
        /\ replies \in Seq(Replies) /\ ledger \in Seq(Rows)
    BY <1>1 DEF AdmissionInit
  <2>6. meters \in 0 .. MaxMeters /\ closing \in [stage : Stages, id : Nat, calls : 0 .. MaxCloses]
    BY <1>2 DEF AdmissionInit, Stages
  <2> QED
    BY <2>1, <2>2, <2>3, <2>4, <2>5, <2>6 DEF AdmissionTypeOK, Threads, Rows, Replies
<1>4. Queued
  <2>1. \A r \in Records : r > submitted
    BY RecordsAre DEF AdmissionInit
  <2> QED
    BY <1>1, <2>1, NothingIn DEF AdmissionInit, Queued, Whole
<1>5. Numbered /\ Messages
  BY <1>1, NothingIn DEF AdmissionInit, Numbered, Messages
<1>6. InLedger(ledger) = {} /\ LedgerOK(ledger) /\ Singly(ledger)
  BY <1>1 DEF AdmissionInit, LedgerOK, DurableIn, OrderIn, InLedger, Singly
<1>7. Unrepeated /\ Closes
  BY <1>6, NothingIn DEF AdmissionInit, Unrepeated, Closes
<1> QED
  BY <1>3, <1>4, <1>5, <1>6, <1>7 DEF LaneInv

LEMMA LaneMeans == LaneInv => LedgerKept
<1> SUFFICES ASSUME LaneInv PROVE LedgerKept
  OBVIOUS
<1>1. DurableIn(ledger) /\ OrderIn(ledger) /\ ledger \in Seq(Rows)
  BY LaneNow DEF LedgerOK
<1>2. AnsweredIsWritten
  BY <1>1 DEF DurableIn, InLedger, AnsweredIsWritten, EventsOf
<1>3. WrittenInOrder
  BY <1>1 DEF OrderIn, WrittenInOrder, EventsOf
<1>4. TwiceIsTraced
  <2> SUFFICES ASSUME ~fellBack, NEW r \in Records PROVE Cardinality(EventsOf(r)) <= 1
    BY DEF TwiceIsTraced
  <2>1. \A i, j \in EventsOf(r) : i = j
    BY LaneNow DEF Unrepeated, Singly, EventsOf
  <2>2. CASE EventsOf(r) = {}
    BY <2>2, FS_EmptySet
  <2>3. CASE EventsOf(r) # {}
    <3>1. PICK i \in EventsOf(r) : TRUE
      BY <2>3
    <3>2. EventsOf(r) = {i}
      BY <2>1, <3>1
    <3>3. Cardinality({i}) = 1
      BY FS_Singleton
    <3> QED
      BY <3>2, <3>3
  <2> QED
    BY <2>2, <2>3
<1>5. NothingCutOff
  BY LaneNow DEF Closes, NothingCutOff
<1>6. ClosedIsQuiet
  <2> SUFFICES ASSUME closing.stage = "closed"
               PROVE  /\ ~thread.up /\ waiters = {} /\ batch = << >> /\ pending = << >>
                      /\ \A r \in 1 .. submitted : answer[r] # "none"
    BY DEF ClosedIsQuiet
  <2>1. ~thread.up /\ waiters = {} /\ batch = << >> /\ pending = << >>
    BY LaneNow DEF Closes
  <2>2. ASSUME NEW r \in 1 .. submitted PROVE answer[r] # "none"
    <3>1. r \in Records /\ ~(r > submitted)
      BY LaneTypes, RecordsAre DEF LaneInv, AdmissionTypeOK, Records
    <3> QED
      BY <2>1, <3>1, LaneNow, NothingIn DEF Queued
  <2> QED
    BY <2>1, <2>2
<1> QED
  BY <1>2, <1>3, <1>4, <1>5, <1>6 DEF LedgerKept

\* submit(), drain(), the thread and close(): the types of the lane's state, and
\* everything that makes LedgerKept hold.
THEOREM LaneInvariant == AdmissionSpec => []LaneInv
BY LaneStart, LaneStep, PTL DEF AdmissionSpec

\* The types of the lane's state, with every waiter a request that was sent.
THEOREM AdmissionTypes == AdmissionSpec => []AdmissionTypeOK
<1>1. LaneInv => AdmissionTypeOK
  BY DEF LaneInv
<1> QED
  BY <1>1, LaneInvariant, PTL

\* submit(), admitOnWorker() and retireWhenIdle(): through timeouts, late answers
\* and deaths of the thread, what was answered is written, in order, twice only
\* where a fallback was recorded, and close() cuts nothing off.
THEOREM KeepsLedger == AdmissionSpec => []LedgerKept
BY LaneMeans, LaneInvariant, PTL

\* Both halves of the audit, whichever of them moves.
THEOREM Typing == Spec => []TypeOK
<1>1. Init => LaneInv /\ LedgerInv
  BY LaneStart, InvInit DEF Init
<1>2. ASSUME LaneInv, LedgerInv, [Next]_<<component, admissionVars, ledgerVars>>
      PROVE  LaneInv' /\ LedgerInv'
  <2>1. [AdmissionNext]_admissionVars /\ [LedgerNext]_ledgerVars
    BY <1>2 DEF Next
  <2> QED
    BY <1>2, <2>1, LaneStep, InvStep
<1>3. LaneInv /\ LedgerInv => TypeOK
  BY DEF LaneInv, LedgerInv, TypeOK
<1> QED
  BY <1>1, <1>2, <1>3, PTL DEF Spec

-----------------------------------------------------------------------------
(* The lane: nobody is forgotten *)

\* What is queued has a timer, a batch before it or a flush; close() waits for a
\* request that is open.
Awoken ==
  /\ pending # << >> => batch # << >> \/ ticks > 0 \/ closing.stage = "flushing"
  /\ closing.stage = "asking" => closing.id \in waiters

\* Every record without an answer is in the batch, whose request has a deadline,
\* or queued behind the batch, before a timer callback or for the flush of close();
\* and what close() waits for has a deadline too.
NobodyForgotten ==
  /\ \A r \in 1 .. submitted : answer[r] = "none" =>
       \/ r \in Elements(batch) /\ waiting \in Timed
       \/ r \in Elements(pending) /\ (waiting \in Timed \/ ticks > 0 \/ closing.stage = "flushing")
  /\ closing.stage = "asking" => closing.id \in Timed

\* A batch that is begun is in flight, or what is left has a timer.
LEMMA BegunAwakes ==
  ASSUME LaneInv, NEW callbacks \in Nat, batch = << >>, pending # << >>, StartBatch(callbacks)
  PROVE  /\ batch' # << >> \/ pending' = << >> \/ ticks' > 0
         /\ closing' = closing /\ waiters \subseteq waiters'
<1>1. closing' = closing
  BY DEF StartBatch, lane
<1>2. waiters \subseteq waiters'
  BY DEF StartBatch, Post, NoThread, worker
<1>3. CASE batch' = SubSeq(pending, 1, BatchSize)
  BY <1>1, <1>2, <1>3, BatchIs
<1>4. ASSUME NEW items, AdmitHere(ledger, items, Left(BatchSize), callbacks)
      PROVE  pending' = << >> \/ ticks' > 0
  <2>1. /\ pending' = Left(BatchSize)
        /\ ticks' = callbacks + (IF Left(BatchSize) # << >> THEN 1 ELSE 0)
    BY <1>4 DEF AdmitHere, Settle, NextBatch
  <2> QED
    BY <2>1
<1>5. \/ batch' = SubSeq(pending, 1, BatchSize)
      \/ AdmitHere(ledger, SubSeq(pending, 1, BatchSize), Left(BatchSize), callbacks)
  BY DEF StartBatch
<1> QED
  BY <1>1, <1>2, <1>3, <1>4, <1>5

\* An answered batch arms the timer for what came meanwhile.
LEMMA SettledAwakes ==
  ASSUME LaneInv, NEW items, NEW status, Settle(items, pending, ticks, status)
  PROVE  pending' = << >> \/ ticks' > 0
<1>1. /\ pending' = pending /\ ticks' = ticks + (IF pending # << >> THEN 1 ELSE 0) /\ ticks \in Nat
  BY LaneTypes DEF Settle, NextBatch
<1> QED
  BY <1>1

LEMMA ResolveAwakes ==
  ASSUME LaneInv, Awoken, NEW id \in waiters, NEW result, Resolve(id, result)
  PROVE  Awoken'
<1>1. \/ pending' = << >> \/ ticks' > 0
      \/ UNCHANGED <<pending, batch, ticks>>
  <2>1. CASE id = waiting
    <3>1. \E status : Settle(batch, pending, ticks, status)
      BY <2>1 DEF Resolve, FallBack, AdmitHere
    <3> QED
      BY <3>1, SettledAwakes
  <2>2. CASE id # waiting
    BY <2>2 DEF Resolve, queue
  <2> QED
    BY <2>1, <2>2
<1>2. waiters' = waiters \ {id}
  BY DEF Resolve
<1>3. CASE closing.stage = "asking" /\ id = closing.id
  <2>1. closing' = [closing EXCEPT !.stage = IF result = "error" THEN "failed" ELSE "ending"]
    BY <1>3 DEF Resolve
  <2>2. closing'.stage \in {"failed", "ending"}
    BY <2>1, LaneTypes DEF LaneInv, AdmissionTypeOK
  <2>3. pending = << >>
    BY <1>3 DEF LaneInv, Closes
  <2> QED
    BY <1>1, <2>2, <2>3 DEF Awoken
<1>4. CASE ~(closing.stage = "asking" /\ id = closing.id)
  <2>1. closing' = closing
    BY <1>4 DEF Resolve
  <2> QED
    BY <1>1, <1>2, <1>4, <2>1 DEF Awoken
<1> QED
  BY <1>3, <1>4

LEMMA ExitAwakes ==
  ASSUME LaneInv, Awoken, NEW clean \in BOOLEAN, Exit(clean)
  PROVE  Awoken'
<1>1. \/ pending' = << >> \/ ticks' > 0
      \/ UNCHANGED <<pending, batch, ticks>>
  <2>1. CASE waiting # 0
    <3>1. \E status : Settle(batch, pending, ticks, status)
      BY <2>1 DEF Exit, FallBack, AdmitHere
    <3> QED
      BY <3>1, SettledAwakes
  <2>2. CASE waiting = 0
    BY <2>2 DEF Exit, queue
  <2> QED
    BY <2>1, <2>2
<1>2. CASE closing.stage = "asking"
  <2>1. closing' = [closing EXCEPT !.stage = "failed"]
    BY <1>2 DEF Exit
  <2>2. closing'.stage = "failed"
    BY <2>1 DEF LaneInv, AdmissionTypeOK
  <2>3. pending = << >>
    BY <1>2 DEF LaneInv, Closes
  <2> QED
    BY <1>1, <2>2, <2>3 DEF Awoken
<1>3. CASE closing.stage # "asking"
  <2>1. closing' = closing
    BY <1>3 DEF Exit
  <2> QED
    BY <1>1, <1>3, <2>1 DEF Awoken
<1> QED
  BY <1>2, <1>3

LEMMA AwokenStep ==
  ASSUME LaneInv, Awoken, [AdmissionNext]_admissionVars
  PROVE  Awoken'
<1>0. /\ ticks \in Nat /\ (timer => ticks > 0)
      /\ closing \in [stage : Stages, id : Nat, calls : 0 .. MaxCloses]
  BY DEF LaneInv, AdmissionTypeOK
<1>1. CASE Submit
  <2>1. UNCHANGED <<batch, closing, waiters>>
    BY <1>1 DEF Submit, worker, lane
  <2>2. CASE Retiring
    BY <1>1, <2>1, <2>2 DEF Submit, Awoken
  <2>3. CASE ~Retiring /\ batch = << >>
    <3>1. Arm
      BY <1>1, <2>3 DEF Submit
    <3>2. ticks' > 0
      BY <1>0, <3>1 DEF Arm
    <3> QED
      BY <2>1, <3>2 DEF Awoken
  <2>4. CASE batch # << >>
    BY <2>1, <2>4 DEF Awoken
  <2> QED
    BY <2>2, <2>3, <2>4
<1>2. CASE Tick
  <2>1. CASE batch = << >> /\ pending # << >>
    <3>1. StartBatch(ticks - 1) /\ ticks - 1 \in Nat
      BY <1>0, <1>2, <2>1 DEF Tick
    <3> QED
      BY <2>1, <3>1, BegunAwakes DEF Awoken
  <2>2. CASE ~(batch = << >> /\ pending # << >>)
    <3>1. UNCHANGED <<pending, batch, closing, waiters>>
      BY <1>2, <2>2 DEF Tick, worker, lane
    <3> QED
      BY <2>2, <3>1 DEF Awoken
  <2> QED
    BY <2>1, <2>2
<1>3. CASE FlushDrain
  <2>1. batch = << >> /\ pending # << >> /\ StartBatch(ticks)
    BY <1>3 DEF FlushDrain
  <2> QED
    BY <1>0, <2>1, BegunAwakes DEF Awoken
<1>4. CASE Reply
  <2>1. CASE Addressee(Head(replies)) \in waiters
    BY <1>4, <2>1, ResolveAwakes DEF Reply
  <2>2. CASE Addressee(Head(replies)) \notin waiters
    <3>1. UNCHANGED <<pending, batch, ticks, closing, waiters>>
      BY <1>4, <2>2 DEF Reply, queue
    <3> QED
      BY <3>1 DEF Awoken
  <2> QED
    BY <2>1, <2>2
<1>5. CASE Meter
  <2>1. UNCHANGED <<pending, batch, ticks, closing>> /\ waiters \subseteq waiters'
    BY <1>5 DEF Meter, Post, NoThread, queue
  <2> QED
    BY <2>1 DEF Awoken
<1>6. CASE Close
  <2>1. closing'.stage = "flushing"
    BY <1>6 DEF Close
  <2> QED
    BY <2>1 DEF Awoken
<1>7. CASE AskToClose
  <2>1. UNCHANGED <<pending, batch, ticks>> /\ pending = << >>
    BY <1>7 DEF AskToClose, Flushed, queue
  <2>2. closing'.stage = "asking" => closing'.id \in waiters'
    <3>1. CASE /\ Post("close", << >>)
               /\ closing' = [closing EXCEPT !.stage = "asking", !.id = nextId]
      <4>1. closing'.id = nextId /\ waiters' = waiters \cup {nextId}
        BY <1>0, <3>1 DEF Post
      <4> QED
        BY <4>1
    <3>2. CASE \E stage \in {"failed", "ending", "closed"} : closing' = [closing EXCEPT !.stage = stage]
      <4>1. PICK stage \in {"failed", "ending", "closed"} : closing' = [closing EXCEPT !.stage = stage]
        BY <3>2
      <4>2. closing'.stage = stage
        BY <1>0, <4>1
      <4> QED
        BY <4>2
    <3> QED
      BY <1>7, <3>1, <3>2 DEF AskToClose
  <2> QED
    BY <2>1, <2>2 DEF Awoken
<1>8. CASE \E b \in BOOLEAN : Exit(b)
  BY <1>8, ExitAwakes
<1>9. CASE \E b \in BOOLEAN : Terminate(b)
  <2>1. PICK b \in BOOLEAN : Terminate(b)
    BY <1>9
  <2>2. /\ UNCHANGED <<pending, batch, ticks>> /\ closing.stage = "ending"
        /\ closing' = [closing EXCEPT !.stage = IF b THEN "closed" ELSE "failed"]
    BY <2>1 DEF Terminate, queue
  <2>3. closing'.stage # "asking"
    BY <1>0, <2>2
  <2>4. pending = << >>
    BY <2>2 DEF LaneInv, Closes
  <2> QED
    BY <2>2, <2>3, <2>4 DEF Awoken
<1>10. CASE \/ \E result \in {"durable", "failed", "error"} : ThreadAdmits(result)
            \/ \E result \in {"done", "error"} : ThreadServes(result)
  <2>1. UNCHANGED <<pending, batch, ticks, closing, waiters>>
    BY <1>10 DEF ThreadAdmits, ThreadServes, queue, lane
  <2> QED
    BY <2>1 DEF Awoken
<1>11. CASE \E id \in waiters : Timeout(id)
  BY <1>11, ResolveAwakes DEF Timeout
<1>12. CASE UNCHANGED admissionVars
  <2>1. UNCHANGED <<pending, batch, ticks, closing, waiters>>
    BY <1>12 DEF admissionVars
  <2> QED
    BY <2>1 DEF Awoken
<1> QED
  BY <1>1, <1>2, <1>3, <1>4, <1>5, <1>6, <1>7, <1>8, <1>9, <1>10, <1>11, <1>12 DEF AdmissionNext

\* submit(), drain() and close(): no caller waits for nothing.  A record without an
\* answer is in a batch whose request has a deadline, or queued where a settled
\* batch, a timer callback or the flush of close() will find it, although a timer
\* callback that finds a batch in flight arms no other, a thread that dies answers
\* nobody, and a late answer settles nothing.
THEOREM ForgetsNobody == AdmissionSpec => []NobodyForgotten
<1>1. AdmissionInit => Awoken
  BY DEF AdmissionInit, Awoken
<1>2. LaneInv /\ Awoken => NobodyForgotten
  <2> SUFFICES ASSUME LaneInv, Awoken PROVE NobodyForgotten
    OBVIOUS
  <2>1. batch # << >> => waiting \in Timed
    BY DEF LaneInv, Queued, AdmissionTypeOK, Timed
  <2>2. ASSUME NEW r \in 1 .. submitted, answer[r] = "none"
        PROVE  r \in Elements(batch) \cup Elements(pending)
    <3>1. submitted \in 0 .. MaxRecords /\ MaxRecords \in Nat
      BY RecordsAre DEF LaneInv, AdmissionTypeOK
    <3>2. r \in Records /\ ~(r > submitted)
      BY <2>2, <3>1 DEF Records
    <3> QED
      BY <2>2, <3>2 DEF LaneInv, Queued
  <2>3. \A r \in Elements(batch) : batch # << >>
    BY DEF Elements
  <2>4. \A r \in Elements(pending) : pending # << >>
    BY DEF Elements
  <2> QED
    BY <2>1, <2>2, <2>3, <2>4 DEF NobodyForgotten, Awoken, Timed
<1> QED
  BY <1>1, <1>2, AwokenStep, LaneInvariant, PTL DEF AdmissionSpec
=============================================================================
