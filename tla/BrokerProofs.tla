----------------------------- MODULE BrokerProofs -----------------------------
(***************************************************************************)
(* Proofs about Broker, for any messages, agents, brokers, processes,      *)
(* rosters and retentions, and any number of restarts and failures.        *)
(*                                                                         *)
(* The invariant speaks of the logs of the state file as sets of rows      *)
(* (Valid), none of which is there twice (Distinct).  What makes           *)
(* StoredStateValid and OwnClaimKept inductive is that no message in the   *)
(* spool has a receipt, that what a drain remembers of an entry is true of *)
(* the entry as long as there is one (Remembers), and that a broker in the *)
(* middle of a drain has an entry to go on with.                           *)
(***************************************************************************)
EXTENDS Broker, SubsequenceTheorems, FiniteSetTheorems, SequenceTheorems, TLAPS

Receipts == [id : Ids, confirmed : BOOLEAN]
Deferrals == [sequence : Sequences, id : Ids, waiting : BOOLEAN]
Snapshots == [sequence : Sequences, id : Ids, uncertain : BOOLEAN]

\* No row is in the log twice.
Distinct(log) == \A i, j \in DOMAIN log : log[i] = log[j] => i = j

\* No two rows share an id or a sequence.
Apart(A, B) == \A x \in A, y \in B : x.id # y.id /\ x.sequence # y.sequence
Alone(A) == \A x, y \in A : x.id = y.id \/ x.sequence = y.sequence => x = y

\* The rows of the spool, of the dead letters, of the deferred hand-offs and of
\* the receipts, with the next sequence n.
Valid(S, L, D, R, n) ==
  /\ Alone(S) /\ Alone(L) /\ Alone(D)
  /\ Apart(S, L) /\ Apart(D, S) /\ Apart(D, L)
  /\ \A r, q \in R : r.id = q.id => r = q
  /\ \A r \in R : /\ \A x \in S \cup L : r.id # x.id
                  /\ r.confirmed => \A d \in D : r.id # d.id
  /\ \A x \in S \cup L \cup D : x.sequence < n
  /\ \A x \in S \cup L : ~(x.uncertain /\ x.claim # NoClaim)

FileTypes ==
  /\ spool \in Seq(Entries)
  /\ deliveries \in Seq(Receipts) /\ Len(deliveries) <= DeliveryRetention
  /\ deadLetters \in Seq(Entries) /\ Len(deadLetters) <= DeadLetterRetention
  /\ deferred \subseteq Deferrals
  /\ nextSequence \in 1..(MaxSequence + 1)
  /\ wakeCooldowns \subseteq Recipients

BrokerTypes ==
  /\ pc \in [Brokers -> {"closed", "idle", "listing", "draining", "waking", "awake", "sending"}]
  /\ at \in [Brokers -> Procs]
  /\ directory \in [Brokers -> SUBSET Recipients]
  /\ scope \in [Brokers -> Recipients \cup {Nobody}]
  /\ entries \in [Brokers -> Seq(Snapshots)]
  /\ blocked \in [Brokers -> SUBSET Recipients]

WorldTypes ==
  /\ generation \in [Procs -> 0..MaxIncidents]
  /\ incidents \in 0..MaxIncidents
  /\ air \subseteq Sequences /\ landed \subseteq Sequences
  /\ sent \subseteq Ids

FileOK ==
  /\ FileTypes
  /\ Distinct(spool) /\ Distinct(deadLetters) /\ Distinct(deliveries)
  /\ Valid(Range(spool), Range(deadLetters), deferred, Range(deliveries), nextSequence)

\* A broker in the middle of a drain has an entry to go on with.
Busy == {"draining", "waking", "awake", "sending"}
Drains == \A b \in Brokers : pc[b] \in Busy => entries[b] # <<>>

\* Every entry was sent, and so was what a drain remembers, which is true of
\* the entry if it is still there.
Remembers(b) ==
  \A x \in Range(entries[b]) :
    x.id \in sent /\ \A e \in Range(spool) : e.id = x.id => e.sequence = x.sequence
SentOnce ==
  /\ \A e \in Range(spool) : e.id \in sent
  /\ \A b \in Brokers : Remembers(b)

\* The entry at which b is sending.
Owned(b, e) == e.id = Head(entries[b]).id /\ e.claim = ClaimOf(b)
OwnedOne(b) == pc[b] = "sending" => \E e \in Range(spool) : Owned(b, e)

Restarts == \A p \in Procs : generation[p] <= incidents

BrokerInv ==
  /\ FileOK /\ BrokerTypes /\ WorldTypes
  /\ Drains /\ SentOnce /\ Restarts
  /\ \A b \in Brokers : OwnedOne(b)

\* What a step of the broker c leaves of the brokers, and of the spool for them:
\* no row is there but those that were and a message never sent before, what a
\* drain remembers it remembered or has read in the spool, and the row a live
\* attempt of another broker has claimed stays.
Others(c) ==
  /\ at' = at /\ generation' = generation
  /\ \A b \in Brokers \ {c} : pc'[b] = pc[b] /\ entries'[b] = entries[b]
Recalls ==
  \A b \in Brokers : \A x \in Range(entries'[b]) :
    \/ x \in Range(entries[b])
    \/ \E e \in Range(spool) : x.id = e.id /\ x.sequence = e.sequence
Walk(c) == BrokerTypes' /\ Drains' /\ Recalls /\ Others(c)
Descends ==
  /\ sent \subseteq sent'
  /\ \A y \in Range(spool') :
       \/ \E x \in Range(spool) : y.id = x.id /\ y.sequence = x.sequence
       \/ y.id \in sent' \ sent
Stands(c) ==
  \A b \in Brokers \ {c} : pc[b] = "sending" =>
    \A e \in Range(spool) : Owned(b, e) => e \in Range(spool')

-----------------------------------------------------------------------------
(* Logs *)

LEMMA AppendedRows ==
  ASSUME NEW S, NEW q \in Seq(S), NEW x \in S
  PROVE  /\ Append(q, x) \in Seq(S) /\ Range(Append(q, x)) = Range(q) \cup {x}
         /\ Distinct(q) /\ x \notin Range(q) => Distinct(Append(q, x))
<1>1. /\ Append(q, x) \in Seq(S) /\ Len(q) \in Nat
      /\ DOMAIN Append(q, x) = 1..(Len(q) + 1) /\ DOMAIN q = 1..Len(q)
      /\ \A i \in 1..Len(q) : Append(q, x)[i] = q[i]
      /\ Append(q, x)[Len(q) + 1] = x
  BY AppendProperties, LenProperties
<1>2. Range(Append(q, x)) = Range(q) \cup {x}
  BY <1>1 DEF Range
<1>3. ASSUME Distinct(q), x \notin Range(q) PROVE Distinct(Append(q, x))
  BY <1>1, <1>3 DEF Distinct, Range
<1> QED
  BY <1>1, <1>2, <1>3

LEMMA JoinedRows ==
  ASSUME NEW S, NEW p \in Seq(S), NEW q \in Seq(S)
  PROVE  /\ p \o q \in Seq(S) /\ Range(p \o q) = Range(p) \cup Range(q)
         /\ Distinct(p) /\ Distinct(q) /\ Range(p) \cap Range(q) = {} => Distinct(p \o q)
<1>1. /\ p \o q \in Seq(S) /\ Len(p) \in Nat /\ Len(q) \in Nat
      /\ DOMAIN (p \o q) = 1..(Len(p) + Len(q)) /\ DOMAIN p = 1..Len(p) /\ DOMAIN q = 1..Len(q)
      /\ \A i \in 1..Len(p) : (p \o q)[i] = p[i]
      /\ \A i \in 1..Len(q) : (p \o q)[Len(p) + i] = q[i]
  BY ConcatProperties, LenProperties
<1>2. \A i \in DOMAIN (p \o q) :
        \/ i \in DOMAIN p /\ (p \o q)[i] = p[i]
        \/ i - Len(p) \in DOMAIN q /\ (p \o q)[i] = q[i - Len(p)]
  <2> SUFFICES ASSUME NEW i \in 1..(Len(p) + Len(q)), ~(i \in 1..Len(p))
               PROVE  i - Len(p) \in 1..Len(q) /\ (p \o q)[i] = q[i - Len(p)]
    BY <1>1
  <2>1. i - Len(p) \in 1..Len(q) /\ i = Len(p) + (i - Len(p))
    BY <1>1
  <2> QED
    BY <1>1, <2>1
<1>3. Range(p \o q) \subseteq Range(p) \cup Range(q)
  BY <1>2 DEF Range
<1>4. Range(p) \subseteq Range(p \o q) /\ Range(q) \subseteq Range(p \o q)
  <2>1. \A i \in DOMAIN q : Len(p) + i \in DOMAIN (p \o q)
    BY <1>1
  <2>2. \A i \in DOMAIN p : i \in DOMAIN (p \o q)
    BY <1>1
  <2> QED
    BY <1>1, <2>1, <2>2 DEF Range
<1>5. ASSUME Distinct(p), Distinct(q), Range(p) \cap Range(q) = {}
      PROVE  Distinct(p \o q)
  <2> SUFFICES ASSUME NEW i \in DOMAIN (p \o q), NEW j \in DOMAIN (p \o q), (p \o q)[i] = (p \o q)[j]
               PROVE  i = j
    BY DEF Distinct
  <2>1. i \in Nat /\ j \in Nat /\ Len(p) \in Nat
    BY <1>1
  <2>2. \/ i \in DOMAIN p /\ j \in DOMAIN p /\ p[i] = p[j]
        \/ i - Len(p) \in DOMAIN q /\ j - Len(p) \in DOMAIN q /\ q[i - Len(p)] = q[j - Len(p)]
    BY <1>2, <1>5, Zenon DEF Range
  <2>3. i = j \/ i - Len(p) = j - Len(p)
    BY <1>5, <2>2, Zenon DEF Distinct
  <2> QED
    BY <2>1, <2>3
<1> QED
  BY <1>1, <1>3, <1>4, <1>5

LEMMA TrimmedRows ==
  ASSUME NEW S, NEW q \in Seq(S), NEW n \in Nat \ {0}
  PROVE  /\ Trim(q, n) \in Seq(S) /\ Len(Trim(q, n)) <= n
         /\ Range(Trim(q, n)) \subseteq Range(q)
         /\ Distinct(q) => Distinct(Trim(q, n))
<1>0. Len(q) \in Nat
  BY LenProperties
<1>1. CASE ~(Len(q) > n)
  BY <1>0, <1>1 DEF Trim
<1>2. CASE Len(q) > n
  <2> DEFINE m == Len(q) - n + 1
             t == SubSeq(q, m, Len(q))
  <2>1. Trim(q, n) = t /\ m \in 1..Len(q) /\ Len(q) - m + 1 = n
    BY <1>0, <1>2 DEF Trim
  <2>2. /\ t \in Seq(S) /\ Len(t) = n
        /\ DOMAIN t = 1..n /\ \A i \in 1..n : t[i] = q[m + i - 1]
    BY <1>0, <2>1, SubSeqProperties
  <2>3. \A i \in 1..n : m + i - 1 \in DOMAIN q
    BY <1>0, <2>1
  <2>4. Range(t) \subseteq Range(q)
    BY <2>2, <2>3 DEF Range
  <2>5. ASSUME Distinct(q) PROVE Distinct(t)
    <3> SUFFICES ASSUME NEW i \in 1..n, NEW j \in 1..n, t[i] = t[j] PROVE i = j
      BY <2>2 DEF Distinct
    <3>1. m + i - 1 = m + j - 1
      BY <2>2, <2>3, <2>5 DEF Distinct
    <3> QED
      BY <1>0, <2>1, <3>1
  <2> QED
    BY <1>0, <2>1, <2>2, <2>4, <2>5
<1> QED
  BY <1>1, <1>2

LEMMA FilteredRows ==
  ASSUME NEW S, NEW q \in Seq(S), NEW P \in SUBSET DOMAIN q
  PROVE  /\ Subsequence(q, P) \in Seq(S) /\ Len(Subsequence(q, P)) <= Len(q)
         /\ Range(Subsequence(q, P)) = {q[i] : i \in P}
         /\ Distinct(q) => Distinct(Subsequence(q, P))
<1> DEFINE s == Subsequence(q, P)
           n == Cardinality(P)
<1>1. /\ s \in Seq(S) /\ Len(s) = n /\ n \in Nat /\ DOMAIN s = 1..n
      /\ \A j \in 1..n : Nth(P, j) \in P /\ s[j] = q[Nth(P, j)]
      /\ \A i \in P : \E j \in 1..n : Nth(P, j) = i
      /\ \A j, k \in 1..n : Nth(P, j) = Nth(P, k) => j = k
  BY SubsequenceElements
<1> HIDE DEF s, n
<1>2. Range(s) = {q[i] : i \in P}
  BY <1>1 DEF Range
<1>3. ASSUME Distinct(q) PROVE Distinct(s)
  <2> SUFFICES ASSUME NEW i \in 1..n, NEW j \in 1..n, s[i] = s[j] PROVE i = j
    BY <1>1 DEF Distinct
  <2>1. Nth(P, i) = Nth(P, j)
    BY <1>1, <1>3 DEF Distinct
  <2> QED
    BY <1>1, <2>1
<1>4. n <= Len(q)
  <2>1. P \in SUBSET (1..Len(q)) /\ Len(q) \in Nat
    OBVIOUS
  <2>2. IsFiniteSet(1..Len(q)) /\ Cardinality(1..Len(q)) = Len(q)
    <3>1. /\ IsFiniteSet(1..Len(q))
          /\ Cardinality(1..Len(q)) = IF 1 > Len(q) THEN 0 ELSE Len(q) - 1 + 1
      BY <2>1, FS_Interval
    <3> QED
      BY <2>1, <3>1
  <2> QED
    BY <2>1, <2>2, FS_Subset DEF n
<1> QED
  BY <1>1, <1>2, <1>3, <1>4 DEF s

LEMMA RowsOf == ASSUME NEW S, NEW q \in Seq(S) PROVE Range(q) \subseteq S
BY DEF Range

LEMMA HasIdIs == ASSUME NEW log, NEW id PROVE HasId(log, id) <=> \E e \in Range(log) : e.id = id
BY DEF HasId, Range

\* removing the row of an id
LEMMA WithoutRows ==
  ASSUME NEW S, NEW q \in Seq(S), NEW id
  PROVE  /\ Without(q, id) \in Seq(S) /\ Len(Without(q, id)) <= Len(q)
         /\ Range(Without(q, id)) = {e \in Range(q) : e.id # id}
         /\ Distinct(q) => Distinct(Without(q, id))
<1> DEFINE P == {k \in DOMAIN q : q[k].id # id}
<1>1. /\ Subsequence(q, P) \in Seq(S) /\ Len(Subsequence(q, P)) <= Len(q)
      /\ Range(Subsequence(q, P)) = {q[i] : i \in P}
      /\ Distinct(q) => Distinct(Subsequence(q, P))
  BY FilteredRows
<1>2. {q[i] : i \in P} = {e \in Range(q) : e.id # id}
  BY DEF Range
<1> QED
  BY <1>1, <1>2 DEF Without
-----------------------------------------------------------------------------
(* The rows of a valid file *)

LEMMA FewerAreValid ==
  ASSUME NEW S, NEW L, NEW D, NEW R, NEW n, Valid(S, L, D, R, n),
         NEW S2 \in SUBSET S, NEW L2 \in SUBSET L, NEW D2 \in SUBSET D, NEW R2 \in SUBSET R
  PROVE  Valid(S2, L2, D2, R2, n)
<1>1. Alone(S2) /\ Alone(L2) /\ Alone(D2) /\ Apart(S2, L2) /\ Apart(D2, S2) /\ Apart(D2, L2)
  BY Zenon DEF Valid, Alone, Apart
<1> QED
  BY <1>1, Zenon DEF Valid

\* Another row at the place of one with its id and its sequence.
LEMMA ReplacedIsValid ==
  ASSUME NEW S, NEW L, NEW D, NEW R, NEW n, Valid(S, L, D, R, n),
         NEW old \in S, NEW x, x.id = old.id, x.sequence = old.sequence,
         ~(x.uncertain /\ x.claim # NoClaim)
  PROVE  Valid((S \ {old}) \cup {x}, L, D, R, n)
<1> DEFINE S2 == (S \ {old}) \cup {x}
<1>1. Alone(S2)
  BY DEF Valid, Alone
<1>2. Apart(S2, L) /\ Apart(D, S2)
  BY DEF Valid, Apart
<1>3. \A r \in R : \A y \in S2 \cup L : r.id # y.id
  BY DEF Valid
<1>4. \A y \in S2 \cup L \cup D : y.sequence < n
  BY DEF Valid
<1>5. \A y \in S2 \cup L : ~(y.uncertain /\ y.claim # NoClaim)
  BY DEF Valid
<1>6. /\ Alone(L) /\ Alone(D) /\ Apart(D, L)
      /\ \A r, q \in R : r.id = q.id => r = q
      /\ \A r \in R : r.confirmed => \A d \in D : r.id # d.id
  BY DEF Valid
<1> HIDE DEF S2
<1>7. Valid(S2, L, D, R, n)
  BY <1>1, <1>2, <1>3, <1>4, <1>5, <1>6, Zenon DEF Valid
<1> QED
  BY <1>7 DEF S2

\* The rows of the spool reconciled one by one.
LEMMA MappedIsValid ==
  ASSUME NEW S, NEW L, NEW D, NEW R, NEW n, Valid(S, L, D, R, n), NEW S2,
         \A y \in S2 : \E x \in S : y.id = x.id /\ y.sequence = x.sequence,
         Alone(S2),
         \A y \in S2 : ~(y.uncertain /\ y.claim # NoClaim)
  PROVE  Valid(S2, L, D, R, n)
<1>0. Alone(S2)
  OBVIOUS
<1>1. Apart(S2, L) /\ Apart(D, S2)
  BY DEF Valid, Apart
<1>2. \A r \in R : \A y \in S2 \cup L : r.id # y.id
  BY DEF Valid
<1>3. \A y \in S2 \cup L \cup D : y.sequence < n
  BY DEF Valid
<1>4. \A y \in S2 \cup L : ~(y.uncertain /\ y.claim # NoClaim)
  BY DEF Valid
<1> QED
  <2>1. /\ Alone(L) /\ Alone(D) /\ Apart(D, L)
        /\ \A r, q \in R : r.id = q.id => r = q
        /\ \A r \in R : r.confirmed => \A d \in D : r.id # d.id
    BY DEF Valid
  <2> QED
    BY <1>0, <1>1, <1>2, <1>3, <1>4, <2>1, Zenon DEF Valid

LEMMA FileParts ==
  ASSUME FileOK
  PROVE  /\ Range(spool) \subseteq Entries /\ Range(deadLetters) \subseteq Entries
         /\ Range(deliveries) \subseteq Receipts /\ deferred \subseteq Deferrals
         /\ spool \in Seq(Entries) /\ deadLetters \in Seq(Entries) /\ deliveries \in Seq(Receipts)
         /\ nextSequence \in Nat /\ nextSequence \in 1..(MaxSequence + 1)
         /\ DeliveryRetention \in Nat \ {0} /\ DeadLetterRetention \in Nat \ {0} /\ MaxSequence \in Nat
BY BrokerAssumption DEF FileOK, FileTypes, Range

LEMMA EntryIs ==
  ASSUME FileOK, NEW id, HasId(spool, id)
  PROVE  /\ EntryOf(id) \in Range(spool) /\ EntryOf(id).id = id
         /\ EntryOf(id) \in Entries
         /\ \A e \in Range(spool) : e.id = id => e = EntryOf(id)
<1>1. \E e \in Range(spool) : e.id = id
  BY HasIdIs, Zenon
<1>2. EntryOf(id) \in Range(spool) /\ EntryOf(id).id = id
  BY <1>1, Zenon DEF EntryOf
<1>3. Alone(Range(spool))
  BY Zenon DEF FileOK, Valid
<1> QED
  BY <1>2, <1>3, FileParts, Zenon DEF Alone

LEMMA ReplacedRows ==
  ASSUME FileOK, NEW old \in Range(spool), NEW x \in Entries, x.id = old.id
  PROVE  /\ WithEntry(x) \in Seq(Entries)
         /\ Range(WithEntry(x)) = (Range(spool) \ {old}) \cup {x}
         /\ Distinct(WithEntry(x))
<1> DEFINE w == WithEntry(x)
<1>1. /\ spool \in Seq(Entries) /\ Alone(Range(spool)) /\ Distinct(spool)
  BY FileParts, Zenon DEF FileOK, Valid
<1>2. /\ w = [k \in 1..Len(spool) |-> IF spool[k].id = x.id THEN x ELSE spool[k]]
      /\ DOMAIN spool = 1..Len(spool) /\ Len(spool) \in Nat
      /\ \A k \in 1..Len(spool) : spool[k] \in Entries
  BY <1>1, LenProperties DEF WithEntry
<1>3. w \in Seq(Entries)
  BY <1>2
<1>4. \A k \in DOMAIN spool : spool[k].id = x.id <=> spool[k] = old
  BY <1>1 DEF Alone, Range
<1> HIDE DEF w
<1>5. Range(w) = (Range(spool) \ {old}) \cup {x}
  <2>1. PICK o \in DOMAIN spool : spool[o] = old
    BY DEF Range
  <2>2. w[o] = x /\ o \in DOMAIN w
    BY <1>2, <2>1
  <2>3. \A k \in DOMAIN spool : k \in DOMAIN w /\ w[k] = IF spool[k] = old THEN x ELSE spool[k]
    BY <1>2, <1>4
  <2>4. DOMAIN w = DOMAIN spool
    BY <1>2
  <2> QED
    BY <2>1, <2>2, <2>3, <2>4 DEF Range
<1>6. Distinct(w)
  <2> SUFFICES ASSUME NEW i \in DOMAIN spool, NEW j \in DOMAIN spool, w[i] = w[j] PROVE i = j
    BY <1>2 DEF Distinct
  <2>1. w[i].id = spool[i].id /\ w[j].id = spool[j].id
    BY <1>2
  <2>2. spool[i] = spool[j]
    BY <1>1, <2>1 DEF Alone, Range
  <2> QED
    BY <1>1, <2>2 DEF Distinct
<1> QED
  BY <1>3, <1>5, <1>6 DEF w

\* A step that replaces one row of the spool and leaves the rest of the file.
LEMMA FileReplaced ==
  ASSUME FileOK, NEW old \in Range(spool), NEW x \in Entries, x.id = old.id, x.sequence = old.sequence,
         ~(x.uncertain /\ x.claim # NoClaim), spool' = WithEntry(x),
         UNCHANGED <<deliveries, deadLetters, deferred, nextSequence, wakeCooldowns>>
  PROVE  FileOK' /\ Range(spool') = (Range(spool) \ {old}) \cup {x}
<1>1. /\ spool' \in Seq(Entries) /\ Range(spool') = (Range(spool) \ {old}) \cup {x} /\ Distinct(spool')
  BY ReplacedRows
<1>2. Valid(Range(spool'), Range(deadLetters), deferred, Range(deliveries), nextSequence)
  <2>1. Valid(Range(spool), Range(deadLetters), deferred, Range(deliveries), nextSequence)
    BY DEF FileOK
  <2>2. Valid((Range(spool) \ {old}) \cup {x}, Range(deadLetters), deferred, Range(deliveries), nextSequence)
    BY <2>1, ReplacedIsValid
  <2> QED
    BY <1>1, <2>2
<1> QED
  BY <1>1, <1>2 DEF FileOK, FileTypes

LEMMA FileUnchanged ==
  ASSUME FileOK, UNCHANGED <<spool, deliveries, deadLetters, deferred, nextSequence>>,
         wakeCooldowns' \in SUBSET Recipients
  PROVE  FileOK'
<1>1. FileTypes'
  BY DEF FileOK, FileTypes
<1> QED
  BY <1>1 DEF FileOK, Distinct
-----------------------------------------------------------------------------
(* What the operations do to the rows *)

LEMMA DeliveredIsValid ==
  ASSUME NEW S, NEW L, NEW D, NEW R, NEW n, Valid(S, L, D, R, n), NEW e \in S,
         NEW d, d.id = e.id, d.sequence = e.sequence,
         NEW r, r.id = e.id, ~r.confirmed
  PROVE  /\ Valid({x \in S : x.id # e.id}, L, D, R \cup {r}, n)
         /\ Valid({x \in S : x.id # e.id}, L, D \cup {d}, R \cup {r}, n)
<1> DEFINE S2 == {x \in S : x.id # e.id}
<1>1. Alone(S2) /\ Alone(L) /\ Apart(S2, L)
  BY Zenon DEF Valid, Alone, Apart
<1>2. Alone(D \cup {d}) /\ Alone(D)
  BY DEF Valid, Alone, Apart
<1>3. Apart(D \cup {d}, S2) /\ Apart(D, S2)
  BY DEF Valid, Alone, Apart
<1>4. Apart(D \cup {d}, L) /\ Apart(D, L)
  BY DEF Valid, Apart
<1>5. \A p, q \in R \cup {r} : p.id = q.id => p = q
  BY DEF Valid
<1>6. \A p \in R \cup {r} : /\ \A x \in S2 \cup L : p.id # x.id
                            /\ p.confirmed => \A x \in D \cup {d} : p.id # x.id
  BY DEF Valid, Apart
<1>7. /\ \A x \in S2 \cup L \cup (D \cup {d}) : x.sequence < n
      /\ \A x \in S2 \cup L : ~(x.uncertain /\ x.claim # NoClaim)
  BY DEF Valid
<1> HIDE DEF S2
<1>8. Valid(S2, L, D, R \cup {r}, n)
  <2>1. /\ \A p \in R \cup {r} : p.confirmed => \A x \in D : p.id # x.id
        /\ \A x \in S2 \cup L \cup D : x.sequence < n
    BY <1>6, <1>7
  <2> QED
    BY <1>1, <1>2, <1>3, <1>4, <1>5, <1>6, <1>7, <2>1, Zenon DEF Valid
<1>9. Valid(S2, L, D \cup {d}, R \cup {r}, n)
  BY <1>1, <1>2, <1>3, <1>4, <1>5, <1>6, <1>7, Zenon DEF Valid
<1> QED
  BY <1>8, <1>9 DEF S2

\* A message nobody knows gets the next sequence.
LEMMA AcceptedIsValid ==
  ASSUME NEW S, NEW L, NEW D, NEW R, NEW n \in Nat, Valid(S, L, D, R, n),
         \A x \in S \cup L \cup D : x.sequence \in Nat,
         NEW x, x.sequence = n, x.claim = NoClaim, \A y \in S \cup L \cup D \cup R : y.id # x.id
  PROVE  Valid(S \cup {x}, L, D, R, n + 1)
<1>1. \A y \in S \cup L \cup D : y.sequence < n /\ y.sequence < n + 1 /\ y.sequence # x.sequence
  BY DEF Valid
<1>2. Alone(S \cup {x}) /\ Alone(L) /\ Alone(D)
  BY <1>1 DEF Valid, Alone
<1>3. Apart(S \cup {x}, L) /\ Apart(D, S \cup {x}) /\ Apart(D, L)
  BY <1>1 DEF Valid, Apart
<1>4. /\ \A r, q \in R : r.id = q.id => r = q
      /\ \A r \in R : /\ \A y \in (S \cup {x}) \cup L : r.id # y.id
                      /\ r.confirmed => \A d \in D : r.id # d.id
  BY DEF Valid
<1>5. \A y \in (S \cup {x}) \cup L \cup D : y.sequence < n + 1
  BY <1>1
<1>6. \A y \in (S \cup {x}) \cup L : ~(y.uncertain /\ y.claim # NoClaim)
  BY DEF Valid
<1> QED
  BY <1>2, <1>3, <1>4, <1>5, <1>6, Zenon DEF Valid

\* A message with a receipt or a hand-off is given up under the next sequence.
LEMMA DiscardedIsValid ==
  ASSUME NEW S, NEW L, NEW D, NEW R, NEW n \in Nat, Valid(S, L, D, R, n),
         \A x \in S \cup L \cup D : x.sequence \in Nat,
         NEW x, x.sequence = n, x.claim = NoClaim, \A y \in L : y.id # x.id,
         (\E r \in R : r.id = x.id) \/ \E d \in D : d.id = x.id
  PROVE  Valid(S, L \cup {x}, {d \in D : d.id # x.id}, {r \in R : r.id # x.id}, n + 1)
<1> DEFINE D2 == {d \in D : d.id # x.id}
           R2 == {r \in R : r.id # x.id}
<1>1. \A y \in S \cup L \cup D : y.sequence < n /\ y.sequence < n + 1 /\ y.sequence # x.sequence
  BY DEF Valid
<1>2. \A y \in S : y.id # x.id
  BY DEF Valid, Apart
<1>3. Alone(S) /\ Alone(L \cup {x}) /\ Alone(D2)
  BY <1>1 DEF Valid, Alone
<1>4. Apart(S, L \cup {x}) /\ Apart(D2, S) /\ Apart(D2, L \cup {x})
  BY <1>1, <1>2 DEF Valid, Apart
<1>5. /\ \A r, q \in R2 : r.id = q.id => r = q
      /\ \A r \in R2 : /\ \A y \in S \cup (L \cup {x}) : r.id # y.id
                       /\ r.confirmed => \A d \in D2 : r.id # d.id
  BY DEF Valid
<1>6. \A y \in S \cup (L \cup {x}) \cup D2 : y.sequence < n + 1
  BY <1>1
<1>7. \A y \in S \cup (L \cup {x}) : ~(y.uncertain /\ y.claim # NoClaim)
  BY DEF Valid
<1> HIDE DEF D2, R2
<1>8. Valid(S, L \cup {x}, D2, R2, n + 1)
  BY <1>3, <1>4, <1>5, <1>6, <1>7, Zenon DEF Valid
<1> QED
  BY <1>8 DEF D2, R2

\* A message with an unconfirmed receipt is handed off under the next sequence.
LEMMA DeferredIsValid ==
  ASSUME NEW S, NEW L, NEW D, NEW R, NEW n \in Nat, Valid(S, L, D, R, n),
         \A x \in S \cup L \cup D : x.sequence \in Nat,
         NEW d, d.sequence = n, \A y \in L \cup D : y.id # d.id,
         \E r \in R : r.id = d.id, \A r \in R : r.id = d.id => ~r.confirmed
  PROVE  Valid(S, L, D \cup {d}, R, n + 1)
<1>1. \A y \in S \cup L \cup D : y.sequence < n /\ y.sequence < n + 1 /\ y.sequence # d.sequence
  BY DEF Valid
<1>2. \A y \in S : y.id # d.id
  BY DEF Valid
<1>3. Alone(S) /\ Alone(L) /\ Alone(D \cup {d})
  BY <1>1 DEF Valid, Alone
<1>4. Apart(S, L) /\ Apart(D \cup {d}, S) /\ Apart(D \cup {d}, L)
  BY <1>1, <1>2 DEF Valid, Apart
<1>5. /\ \A r, q \in R : r.id = q.id => r = q
      /\ \A r \in R : /\ \A y \in S \cup L : r.id # y.id
                      /\ r.confirmed => \A y \in D \cup {d} : r.id # y.id
  BY DEF Valid
<1>6. \A y \in S \cup L \cup (D \cup {d}) : y.sequence < n + 1
  BY <1>1
<1>7. \A y \in S \cup L : ~(y.uncertain /\ y.claim # NoClaim)
  BY DEF Valid
<1> QED
  BY <1>3, <1>4, <1>5, <1>6, <1>7, Zenon DEF Valid

\* Other hand-offs in the places of those there are.
LEMMA RedoneIsValid ==
  ASSUME NEW S, NEW L, NEW D, NEW R, NEW n, Valid(S, L, D, R, n), NEW D2, Alone(D2),
         \A y \in D2 : \E x \in D : y.id = x.id /\ y.sequence = x.sequence
  PROVE  Valid(S, L, D2, R, n)
<1>1. Alone(S) /\ Alone(L) /\ Apart(S, L)
  BY Zenon DEF Valid
<1>2. Apart(D2, S) /\ Apart(D2, L)
  BY DEF Valid, Apart
<1>3. /\ \A r, q \in R : r.id = q.id => r = q
      /\ \A r \in R : /\ \A y \in S \cup L : r.id # y.id
                      /\ r.confirmed => \A y \in D2 : r.id # y.id
  BY DEF Valid
<1>4. /\ \A y \in S \cup L \cup D2 : y.sequence < n
      /\ \A y \in S \cup L : ~(y.uncertain /\ y.claim # NoClaim)
  BY DEF Valid
<1> QED
  BY <1>1, <1>2, <1>3, <1>4, Zenon DEF Valid

\* The recipient's model confirms a message that has a receipt or a hand-off.
LEMMA ConfirmedIsValid ==
  ASSUME NEW S, NEW L, NEW D, NEW R, NEW n, Valid(S, L, D, R, n), NEW c,
         (\E r \in R : r.id = c.id) \/ \E d \in D : d.id = c.id, \A y \in L : y.id # c.id
  PROVE  Valid(S, L, {d \in D : d.id # c.id}, {r \in R : r.id # c.id} \cup {c}, n)
<1> DEFINE D2 == {d \in D : d.id # c.id}
           R2 == {r \in R : r.id # c.id} \cup {c}
<1>1. \A y \in S : y.id # c.id
  BY DEF Valid, Apart
<1>2. Alone(S) /\ Alone(L) /\ Alone(D2) /\ Apart(S, L) /\ Apart(D2, S) /\ Apart(D2, L)
  BY Zenon DEF Valid, Alone, Apart
<1>3. /\ \A r, q \in R2 : r.id = q.id => r = q
      /\ \A r \in R2 : /\ \A y \in S \cup L : r.id # y.id
                       /\ r.confirmed => \A y \in D2 : r.id # y.id
  BY <1>1 DEF Valid
<1>4. /\ \A y \in S \cup L \cup D2 : y.sequence < n
      /\ \A y \in S \cup L : ~(y.uncertain /\ y.claim # NoClaim)
  BY DEF Valid
<1> HIDE DEF D2, R2
<1>5. Valid(S, L, D2, R2, n)
  BY <1>2, <1>3, <1>4, Zenon DEF Valid
<1> QED
  BY <1>5 DEF D2, R2

\* Rows of the spool go over to the dead letters.
LEMMA SplitIsValid ==
  ASSUME NEW S, NEW L, NEW D, NEW R, NEW n, Valid(S, L, D, R, n),
         NEW A \in SUBSET S, NEW B \in SUBSET S, A \cap B = {}
  PROVE  Valid(A, L \cup B, D, R, n)
<1>1. Alone(A) /\ Alone(D) /\ Apart(D, A)
  BY Zenon DEF Valid, Alone, Apart
<1>2. Alone(L \cup B) /\ Apart(D, L \cup B)
  BY DEF Valid, Alone, Apart
<1>3. Apart(A, L \cup B)
  BY DEF Valid, Alone, Apart
<1>4. /\ \A r, q \in R : r.id = q.id => r = q
      /\ \A r \in R : /\ \A y \in A \cup (L \cup B) : r.id # y.id
                      /\ r.confirmed => \A y \in D : r.id # y.id
  BY DEF Valid
<1>5. /\ \A y \in A \cup (L \cup B) \cup D : y.sequence < n
      /\ \A y \in A \cup (L \cup B) : ~(y.uncertain /\ y.claim # NoClaim)
  BY DEF Valid
<1> QED
  BY <1>1, <1>2, <1>3, <1>4, <1>5, Zenon DEF Valid
-----------------------------------------------------------------------------
(* The walk of a drain *)

LEMMA RecipientsOf == \A id \in Ids : To[id] \in Recipients
BY BrokerAssumption

LEMMA HeadsAndTails ==
  ASSUME NEW S, NEW q \in Seq(S), q # <<>>
  PROVE  /\ Head(q) \in S /\ Head(q) \in Range(q)
         /\ Tail(q) \in Seq(S) /\ Range(Tail(q)) \subseteq Range(q)
         /\ Len(q) # 1 => Tail(q) # <<>>
<1>1. Len(q) \in Nat /\ Len(q) > 0 /\ DOMAIN q = 1..Len(q) /\ \A i \in 1..Len(q) : q[i] \in S
  BY LenProperties, EmptySeq
<1>2. Head(q) = q[1] /\ 1 \in DOMAIN q
  BY <1>1
<1>3. /\ Tail(q) \in Seq(S) /\ Len(Tail(q)) = Len(q) - 1
      /\ \A i \in 1..Len(Tail(q)) : Tail(q)[i] = q[i + 1]
  BY HeadTailProperties
<1>4. Range(Tail(q)) \subseteq Range(q)
  <2> SUFFICES ASSUME NEW i \in DOMAIN Tail(q) PROVE Tail(q)[i] \in Range(q)
    BY DEF Range
  <2>1. i \in 1..Len(Tail(q)) /\ i + 1 \in DOMAIN q
    BY <1>1, <1>3
  <2> QED
    BY <1>3, <2>1 DEF Range
<1>5. Len(q) # 1 => Tail(q) # <<>>
  <2>1. Len(q) # 1 => Len(Tail(q)) # 0
    BY <1>1, <1>3
  <2> QED
    BY <2>1, EmptySeq
<1> QED
  BY <1>1, <1>2, <1>3, <1>4, <1>5 DEF Range

LEMMA EndsWalk ==
  ASSUME BrokerTypes, Drains, NEW b \in Brokers, Ends(b), UNCHANGED <<at, directory, generation>>
  PROVE  Walk(b) /\ pc'[b] = "idle"
<1>1. /\ pc' = [pc EXCEPT ![b] = "idle"] /\ scope' = [scope EXCEPT ![b] = Nobody]
      /\ entries' = [entries EXCEPT ![b] = <<>>] /\ blocked' = [blocked EXCEPT ![b] = {}]
  BY DEF Ends
<1>2. BrokerTypes'
  <2>1. <<>> \in Seq(Snapshots)
    OBVIOUS
  <2> QED
    BY <1>1, <2>1 DEF BrokerTypes
<1>3. pc'[b] = "idle" /\ entries'[b] = <<>>
  BY <1>1 DEF BrokerTypes
<1>4. Others(b)
  BY <1>1 DEF Others, BrokerTypes
<1>5. Drains'
  BY <1>3, <1>4 DEF Drains, Others, Busy
<1>6. Recalls
  <2>1. Range(entries'[b]) = {}
    BY <1>3 DEF Range
  <2> QED
    BY <1>4, <2>1, Zenon DEF Recalls, Others
<1> QED
  BY <1>2, <1>3, <1>4, <1>5, <1>6 DEF Walk

LEMMA GoesOnWalk ==
  ASSUME BrokerTypes, Drains, NEW b \in Brokers, pc[b] \in Busy, NEW delivered \in BOOLEAN,
         GoesOn(b, delivered), UNCHANGED <<at, directory, generation>>
  PROVE  Walk(b) /\ pc'[b] \in {"idle", "draining"}
<1>1. CASE Len(entries[b]) = 1
  BY <1>1, EndsWalk, Zenon DEF GoesOn
<1>2. CASE Len(entries[b]) # 1
  <2>1. /\ pc' = [pc EXCEPT ![b] = "draining"] /\ scope' = scope
        /\ entries' = [entries EXCEPT ![b] = Tail(entries[b])]
        /\ \/ blocked' = blocked
           \/ blocked' = [blocked EXCEPT ![b] = blocked[b] \cup {To_(Head(entries[b]))}]
    BY <1>2 DEF GoesOn
  <2>2. entries[b] \in Seq(Snapshots) /\ entries[b] # <<>>
    BY DEF BrokerTypes, Drains
  <2>3. /\ Head(entries[b]) \in Snapshots /\ Tail(entries[b]) \in Seq(Snapshots)
        /\ Range(Tail(entries[b])) \subseteq Range(entries[b]) /\ Tail(entries[b]) # <<>>
    BY <1>2, <2>2, HeadsAndTails
  <2>4. To_(Head(entries[b])) \in Recipients
    BY <2>3, RecipientsOf DEF To_, Snapshots
  <2>5. BrokerTypes'
    BY <2>1, <2>3, <2>4, ZenonT(60) DEF BrokerTypes
  <2>6. pc'[b] = "draining" /\ entries'[b] = Tail(entries[b])
    BY <2>1 DEF BrokerTypes
  <2>7. Others(b)
    BY <2>1 DEF Others, BrokerTypes
  <2>8. Drains'
    BY <2>3, <2>6, <2>7 DEF Drains, Others
  <2>9. Recalls
    BY <2>3, <2>6, <2>7, Zenon DEF Recalls, Others
  <2> QED
    BY <2>5, <2>6, <2>7, <2>8, <2>9 DEF Walk
<1> QED
  BY <1>1, <1>2

LEMMA ListsWalk ==
  ASSUME BrokerTypes, Drains, spool \in Seq(Entries), NEW b \in Brokers, NEW drained, Lists(b, drained)
  PROVE  Walk(b) /\ pc'[b] \in {"idle", "draining"}
<1> DEFINE P == {k \in DOMAIN spool : To_(spool[k]) \in drained}
           found == Subsequence(spool, P)
<1>0. UNCHANGED <<at, directory, generation>>
  BY DEF Lists
<1>1. CASE found = <<>>
  <2>1. Ends(b)
    BY <1>1 DEF Lists
  <2> QED
    BY <1>0, <2>1, EndsWalk, Zenon
<1>2. CASE found # <<>>
  <2>1. /\ pc' = [pc EXCEPT ![b] = "draining"] /\ scope' = [scope EXCEPT ![b] = Nobody]
        /\ entries' = [entries EXCEPT ![b] = [k \in DOMAIN found |-> Seen(found[k])]]
        /\ blocked' = blocked
    BY <1>2 DEF Lists
  <2>2. found \in Seq(Entries) /\ Range(found) = {spool[i] : i \in P}
    BY FilteredRows
  <2> HIDE DEF found
  <2> DEFINE snapshot == [k \in DOMAIN found |-> Seen(found[k])]
  <2>3. DOMAIN found = 1..Len(found) /\ Len(found) \in Nat /\ Len(found) # 0
    BY <1>2, <2>2, LenProperties, EmptySeq
  <2>4. \A k \in DOMAIN found : /\ found[k] \in Entries
                                /\ Seen(found[k]) \in Snapshots
                                /\ Seen(found[k]).id = found[k].id
                                /\ Seen(found[k]).sequence = found[k].sequence
                                /\ found[k] \in Range(spool)
    <3> SUFFICES ASSUME NEW k \in DOMAIN found
                 PROVE  /\ found[k] \in Entries
                        /\ Seen(found[k]) \in Snapshots
                        /\ Seen(found[k]).id = found[k].id
                        /\ Seen(found[k]).sequence = found[k].sequence
                        /\ found[k] \in Range(spool)
      OBVIOUS
    <3>1. found[k] \in Entries
      BY <2>2, <2>3
    <3>2. found[k] \in {spool[i] : i \in P}
      BY <2>2, Zenon DEF Range
    <3>3. found[k] \in Range(spool)
      BY <3>2 DEF Range
    <3> QED
      BY <3>1, <3>3 DEF Seen, Entries, Snapshots
  <2>5. snapshot \in Seq(Snapshots) /\ snapshot # <<>>
    <3>1. snapshot = [k \in 1..Len(found) |-> Seen(found[k])]
      BY <2>3
    <3>2. \A k \in 1..Len(found) : Seen(found[k]) \in Snapshots
      BY <2>3, <2>4
    <3> HIDE DEF snapshot
    <3>3. snapshot \in Seq(Snapshots) /\ DOMAIN snapshot = 1..Len(found)
      BY <2>3, <3>1, <3>2
    <3>4. 1 \in DOMAIN snapshot /\ DOMAIN (<<>>) = {}
      BY <2>3, <3>3
    <3> QED
      BY <3>3, <3>4
  <2>6. \A x \in Range(snapshot) : \E e \in Range(spool) : x.id = e.id /\ x.sequence = e.sequence
    BY <2>4 DEF Range
  <2> HIDE DEF snapshot
  <2>7. pc'[b] = "draining" /\ entries'[b] = snapshot
    BY <2>1 DEF BrokerTypes, snapshot
  <2>8. entries' = [entries EXCEPT ![b] = snapshot]
    BY <2>1 DEF snapshot
  <2>9. BrokerTypes'
    BY <1>0, <2>1, <2>5, <2>8 DEF BrokerTypes
  <2>10. Others(b)
    BY <1>0, <2>1 DEF Others, BrokerTypes
  <2>11. Drains'
    BY <2>5, <2>7, <2>10 DEF Drains, Others
  <2>12. Recalls
    BY <2>6, <2>7, <2>10, Zenon DEF Recalls, Others
  <2> QED
    BY <2>7, <2>9, <2>10, <2>11, <2>12 DEF Walk
<1> QED
  BY <1>1, <1>2

\* A step that moves the broker and keeps its drain.
LEMMA MovesWalk ==
  ASSUME BrokerTypes, Drains, NEW b \in Brokers,
         NEW s \in {"closed", "idle", "listing", "draining", "waking", "awake", "sending"},
         s \in Busy => pc[b] \in Busy,
         pc' = [pc EXCEPT ![b] = s], entries' = entries, blocked' = blocked,
         at' = at, generation' = generation,
         directory' \in [Brokers -> SUBSET Recipients],
         scope' \in [Brokers -> Recipients \cup {Nobody}]
  PROVE  Walk(b) /\ pc'[b] = s
<1>1. BrokerTypes' /\ Others(b) /\ pc'[b] = s
  BY DEF BrokerTypes, Others
<1>2. Drains'
  BY <1>1 DEF Drains, Others, Busy
<1>3. Recalls
  BY Zenon DEF Recalls
<1> QED
  BY <1>1, <1>2, <1>3 DEF Walk

\* A step that moves no broker.
LEMMA StillWalk ==
  ASSUME BrokerTypes, Drains, UNCHANGED <<pc, at, directory, drainVars, generation>>, NEW b \in Brokers
  PROVE  Walk(b) /\ pc'[b] = pc[b]
<1>1. UNCHANGED <<pc, at, directory, scope, entries, blocked, generation>>
  BY DEF drainVars
<1>2. BrokerTypes' /\ Drains' /\ Others(b)
  BY <1>1 DEF BrokerTypes, Others, Drains
<1>3. Recalls
  BY <1>1, Zenon DEF Recalls
<1> QED
  BY <1>1, <1>2, <1>3 DEF Walk
-----------------------------------------------------------------------------
(* Claims *)

LEMMA ClaimsAre ==
  ASSUME BrokerTypes, WorldTypes, NEW b \in Brokers
  PROVE  /\ ClaimOf(b) \in Claims /\ ClaimOf(b) # NoClaim
         /\ ClaimOf(b).by = b /\ ClaimOf(b).at = at[b] /\ ClaimOf(b).generation = generation[at[b]]
<1>1. at[b] \in Procs /\ generation[at[b]] \in 0..MaxIncidents
  BY DEF BrokerTypes, WorldTypes
<1>2. ClaimOf(b) \in Claims
  BY <1>1 DEF ClaimOf, Claims
<1> QED
  BY <1>2, NoClaimAssumption DEF ClaimOf

\* Nobody reconciles the claim of a live attempt.
LEMMA LiveClaimStays ==
  ASSUME BrokerInv, NEW b \in Brokers, pc[b] = "sending", NEW e \in Range(spool), Owned(b, e),
         NEW c \in Brokers, NEW blind
  PROVE  Reconciled(c, e, blind) = e /\ e.claim # NoClaim
<1>1. /\ e.claim = ClaimOf(b) /\ ClaimOf(b) # NoClaim /\ ClaimOf(b).by = b
      /\ ClaimOf(b).at = at[b] /\ ClaimOf(b).generation = generation[at[b]]
  BY ClaimsAre DEF BrokerInv, Owned
<1>2. Head(entries[b]).sequence = e.sequence
  <2>1. entries[b] \in Seq(Snapshots) /\ entries[b] # <<>>
    BY DEF BrokerInv, BrokerTypes, Drains, Busy
  <2>2. Head(entries[b]) \in Range(entries[b])
    BY <2>1, HeadsAndTails
  <2>3. Remembers(b) /\ Head(entries[b]).id = e.id
    BY DEF BrokerInv, SentOnce, Owned
  <2> QED
    BY <2>2, <2>3, Zenon DEF Remembers
<1>3. Active(e)
  BY <1>1, <1>2 DEF Active
<1>4. Disposition(c, e, blind) # "UNCERTAIN"
  BY <1>1, <1>3 DEF Disposition
<1> QED
  BY <1>1, <1>4 DEF Reconciled

\* A row without a claim, or with that of c, is nobody else's.
LEMMA NobodyElses ==
  ASSUME BrokerInv, NEW c \in Brokers, NEW b \in Brokers \ {c}, NEW e,
         e.claim = NoClaim \/ e.claim = ClaimOf(c)
  PROVE  ~Owned(b, e)
<1>1. /\ ClaimOf(b) # NoClaim /\ ClaimOf(b).by = b /\ ClaimOf(c).by = c
  BY ClaimsAre DEF BrokerInv
<1> QED
  BY <1>1 DEF Owned

LEMMA SpoolStays ==
  ASSUME UNCHANGED <<spool, sent>>, NEW c
  PROVE  Descends /\ Stands(c)
BY DEF Descends, Stands

LEMMA SpoolReplaced ==
  ASSUME BrokerInv, NEW c \in Brokers, NEW old \in Range(spool), NEW x, sent' = sent,
         x.id = old.id, x.sequence = old.sequence, Range(spool') = (Range(spool) \ {old}) \cup {x},
         x = old \/ \A b \in Brokers \ {c} : pc[b] = "sending" => ~Owned(b, old)
  PROVE  Descends /\ Stands(c)
<1>1. Descends
  BY DEF Descends
<1>2. Stands(c)
  BY DEF Stands
<1> QED
  BY <1>1, <1>2

LEMMA AbandonedIs ==
  ASSUME NEW e \in Entries
  PROVE  /\ Abandoned(e) \in Entries /\ Abandoned(e).id = e.id /\ Abandoned(e).sequence = e.sequence
         /\ Abandoned(e).claim = NoClaim
BY DEF Abandoned, Entries

LEMMA ReconciledIs ==
  ASSUME NEW e \in Entries, NEW b, NEW blind, ~(e.uncertain /\ e.claim # NoClaim)
  PROVE  /\ Reconciled(b, e, blind) \in Entries
         /\ Reconciled(b, e, blind).id = e.id /\ Reconciled(b, e, blind).sequence = e.sequence
         /\ ~(Reconciled(b, e, blind).uncertain /\ Reconciled(b, e, blind).claim # NoClaim)
BY AbandonedIs DEF Reconciled

LEMMA RowsAre ==
  ASSUME FileOK
  PROVE  /\ Valid(Range(spool), Range(deadLetters), deferred, Range(deliveries), nextSequence)
         /\ \A x \in Range(spool) \cup Range(deadLetters) \cup deferred : x.sequence \in Nat
         /\ \A x \in Range(spool) : x \in Entries /\ ~(x.uncertain /\ x.claim # NoClaim)
         /\ \A x, y \in Range(spool) : x.id = y.id \/ x.sequence = y.sequence => x = y
<1>1. Valid(Range(spool), Range(deadLetters), deferred, Range(deliveries), nextSequence)
  BY DEF FileOK
<1>2. \A x \in Range(spool) \cup Range(deadLetters) \cup deferred : x.sequence \in Sequences
  BY FileParts DEF Entries, Deferrals
<1>3. \A x \in Range(spool) : x \in Entries /\ ~(x.uncertain /\ x.claim # NoClaim)
  BY <1>1, FileParts DEF Valid
<1>4. \A x, y \in Range(spool) : x.id = y.id \/ x.sequence = y.sequence => x = y
  BY <1>1, Zenon DEF Valid, Alone
<1> QED
  BY <1>1, <1>2, <1>3, <1>4 DEF Sequences

\* A step of one broker.
LEMMA StepKeeps ==
  ASSUME BrokerInv, NEW c \in Brokers, FileOK', WorldTypes', Restarts', Walk(c), Descends, Stands(c),
         OwnedOne(c)'
  PROVE  BrokerInv'
<1>1. SentOnce'
  <2>1. \A e \in Range(spool') : e.id \in sent'
    BY DEF Descends, BrokerInv, SentOnce
  <2>2. ASSUME NEW b \in Brokers, NEW x \in Range(entries'[b])
        PROVE  x.id \in sent /\ \A e \in Range(spool) : e.id = x.id => e.sequence = x.sequence
    <3>1. CASE x \in Range(entries[b])
      BY <3>1, Zenon DEF BrokerInv, SentOnce, Remembers
    <3>2. CASE \E e \in Range(spool) : x.id = e.id /\ x.sequence = e.sequence
      <4>1. FileOK /\ \A e \in Range(spool) : e.id \in sent
        BY DEF BrokerInv, SentOnce
      <4> QED
        BY <3>2, <4>1, RowsAre
    <3> QED
      BY <3>1, <3>2, Zenon DEF Walk, Recalls
  <2>3. ASSUME NEW b \in Brokers, NEW x \in Range(entries'[b])
        PROVE  x.id \in sent' /\ \A e \in Range(spool') : e.id = x.id => e.sequence = x.sequence
    BY <2>2, <2>3 DEF Descends
  <2> QED
    BY <2>1, <2>3, Zenon DEF SentOnce, Remembers
<1>2. ASSUME NEW b \in Brokers PROVE OwnedOne(b)'
  <2>1. CASE b = c
    BY <2>1
  <2>2. CASE b # c
    <3> SUFFICES ASSUME pc'[b] = "sending"
                 PROVE  \E e \in Range(spool') : e.id = Head(entries'[b]).id /\ e.claim = ClaimOf(b)'
      BY DEF OwnedOne, Owned
    <3>1. pc[b] = "sending" /\ entries'[b] = entries[b] /\ ClaimOf(b)' = ClaimOf(b)
      BY <2>2 DEF Walk, Others, ClaimOf
    <3>2. PICK e \in Range(spool) : Owned(b, e)
      BY <3>1 DEF BrokerInv, OwnedOne
    <3>3. e \in Range(spool')
      BY <2>2, <3>1, <3>2 DEF Stands
    <3> QED
      BY <3>1, <3>2, <3>3 DEF Owned
  <2> QED
    BY <2>1, <2>2
<1>3. BrokerTypes' /\ Drains'
  BY DEF Walk
<1> QED
  BY <1>1, <1>2, <1>3 DEF BrokerInv
-----------------------------------------------------------------------------
(* Steps that leave the file as it is, or only its cooldowns *)

\* The file is as it was and the operation of b moves on or ends.
LEMMA QuietKeeps ==
  ASSUME BrokerInv, NEW b \in Brokers,
         UNCHANGED <<spool, deliveries, deadLetters, deferred, nextSequence, sent>>,
         wakeCooldowns' \in SUBSET Recipients,
         Walk(b), pc'[b] # "sending", WorldTypes', Restarts'
  PROVE  BrokerInv'
<1>1. FileOK'
  BY FileUnchanged DEF BrokerInv
<1>2. Descends /\ Stands(b)
  BY SpoolStays
<1>3. OwnedOne(b)'
  BY DEF OwnedOne
<1> QED
  BY <1>1, <1>2, <1>3, StepKeeps

LEMMA WorldStays ==
  ASSUME BrokerInv, UNCHANGED <<generation, incidents, air, landed, sent>>
  PROVE  WorldTypes' /\ Restarts'
BY DEF BrokerInv, WorldTypes, Restarts

\* One more incident.
LEMMA WorldCounts ==
  ASSUME BrokerInv, UNCHANGED <<generation, air, landed, sent>>,
         incidents < MaxIncidents, incidents' = incidents + 1
  PROVE  WorldTypes' /\ Restarts'
<1>1. incidents \in 0..MaxIncidents /\ MaxIncidents \in Nat
  BY BrokerAssumption DEF BrokerInv, WorldTypes
<1>2. incidents' \in 0..MaxIncidents
  BY <1>1
<1>3. \A p \in Procs : generation[p] \in Nat /\ generation[p] <= incidents
  BY DEF BrokerInv, WorldTypes, Restarts
<1>4. \A p \in Procs : generation[p] <= incidents + 1
  BY <1>1, <1>3
<1> QED
  BY <1>2, <1>4 DEF BrokerInv, WorldTypes, Restarts

LEMMA Parts ==
  ASSUME BrokerInv
  PROVE  /\ FileOK /\ BrokerTypes /\ WorldTypes /\ Drains /\ SentOnce /\ Restarts
         /\ spool \in Seq(Entries) /\ wakeCooldowns \in SUBSET Recipients
         /\ \A b \in Brokers : pc[b] \in Busy => /\ entries[b] \in Seq(Snapshots) /\ entries[b] # <<>>
                                                 /\ Head(entries[b]) \in Snapshots
                                                 /\ To_(Head(entries[b])) \in Recipients
<1>1. FileOK /\ BrokerTypes /\ WorldTypes /\ Drains /\ SentOnce /\ Restarts
  BY DEF BrokerInv
<1>2. spool \in Seq(Entries) /\ wakeCooldowns \in SUBSET Recipients
  BY <1>1 DEF FileOK, FileTypes
<1>3. ASSUME NEW b \in Brokers, pc[b] \in Busy
      PROVE  /\ entries[b] \in Seq(Snapshots) /\ entries[b] # <<>>
             /\ Head(entries[b]) \in Snapshots /\ To_(Head(entries[b])) \in Recipients
  <2>1. entries[b] \in Seq(Snapshots) /\ entries[b] # <<>>
    BY <1>1, <1>3 DEF BrokerTypes, Drains
  <2>2. Head(entries[b]) \in Snapshots
    BY <2>1, HeadsAndTails
  <2> QED
    BY <2>1, <2>2, RecipientsOf DEF To_, Snapshots
<1> QED
  BY <1>1, <1>2, <1>3

LEMMA MutationFailsKeeps ==
  ASSUME BrokerInv, NEW b \in Brokers, MutationFails(b), UNCHANGED <<at, directory, generation, world>>
  PROVE  BrokerInv'
<1>1. /\ incidents < MaxIncidents /\ incidents' = incidents + 1 /\ Ends(b)
      /\ UNCHANGED <<spool, deliveries, deadLetters, deferred, nextSequence, wakeCooldowns>>
      /\ UNCHANGED <<air, landed, sent>>
  BY DEF MutationFails, file, world
<1>2. Walk(b) /\ pc'[b] = "idle"
  BY <1>1, Parts, EndsWalk
<1>3. WorldTypes' /\ Restarts'
  BY <1>1, WorldCounts
<1>4. wakeCooldowns' \in SUBSET Recipients
  BY <1>1, Parts
<1> QED
  BY <1>1, <1>2, <1>3, <1>4, QuietKeeps

\* A step of b that changes nothing but where it is in its drain.
LEMMA WalkKeeps ==
  ASSUME BrokerInv, NEW b \in Brokers, UNCHANGED <<file, generation, incidents, world>>,
         Walk(b), pc'[b] # "sending"
  PROVE  BrokerInv'
<1>1. /\ UNCHANGED <<spool, deliveries, deadLetters, deferred, nextSequence, wakeCooldowns>>
      /\ UNCHANGED <<generation, incidents, air, landed, sent>>
  BY DEF file, world
<1>2. WorldTypes' /\ Restarts' /\ wakeCooldowns' \in SUBSET Recipients
  BY <1>1, WorldStays, Parts
<1> QED
  BY <1>1, <1>2, QuietKeeps

LEMMA ListsKeeps ==
  ASSUME BrokerInv, NEW b \in Brokers, NEW drained, Lists(b, drained)
  PROVE  BrokerInv'
<1>1. Walk(b) /\ pc'[b] # "sending"
  BY Parts, ListsWalk
<1>2. UNCHANGED <<file, generation, incidents, world>>
  BY DEF Lists
<1> QED
  BY <1>1, <1>2, WalkKeeps

LEMMA SkipKeeps ==
  ASSUME BrokerInv, NEW b \in Brokers, Skip(b)
  PROVE  BrokerInv'
<1>1. /\ pc[b] = "draining" /\ GoesOn(b, FALSE)
      /\ UNCHANGED <<at, directory, generation>> /\ UNCHANGED <<file, generation, incidents, world>>
  BY DEF Skip
<1>2. Walk(b) /\ pc'[b] # "sending"
  BY <1>1, Parts, GoesOnWalk DEF Busy
<1> QED
  BY <1>1, <1>2, WalkKeeps

LEMMA WakeAnsweredKeeps ==
  ASSUME BrokerInv, NEW b \in Brokers, NEW executed \in BOOLEAN, WakeAnswered(b, executed)
  PROVE  BrokerInv'
<1>1. /\ pc[b] = "waking" /\ UNCHANGED <<at, directory, generation>>
      /\ UNCHANGED <<file, generation, incidents, world>>
      /\ \/ pc' = [pc EXCEPT ![b] = "awake"] /\ UNCHANGED <<scope, entries, blocked>>
         \/ GoesOn(b, FALSE)
  BY DEF WakeAnswered, drainVars
<1>2. CASE GoesOn(b, FALSE)
  <2>1. Walk(b) /\ pc'[b] # "sending"
    BY <1>1, <1>2, Parts, GoesOnWalk DEF Busy
  <2> QED
    BY <1>1, <2>1, WalkKeeps
<1>3. CASE pc' = [pc EXCEPT ![b] = "awake"] /\ UNCHANGED <<scope, entries, blocked>>
  <2>1. directory' \in [Brokers -> SUBSET Recipients] /\ scope' \in [Brokers -> Recipients \cup {Nobody}]
    BY <1>1, <1>3, Parts DEF BrokerTypes
  <2>2. Walk(b) /\ pc'[b] = "awake"
    BY <1>1, <1>3, <2>1, Parts, MovesWalk DEF Busy
  <2> QED
    BY <1>1, <2>2, WalkKeeps
<1> QED
  BY <1>1, <1>2, <1>3

LEMMA RequestWakeKeeps ==
  ASSUME BrokerInv, NEW b \in Brokers, RequestWake(b)
  PROVE  BrokerInv'
<1> DEFINE to == To_(Head(entries[b]))
<1>1. /\ pc[b] = "draining" /\ UNCHANGED <<at, directory, generation, world>>
      /\ \/ /\ wakeCooldowns' = wakeCooldowns \cup {to}
            /\ pc' = [pc EXCEPT ![b] = "waking"]
            /\ incidents < MaxIncidents /\ incidents' = incidents + 1
            /\ UNCHANGED <<spool, deliveries, deadLetters, deferred, nextSequence, drainVars>>
         \/ MutationFails(b)
  BY DEF RequestWake
<1>2. CASE MutationFails(b)
  BY <1>1, <1>2, MutationFailsKeeps
<1>3. CASE /\ wakeCooldowns' = wakeCooldowns \cup {to}
           /\ pc' = [pc EXCEPT ![b] = "waking"]
           /\ incidents < MaxIncidents /\ incidents' = incidents + 1
           /\ UNCHANGED <<spool, deliveries, deadLetters, deferred, nextSequence, drainVars>>
  <2>1. /\ UNCHANGED <<scope, entries, blocked>> /\ UNCHANGED <<air, landed, sent>>
        /\ UNCHANGED <<spool, deliveries, deadLetters, deferred, nextSequence, sent>>
    BY <1>1, <1>3 DEF drainVars, world
  <2>2. directory' \in [Brokers -> SUBSET Recipients] /\ scope' \in [Brokers -> Recipients \cup {Nobody}]
    BY <1>1, <2>1, Parts DEF BrokerTypes
  <2>3. Walk(b) /\ pc'[b] = "waking"
    BY <1>1, <1>3, <2>1, <2>2, Parts, MovesWalk DEF Busy
  <2>4. WorldTypes' /\ Restarts'
    BY <1>1, <1>3, <2>1, WorldCounts
  <2>5. wakeCooldowns' \in SUBSET Recipients
    BY <1>1, <1>3, Parts DEF Busy
  <2> QED
    BY <2>1, <2>3, <2>4, <2>5, QuietKeeps
<1> QED
  BY <1>1, <1>2, <1>3

\* A step that touches no broker, no message and no row of the spool.
LEMMA StillKeeps ==
  ASSUME BrokerInv, UNCHANGED <<spool, pc, at, directory, drainVars, generation, sent>>,
         FileOK', WorldTypes', Restarts'
  PROVE  BrokerInv'
<1>1. UNCHANGED <<spool, pc, at, directory, scope, entries, blocked, generation, sent>>
  BY DEF drainVars
<1>2. BrokerTypes' /\ Drains'
  BY <1>1 DEF BrokerInv, BrokerTypes, Drains
<1>3. SentOnce'
  BY <1>1 DEF BrokerInv, SentOnce, Remembers
<1>4. \A b \in Brokers : OwnedOne(b)'
  <2> SUFFICES ASSUME NEW b \in Brokers PROVE OwnedOne(b)'
    OBVIOUS
  <2>1. OwnedOne(b)
    BY DEF BrokerInv
  <2> QED
    BY <1>1, <2>1 DEF OwnedOne, Owned, ClaimOf
<1> QED
  BY <1>2, <1>3, <1>4 DEF BrokerInv

LEMMA CooldownEndsKeeps ==
  ASSUME BrokerInv, NEW to, CooldownEnds(to)
  PROVE  BrokerInv'
<1>1. /\ wakeCooldowns' = wakeCooldowns \ {to}
      /\ UNCHANGED <<spool, deliveries, deadLetters, deferred, nextSequence>>
      /\ UNCHANGED <<generation, incidents, air, landed, sent>>
      /\ UNCHANGED <<spool, pc, at, directory, drainVars, generation, sent>>
  BY DEF CooldownEnds, world
<1>2. FileOK'
  BY <1>1, FileUnchanged, Parts
<1>3. WorldTypes' /\ Restarts'
  BY <1>1, WorldStays
<1> QED
  BY <1>1, <1>2, <1>3, StillKeeps

LEMMA LandsKeeps ==
  ASSUME BrokerInv, NEW s, Lands(s)
  PROVE  BrokerInv'
<1>1. /\ s \in air /\ air' = air \ {s} /\ landed' = landed \cup {s}
      /\ UNCHANGED <<spool, deliveries, deadLetters, deferred, nextSequence, wakeCooldowns>>
      /\ UNCHANGED <<generation, incidents, sent>>
      /\ UNCHANGED <<spool, pc, at, directory, drainVars, generation, sent>>
  BY DEF Lands, file
<1>2. wakeCooldowns' \in SUBSET Recipients
  BY <1>1, Parts
<1>3. FileOK'
  BY <1>1, <1>2, FileUnchanged, Parts
<1>4. WorldTypes' /\ Restarts'
  BY <1>1 DEF BrokerInv, WorldTypes, Restarts
<1> QED
  BY <1>1, <1>3, <1>4, StillKeeps

LEMMA DropKeeps ==
  ASSUME BrokerInv, NEW b \in Brokers, Drop(b)
  PROVE  BrokerInv'
<1>1. /\ pc' = [pc EXCEPT ![b] = "closed"] /\ directory' = [directory EXCEPT ![b] = {}]
      /\ UNCHANGED <<at, scope, entries, blocked>> /\ UNCHANGED <<file, generation, incidents, world>>
  BY DEF Drop, drainVars
<1>2. directory' \in [Brokers -> SUBSET Recipients] /\ scope' \in [Brokers -> Recipients \cup {Nobody}]
  BY <1>1, Parts DEF BrokerTypes
<1>3. Walk(b) /\ pc'[b] = "closed"
  BY <1>1, <1>2, Parts, MovesWalk DEF Busy
<1> QED
  BY <1>1, <1>3, WalkKeeps
-----------------------------------------------------------------------------
(* Steps that replace a row of the spool *)

\* A step of b that puts x in the place of the row of its id.
LEMMA ReplacingKeeps ==
  ASSUME BrokerInv, NEW b \in Brokers, NEW old \in Range(spool), NEW x \in Entries,
         x.id = old.id, x.sequence = old.sequence, ~(x.uncertain /\ x.claim # NoClaim),
         spool' = WithEntry(x),
         UNCHANGED <<deliveries, deadLetters, deferred, nextSequence, wakeCooldowns, sent>>,
         x = old \/ \A c \in Brokers \ {b} : pc[c] = "sending" => ~Owned(c, old),
         Walk(b), WorldTypes', Restarts',
         pc'[b] = "sending" => x.id = Head(entries'[b]).id /\ x.claim = ClaimOf(b)'
  PROVE  BrokerInv'
<1>1. FileOK' /\ Range(spool') = (Range(spool) \ {old}) \cup {x}
  BY FileReplaced, Parts
<1>2. Descends /\ Stands(b)
  BY <1>1, SpoolReplaced
<1>3. OwnedOne(b)'
  <2>1. x \in Range(spool')
    BY <1>1
  <2>2. pc'[b] = "sending" => \E e \in Range(spool') : e.id = Head(entries'[b]).id /\ e.claim = ClaimOf(b)'
    BY <2>1
  <2> QED
    BY <2>2 DEF OwnedOne, Owned
<1> QED
  BY <1>1, <1>2, <1>3, StepKeeps

LEMMA AttemptingIs ==
  ASSUME BrokerInv, NEW b \in Brokers, Attempting(b)
  PROVE  pc[b] \in Busy /\ Head(entries[b]) \in Snapshots
BY Parts DEF Attempting, Busy

LEMMA ReserveKeeps ==
  ASSUME BrokerInv, NEW b \in Brokers, Reserve(b)
  PROVE  BrokerInv'
<1> DEFINE id == Head(entries[b]).id
           e == EntryOf(id)
           x == [e EXCEPT !.claim = ClaimOf(b)]
<1>1. /\ Attempting(b) /\ HasId(spool, id) /\ ~e.uncertain /\ e.claim = NoClaim
      /\ spool' = WithEntry(x) /\ pc' = [pc EXCEPT ![b] = "sending"] /\ air' = air \cup {e.sequence}
      /\ UNCHANGED <<deliveries, deadLetters, deferred, nextSequence, wakeCooldowns, sent>>
      /\ UNCHANGED <<at, directory, scope, entries, blocked, generation, incidents, landed>>
  BY DEF Reserve, drainVars
<1>2. e \in Range(spool) /\ e \in Entries /\ e.id = id
  BY <1>1, EntryIs, Parts
<1> HIDE DEF e, id
<1>3. ClaimOf(b) \in Claims
  BY ClaimsAre, Parts
<1>4. x \in Entries /\ x.id = e.id /\ x.sequence = e.sequence /\ ~x.uncertain /\ x.claim = ClaimOf(b)
  BY <1>1, <1>2, <1>3 DEF Entries
<1>5. \A c \in Brokers \ {b} : ~Owned(c, e)
  BY <1>1, NobodyElses
<1>6. directory' \in [Brokers -> SUBSET Recipients] /\ scope' \in [Brokers -> Recipients \cup {Nobody}]
  BY <1>1, Parts DEF BrokerTypes
<1>7. Walk(b)
  <2>1. pc[b] \in Busy /\ "sending" \in Busy
    BY <1>1, AttemptingIs DEF Busy
  <2> QED
    BY <1>1, <1>6, <2>1, Parts, MovesWalk
<1>8. WorldTypes' /\ Restarts'
  <2>1. e.sequence \in Sequences
    BY <1>2 DEF Entries
  <2> QED
    BY <1>1, <2>1 DEF BrokerInv, WorldTypes, Restarts
<1>9. x.id = Head(entries'[b]).id /\ x.claim = ClaimOf(b)'
  BY <1>1, <1>2, <1>4 DEF id, ClaimOf
<1> HIDE DEF x
<1> QED
  BY <1>1, <1>2, <1>4, <1>5, <1>7, <1>8, <1>9, ReplacingKeeps

LEMMA ReserveRefusedKeeps ==
  ASSUME BrokerInv, NEW b \in Brokers, NEW blind, ReserveRefused(b, blind)
  PROVE  BrokerInv'
<1> DEFINE id == Head(entries[b]).id
           e == EntryOf(id)
           x == Reconciled(b, e, blind)
<1>1. /\ Attempting(b)
      /\ spool' = IF HasId(spool, id) THEN WithEntry(x) ELSE spool
      /\ GoesOn(b, ~HasId(spool, id) /\ HasId(deliveries, id))
      /\ UNCHANGED <<deliveries, deadLetters, deferred, nextSequence, wakeCooldowns, sent>>
      /\ UNCHANGED <<at, directory, generation>> /\ UNCHANGED <<generation, incidents, air, landed, sent>>
  BY DEF ReserveRefused, world
<1>2. Walk(b) /\ pc'[b] # "sending"
  <2>1. pc[b] \in Busy /\ (~HasId(spool, id) /\ HasId(deliveries, id)) \in BOOLEAN
    BY <1>1, AttemptingIs
  <2> QED
    BY <1>1, <2>1, Parts, GoesOnWalk
<1>3. WorldTypes' /\ Restarts'
  BY <1>1, WorldStays
<1>4. CASE ~HasId(spool, id)
  <2>1. wakeCooldowns' \in SUBSET Recipients
    BY <1>1, Parts
  <2>2. UNCHANGED <<spool, deliveries, deadLetters, deferred, nextSequence, sent>>
    BY <1>1, <1>4
  <2> QED
    BY <1>2, <1>3, <2>1, <2>2, QuietKeeps
<1>5. CASE HasId(spool, id)
  <2>1. e \in Range(spool) /\ e \in Entries
    BY <1>5, EntryIs, Parts
  <2>2. ~(e.uncertain /\ e.claim # NoClaim)
    BY <2>1, RowsAre, Parts
  <2> HIDE DEF e
  <2>3. x \in Entries /\ x.id = e.id /\ x.sequence = e.sequence /\ ~(x.uncertain /\ x.claim # NoClaim)
    BY <2>1, <2>2, ReconciledIs
  <2>4. \A c \in Brokers : pc[c] = "sending" /\ Owned(c, e) => x = e
    BY <2>1, LiveClaimStays
  <2>5. spool' = WithEntry(x)
    BY <1>1, <1>5
  <2> HIDE DEF x
  <2>6. x = e \/ \A c \in Brokers \ {b} : pc[c] = "sending" => ~Owned(c, e)
    BY <2>4
  <2> QED
    BY <1>1, <1>2, <1>3, <2>1, <2>3, <2>5, <2>6, ReplacingKeeps
<1> QED
  BY <1>4, <1>5

\* The row at which a broker is sending.
LEMMA CurrentIs ==
  ASSUME BrokerInv, NEW b \in Brokers, Sending(b), OwnsIt(b)
  PROVE  /\ Current(b) \in Range(spool) /\ Current(b) \in Entries /\ Current(b).claim = ClaimOf(b)
         /\ ~Current(b).uncertain
         /\ pc[b] \in Busy /\ \A c \in Brokers \ {b} : ~Owned(c, Current(b))
         /\ Current(b).id = Head(entries[b]).id
<1>1. /\ Current(b) \in Range(spool) /\ Current(b) \in Entries
      /\ Current(b).claim = ClaimOf(b) /\ Current(b).id = Head(entries[b]).id
  BY EntryIs, Parts DEF OwnsIt, Current
<1>2. ~Current(b).uncertain
  BY <1>1, RowsAre, ClaimsAre, Parts
<1>3. \A c \in Brokers \ {b} : ~Owned(c, Current(b))
  BY <1>1, NobodyElses
<1> QED
  BY <1>1, <1>2, <1>3 DEF Sending, Busy

LEMMA NotDeliveredKeeps ==
  ASSUME BrokerInv, NEW b \in Brokers, NotDelivered(b)
  PROVE  BrokerInv'
<1> DEFINE x == [Current(b) EXCEPT !.claim = NoClaim]
<1>1. /\ Sending(b) /\ OwnsIt(b) /\ air' = air \ {Current(b).sequence} /\ spool' = WithEntry(x)
      /\ GoesOn(b, FALSE)
      /\ UNCHANGED <<deliveries, deadLetters, deferred, nextSequence, wakeCooldowns, sent>>
      /\ UNCHANGED <<at, directory, generation>> /\ UNCHANGED <<generation, incidents, landed, sent>>
  BY DEF NotDelivered
<1>2. /\ Current(b) \in Range(spool) /\ Current(b) \in Entries /\ pc[b] \in Busy
      /\ \A c \in Brokers \ {b} : ~Owned(c, Current(b))
  BY <1>1, CurrentIs
<1>3. /\ x \in Entries /\ x.id = Current(b).id /\ x.sequence = Current(b).sequence
      /\ ~(x.uncertain /\ x.claim # NoClaim)
  BY <1>2 DEF Entries
<1>4. Walk(b) /\ pc'[b] # "sending"
  BY <1>1, <1>2, Parts, GoesOnWalk
<1>5. WorldTypes' /\ Restarts'
  BY <1>1 DEF BrokerInv, WorldTypes, Restarts
<1> HIDE DEF x
<1> QED
  BY <1>1, <1>2, <1>3, <1>4, <1>5, ReplacingKeeps

LEMMA UnsureKeeps ==
  ASSUME BrokerInv, NEW b \in Brokers, Unsure(b)
  PROVE  BrokerInv'
<1> DEFINE x == Abandoned(Current(b))
<1>1. /\ Sending(b) /\ OwnsIt(b) /\ spool' = WithEntry(x) /\ GoesOn(b, FALSE)
      /\ UNCHANGED <<deliveries, deadLetters, deferred, nextSequence, wakeCooldowns, sent>>
      /\ UNCHANGED <<at, directory, generation>> /\ UNCHANGED <<generation, incidents, air, landed, sent>>
  BY DEF Unsure, world
<1>2. /\ Current(b) \in Range(spool) /\ Current(b) \in Entries /\ pc[b] \in Busy
      /\ \A c \in Brokers \ {b} : ~Owned(c, Current(b))
  BY <1>1, CurrentIs
<1>3. /\ x \in Entries /\ x.id = Current(b).id /\ x.sequence = Current(b).sequence
      /\ ~(x.uncertain /\ x.claim # NoClaim)
  BY <1>2, AbandonedIs
<1>4. Walk(b) /\ pc'[b] # "sending"
  BY <1>1, <1>2, Parts, GoesOnWalk
<1>5. WorldTypes' /\ Restarts'
  BY <1>1, WorldStays
<1> HIDE DEF x
<1> QED
  BY <1>1, <1>2, <1>3, <1>4, <1>5, ReplacingKeeps
-----------------------------------------------------------------------------
(* Steps that move messages between the logs *)

LEMMA DeliveredKeeps ==
  ASSUME BrokerInv, NEW b \in Brokers, Delivered(b)
  PROVE  BrokerInv'
<1> DEFINE e == Current(b)
           r == [id |-> e.id, confirmed |-> FALSE]
           d == [sequence |-> e.sequence, id |-> e.id, waiting |-> TRUE]
           R == Range(deliveries) \cup {r}
           S == {x \in Range(spool) : x.id # e.id}
<1>1. /\ Sending(b) /\ OwnsIt(b) /\ spool' = Without(spool, e.id)
      /\ deliveries' = Trim(Append(deliveries, r), DeliveryRetention)
      /\ deferred' \in {deferred, deferred \cup {d}}
      /\ GoesOn(b, TRUE)
      /\ UNCHANGED <<deadLetters, nextSequence, wakeCooldowns>>
      /\ UNCHANGED <<at, directory, generation>> /\ UNCHANGED <<generation, incidents, air, landed, sent>>
  BY DEF Delivered, world
<1>2. /\ e \in Range(spool) /\ e \in Entries /\ pc[b] \in Busy /\ e.claim = ClaimOf(b)
  BY <1>1, CurrentIs
<1> HIDE DEF e
<1>3. r \in Receipts /\ r.id = e.id /\ ~r.confirmed
  BY <1>2 DEF Receipts, Entries
<1>4. d \in Deferrals /\ d.id = e.id /\ d.sequence = e.sequence
  BY <1>2 DEF Deferrals, Entries
<1> HIDE DEF r, d
<1>5. /\ spool' \in Seq(Entries) /\ Range(spool') = S /\ Distinct(spool')
  BY <1>1, WithoutRows, Parts DEF FileOK
<1>6. Valid(Range(spool), Range(deadLetters), deferred, Range(deliveries), nextSequence)
  BY RowsAre, Parts
<1>7. /\ deliveries' \in Seq(Receipts) /\ Len(deliveries') <= DeliveryRetention
      /\ Range(deliveries') \subseteq R /\ Distinct(deliveries')
  <2>1. deliveries \in Seq(Receipts) /\ Distinct(deliveries) /\ DeliveryRetention \in Nat \ {0}
    BY FileParts, Parts DEF FileOK
  <2>2. r \notin Range(deliveries)
    BY <1>2, <1>3, <1>6 DEF Valid
  <2>3. /\ Append(deliveries, r) \in Seq(Receipts) /\ Range(Append(deliveries, r)) = R
        /\ Distinct(Append(deliveries, r))
    BY <1>3, <2>1, <2>2, AppendedRows
  <2> QED
    BY <1>1, <2>1, <2>3, TrimmedRows
<1>8. Valid(S, Range(deadLetters), deferred', R, nextSequence)
  <2>1. deferred' = deferred \/ deferred' = deferred \cup {d}
    BY <1>1
  <2>2. /\ Valid({x \in Range(spool) : x.id # e.id}, Range(deadLetters), deferred,
                 Range(deliveries) \cup {r}, nextSequence)
        /\ Valid({x \in Range(spool) : x.id # e.id}, Range(deadLetters), deferred \cup {d},
                 Range(deliveries) \cup {r}, nextSequence)
    BY <1>2, <1>3, <1>4, <1>6, DeliveredIsValid
  <2> QED
    BY <2>1, <2>2
<1>9. Valid(Range(spool'), Range(deadLetters), deferred', Range(deliveries'), nextSequence)
  BY <1>5, <1>7, <1>8, FewerAreValid
<1>10. FileOK'
  <2>1. FileTypes /\ Distinct(deadLetters)
    BY Parts DEF FileOK
  <2>2. deferred' \subseteq Deferrals
    BY <1>1, <1>4, <2>1 DEF FileTypes
  <2>3. FileTypes'
    BY <1>1, <1>5, <1>7, <2>1, <2>2 DEF FileTypes
  <2> QED
    BY <1>1, <1>5, <1>7, <1>9, <2>1, <2>3 DEF FileOK, Distinct
<1>11. Descends
  BY <1>1, <1>5 DEF Descends
<1>12. Stands(b)
  <2> SUFFICES ASSUME NEW c \in Brokers \ {b}, pc[c] = "sending", NEW y \in Range(spool), Owned(c, y)
               PROVE  y.id # e.id
    BY <1>5 DEF Stands
  <2>1. ~Owned(c, e)
    BY <1>2, NobodyElses
  <2> QED
    BY <1>2, <2>1, RowsAre, Parts
<1>13. Walk(b) /\ pc'[b] # "sending"
  BY <1>1, <1>2, Parts, GoesOnWalk
<1>14. WorldTypes' /\ Restarts'
  BY <1>1, WorldStays
<1>15. OwnedOne(b)'
  BY <1>13 DEF OwnedOne
<1> QED
  BY <1>10, <1>11, <1>12, <1>13, <1>14, <1>15, StepKeeps

LEMMA SendKeeps ==
  ASSUME BrokerInv, NEW b \in Brokers, NEW id \in Ids, Send(b, id)
  PROVE  BrokerInv'
<1> DEFINE x == [sequence |-> nextSequence, id |-> id, uncertain |-> FALSE, claim |-> NoClaim]
<1>1. /\ pc[b] = "idle" /\ pc' = [pc EXCEPT ![b] = "listing"] /\ scope' = [scope EXCEPT ![b] = To[id]]
      /\ UNCHANGED <<at, directory, entries, blocked, generation>>
      /\ UNCHANGED <<generation, incidents, air, landed>>
      /\ UNCHANGED <<deliveries, deadLetters, deferred, wakeCooldowns>>
      /\ Enqueue(b, id)
  BY DEF Send, Enqueue
<1>2. \/ UNCHANGED <<spool, nextSequence, sent>>
      \/ /\ ~HasId(deadLetters, id) /\ ~HasId(deliveries, id) /\ Pending(id) = {} /\ ~HasId(spool, id)
         /\ id \notin sent /\ nextSequence <= MaxSequence
         /\ spool' = Append(spool, x) /\ nextSequence' = nextSequence + 1 /\ sent' = sent \cup {id}
  BY <1>1 DEF Enqueue
<1>3. Walk(b) /\ pc'[b] = "listing"
  <2>1. /\ directory' \in [Brokers -> SUBSET Recipients] /\ scope' \in [Brokers -> Recipients \cup {Nobody}]
    BY <1>1, Parts, RecipientsOf DEF BrokerTypes
  <2> QED
    BY <1>1, <2>1, Parts, MovesWalk DEF Busy
<1>4. CASE UNCHANGED <<spool, nextSequence, sent>>
  <2>1. UNCHANGED <<spool, deliveries, deadLetters, deferred, nextSequence, sent>>
    BY <1>1, <1>4
  <2>2. wakeCooldowns' \in SUBSET Recipients
    BY <1>1, Parts
  <2>3. WorldTypes' /\ Restarts'
    BY <1>1, <1>4, WorldStays
  <2> QED
    BY <1>3, <2>1, <2>2, <2>3, QuietKeeps
<1>5. CASE /\ ~HasId(deadLetters, id) /\ ~HasId(deliveries, id) /\ Pending(id) = {} /\ ~HasId(spool, id)
           /\ id \notin sent /\ nextSequence <= MaxSequence
           /\ spool' = Append(spool, x) /\ nextSequence' = nextSequence + 1 /\ sent' = sent \cup {id}
  <2>1. nextSequence \in 1..MaxSequence /\ nextSequence \in Nat /\ MaxSequence \in Nat
    BY <1>5, FileParts, Parts
  <2>2. x \in Entries /\ x.id = id /\ x.sequence = nextSequence /\ x.claim = NoClaim
    BY <2>1 DEF Entries, Sequences
  <2> HIDE DEF x
  <2>3. \A y \in Range(spool) \cup Range(deadLetters) \cup deferred \cup Range(deliveries) : y.id # x.id
    <3>1. \A y \in deferred : y.id # x.id
      BY <1>5, <2>2 DEF Pending
    <3>2. \A y \in Range(spool) \cup Range(deadLetters) \cup Range(deliveries) : y.id # x.id
      BY <1>5, <2>2, HasIdIs
    <3> QED
      BY <3>1, <3>2
  <2>4. /\ spool' \in Seq(Entries) /\ Range(spool') = Range(spool) \cup {x} /\ Distinct(spool')
    <3>1. x \notin Range(spool) /\ spool \in Seq(Entries) /\ Distinct(spool)
      BY <2>3, Parts DEF FileOK
    <3> QED
      BY <1>5, <2>2, <3>1, AppendedRows
  <2>5. Valid(Range(spool'), Range(deadLetters), deferred, Range(deliveries), nextSequence + 1)
    <3>1. /\ Valid(Range(spool), Range(deadLetters), deferred, Range(deliveries), nextSequence)
          /\ \A y \in Range(spool) \cup Range(deadLetters) \cup deferred : y.sequence \in Nat
      BY RowsAre, Parts
    <3>2. Valid(Range(spool) \cup {x}, Range(deadLetters), deferred, Range(deliveries), nextSequence + 1)
      BY <2>1, <2>2, <2>3, <3>1, AcceptedIsValid
    <3> QED
      BY <2>4, <3>2
  <2>6. FileOK'
    <3>1. FileTypes /\ Distinct(deadLetters) /\ Distinct(deliveries)
      BY Parts DEF FileOK
    <3>2. nextSequence' \in 1..(MaxSequence + 1)
      BY <1>5, <2>1
    <3>3. FileTypes'
      BY <1>1, <2>4, <3>1, <3>2 DEF FileTypes
    <3> QED
      BY <1>1, <1>5, <2>4, <2>5, <3>1, <3>3 DEF FileOK, Distinct
  <2>7. Descends
    <3>1. x.id \in sent' \ sent
      BY <1>5, <2>2
    <3> QED
      BY <1>5, <2>4, <3>1 DEF Descends
  <2>8. Stands(b) /\ OwnedOne(b)'
    BY <1>3, <2>4 DEF Stands, OwnedOne
  <2>9. WorldTypes' /\ Restarts'
    BY <1>1, <1>5 DEF BrokerInv, WorldTypes, Restarts
  <2> QED
    BY <1>3, <2>6, <2>7, <2>8, <2>9, StepKeeps
<1> QED
  BY <1>2, <1>4, <1>5
LEMMA HostCallIs ==
  ASSUME BrokerInv, NEW b, NEW id, HostCall(b, id)
  PROVE  /\ UNCHANGED <<spool, pc, at, directory, drainVars, generation, sent>>
         /\ UNCHANGED <<spool, wakeCooldowns>>
         /\ WorldTypes' /\ Restarts'
         /\ \A y \in Range(deadLetters) : y.id # id
         /\ (\E r \in Range(deliveries) : r.id = id) \/ \E d \in deferred : d.id = id
<1>1. UNCHANGED <<spool, wakeCooldowns, pc, at, directory, drainVars, generation, incidents,
                  air, landed, sent>>
  BY DEF HostCall, world
<1>2. WorldTypes' /\ Restarts'
  BY <1>1, WorldStays
<1>3. \A y \in Range(deadLetters) : y.id # id
  BY HasIdIs DEF HostCall
<1>4. (\E r \in Range(deliveries) : r.id = id) \/ \E d \in deferred : d.id = id
  BY HasIdIs DEF HostCall, Remembered, Pending
<1> QED
  BY <1>1, <1>2, <1>3, <1>4

LEMMA DeadLetterKeeps ==
  ASSUME BrokerInv, NEW b, NEW id \in Ids, DeadLetter(b, id)
  PROVE  BrokerInv'
<1> DEFINE x == [sequence |-> nextSequence, id |-> id, uncertain |-> FALSE, claim |-> NoClaim]
           D == {d \in deferred : d.id # id}
           R == {r \in Range(deliveries) : r.id # id}
<1>1. /\ HostCall(b, id) /\ nextSequence <= MaxSequence
      /\ deliveries' = Without(deliveries, id) /\ deferred' = D
      /\ deadLetters' = Trim(Append(deadLetters, x), DeadLetterRetention)
      /\ nextSequence' = nextSequence + 1
  BY DEF DeadLetter, Pending
<1>2. /\ UNCHANGED <<spool, pc, at, directory, drainVars, generation, sent>>
      /\ UNCHANGED <<spool, wakeCooldowns>> /\ WorldTypes' /\ Restarts'
      /\ \A y \in Range(deadLetters) : y.id # id
      /\ (\E r \in Range(deliveries) : r.id = id) \/ \E d \in deferred : d.id = id
  BY <1>1, HostCallIs
<1>3. /\ nextSequence \in 1..MaxSequence /\ nextSequence \in Nat /\ MaxSequence \in Nat
      /\ deliveries \in Seq(Receipts) /\ deadLetters \in Seq(Entries)
      /\ DeadLetterRetention \in Nat \ {0} /\ Distinct(deliveries) /\ Distinct(deadLetters)
      /\ Distinct(spool) /\ FileTypes
  BY <1>1, FileParts, Parts DEF FileOK
<1>4. x \in Entries /\ x.id = id /\ x.sequence = nextSequence /\ x.claim = NoClaim
  BY <1>3 DEF Entries, Sequences
<1> HIDE DEF x
<1>5. /\ deliveries' \in Seq(Receipts) /\ Range(deliveries') = R /\ Distinct(deliveries')
      /\ Len(deliveries') <= DeliveryRetention
  <2>1. /\ Without(deliveries, id) \in Seq(Receipts) /\ Len(Without(deliveries, id)) <= Len(deliveries)
        /\ Range(Without(deliveries, id)) = R /\ Distinct(Without(deliveries, id))
    BY <1>3, WithoutRows
  <2>2. Len(deliveries) <= DeliveryRetention /\ DeliveryRetention \in Nat
    BY <1>3, BrokerAssumption DEF FileTypes
  <2>3. Len(Without(deliveries, id)) \in Nat /\ Len(deliveries) \in Nat
    BY <1>3, <2>1, LenProperties
  <2> QED
    BY <1>1, <2>1, <2>2, <2>3
<1>6. /\ deadLetters' \in Seq(Entries) /\ Len(deadLetters') <= DeadLetterRetention
      /\ Range(deadLetters') \subseteq Range(deadLetters) \cup {x} /\ Distinct(deadLetters')
  <2>1. x \notin Range(deadLetters)
    BY <1>2, <1>4
  <2>2. /\ Append(deadLetters, x) \in Seq(Entries)
        /\ Range(Append(deadLetters, x)) = Range(deadLetters) \cup {x}
        /\ Distinct(Append(deadLetters, x))
    BY <1>3, <1>4, <2>1, AppendedRows
  <2> QED
    BY <1>1, <1>3, <2>2, TrimmedRows
<1>7. Valid(Range(spool), Range(deadLetters) \cup {x}, deferred', R, nextSequence')
  <2>1. /\ Valid(Range(spool), Range(deadLetters), deferred, Range(deliveries), nextSequence)
        /\ \A y \in Range(spool) \cup Range(deadLetters) \cup deferred : y.sequence \in Nat
    BY RowsAre, Parts
  <2>2. Valid(Range(spool), Range(deadLetters) \cup {x}, {d \in deferred : d.id # x.id},
              {r \in Range(deliveries) : r.id # x.id}, nextSequence + 1)
    BY <1>2, <1>3, <1>4, <2>1, DiscardedIsValid
  <2> QED
    BY <1>1, <1>4, <2>2
<1>8. Valid(Range(spool'), Range(deadLetters'), deferred', Range(deliveries'), nextSequence')
  <2>1. Valid(Range(spool), Range(deadLetters'), deferred', R, nextSequence')
    BY <1>6, <1>7, FewerAreValid
  <2> QED
    BY <1>2, <1>5, <2>1
<1>9. FileOK'
  <2>1. nextSequence' \in 1..(MaxSequence + 1) /\ deferred' \subseteq Deferrals
    BY <1>1, <1>3 DEF FileTypes
  <2>2. FileTypes'
    BY <1>2, <1>3, <1>5, <1>6, <2>1 DEF FileTypes
  <2> QED
    BY <1>2, <1>3, <1>5, <1>6, <1>8, <2>2 DEF FileOK, Distinct
<1> QED
  BY <1>2, <1>9, StillKeeps

LEMMA DeferDeliveryKeeps ==
  ASSUME BrokerInv, NEW b, NEW id \in Ids, DeferDelivery(b, id)
  PROVE  BrokerInv'
<1> DEFINE P == Pending(id)
           D == (deferred \ P) \cup {[d EXCEPT !.waiting = FALSE] : d \in P}
           n == [sequence |-> nextSequence, id |-> id, waiting |-> FALSE]
<1>1. /\ HostCall(b, id) /\ ~Confirmed(id) /\ deliveries' = deliveries /\ deadLetters' = deadLetters
      /\ \/ P # {} /\ deferred' = D /\ nextSequence' = nextSequence
         \/ /\ P = {} /\ nextSequence <= MaxSequence
            /\ deferred' = deferred \cup {n} /\ nextSequence' = nextSequence + 1
  BY DEF DeferDelivery
<1>2. /\ UNCHANGED <<spool, pc, at, directory, drainVars, generation, sent>>
      /\ UNCHANGED <<spool, wakeCooldowns>> /\ WorldTypes' /\ Restarts'
      /\ \A y \in Range(deadLetters) : y.id # id
      /\ (\E r \in Range(deliveries) : r.id = id) \/ \E d \in deferred : d.id = id
  BY <1>1, HostCallIs
<1>3. /\ FileTypes /\ Distinct(spool) /\ Distinct(deadLetters) /\ Distinct(deliveries)
      /\ deferred \subseteq Deferrals /\ nextSequence \in Nat /\ MaxSequence \in Nat
      /\ nextSequence \in 1..(MaxSequence + 1)
  BY FileParts, Parts DEF FileOK
<1>4. /\ Valid(Range(spool), Range(deadLetters), deferred, Range(deliveries), nextSequence)
      /\ \A y \in Range(spool) \cup Range(deadLetters) \cup deferred : y.sequence \in Nat
  BY RowsAre, Parts
<1>5. ASSUME deferred' \subseteq Deferrals, nextSequence' \in 1..(MaxSequence + 1),
             Valid(Range(spool), Range(deadLetters), deferred', Range(deliveries), nextSequence')
      PROVE  BrokerInv'
  <2>1. FileTypes'
    BY <1>1, <1>2, <1>3, <1>5 DEF FileTypes
  <2>2. FileOK'
    BY <1>1, <1>2, <1>3, <1>5, <2>1 DEF FileOK, Distinct
  <2> QED
    BY <1>2, <2>2, StillKeeps
<1>6. CASE P # {} /\ deferred' = D /\ nextSequence' = nextSequence
  <2>1. \A d \in deferred : /\ [d EXCEPT !.waiting = FALSE] \in Deferrals
                            /\ [d EXCEPT !.waiting = FALSE].id = d.id
                            /\ [d EXCEPT !.waiting = FALSE].sequence = d.sequence
    BY <1>3 DEF Deferrals
  <2>2. P = {d \in deferred : d.id = id}
    BY DEF Pending
  <2> HIDE DEF P
  <2>3. \A y \in D : y \in Deferrals /\ \E d \in deferred : y.id = d.id /\ y.sequence = d.sequence
    BY <1>3, <2>1, <2>2
  <2>4. Alone(deferred)
    BY <1>4, Zenon DEF Valid
  <2>5. \A p, q \in P : p = q
    BY <2>2, <2>4 DEF Alone
  <2>6. Alone(D)
    <3> SUFFICES ASSUME NEW y \in D, NEW z \in D, y.id = z.id \/ y.sequence = z.sequence PROVE y = z
      BY DEF Alone
    <3>1. ASSUME NEW w \in D
          PROVE  \E u \in deferred : /\ w.id = u.id /\ w.sequence = u.sequence
                                     /\ \/ w = u /\ u \notin P
                                        \/ u \in P /\ w = [u EXCEPT !.waiting = FALSE]
      <4>1. CASE w \in deferred \ P
        BY <4>1
      <4>2. CASE w \in {[d EXCEPT !.waiting = FALSE] : d \in P}
        <5>1. PICK d \in P : w = [d EXCEPT !.waiting = FALSE]
          BY <4>2
        <5>2. d \in deferred /\ w.id = d.id /\ w.sequence = d.sequence
          BY <2>1, <2>2, <5>1
        <5> QED
          BY <5>1, <5>2
      <4> QED
        BY <4>1, <4>2
    <3>2. PICK u \in deferred : /\ y.id = u.id /\ y.sequence = u.sequence
                                /\ \/ y = u /\ u \notin P
                                   \/ u \in P /\ y = [u EXCEPT !.waiting = FALSE]
      BY <3>1, Zenon
    <3>3. PICK v \in deferred : /\ z.id = v.id /\ z.sequence = v.sequence
                                /\ \/ z = v /\ v \notin P
                                   \/ v \in P /\ z = [v EXCEPT !.waiting = FALSE]
      BY <3>1, Zenon
    <3>4. u = v
      BY <2>4, <3>2, <3>3 DEF Alone
    <3> QED
      BY <3>2, <3>3, <3>4
  <2> HIDE DEF D
  <2>7. Valid(Range(spool), Range(deadLetters), D, Range(deliveries), nextSequence)
    BY <1>4, <2>3, <2>6, RedoneIsValid
  <2> QED
    BY <1>3, <1>5, <1>6, <2>3, <2>7
<1>7. CASE /\ P = {} /\ nextSequence <= MaxSequence
           /\ deferred' = deferred \cup {n} /\ nextSequence' = nextSequence + 1
  <2>1. nextSequence \in Sequences /\ nextSequence' \in 1..(MaxSequence + 1)
    BY <1>3, <1>7 DEF Sequences
  <2>2. n \in Deferrals /\ n.sequence = nextSequence /\ n.id = id
    BY <2>1 DEF Deferrals
  <2> HIDE DEF n
  <2>3. \A d \in deferred : d.id # id
    BY <1>7 DEF Pending
  <2>4. \A r \in Range(deliveries) : r.id = id => ~r.confirmed
    BY <1>1 DEF Confirmed, Range
  <2>5. Valid(Range(spool), Range(deadLetters), deferred \cup {n}, Range(deliveries), nextSequence + 1)
    BY <1>2, <1>3, <1>4, <2>2, <2>3, <2>4, DeferredIsValid
  <2> QED
    BY <1>3, <1>5, <1>7, <2>1, <2>2, <2>5
<1> QED
  BY <1>1, <1>6, <1>7

LEMMA AcknowledgeKeeps ==
  ASSUME BrokerInv, NEW b, NEW id \in Ids, Acknowledge(b, id)
  PROVE  BrokerInv'
<1> DEFINE c == [id |-> id, confirmed |-> TRUE]
           R == {r \in Range(deliveries) : r.id # id} \cup {c}
           m == [k \in DOMAIN deliveries |-> IF deliveries[k].id = id THEN c ELSE deliveries[k]]
<1>1. /\ HostCall(b, id) /\ deadLetters' = deadLetters /\ nextSequence' = nextSequence
      /\ deferred' = {d \in deferred : d.id # id}
      /\ deliveries' = IF HasId(deliveries, id) THEN m
                       ELSE Trim(Append(deliveries, c), DeliveryRetention)
  BY DEF Acknowledge, Pending
<1>2. /\ UNCHANGED <<spool, pc, at, directory, drainVars, generation, sent>>
      /\ UNCHANGED <<spool, wakeCooldowns>> /\ WorldTypes' /\ Restarts'
      /\ \A y \in Range(deadLetters) : y.id # id
      /\ (\E r \in Range(deliveries) : r.id = id) \/ \E d \in deferred : d.id = id
  BY <1>1, HostCallIs
<1>3. /\ FileTypes /\ Distinct(spool) /\ Distinct(deadLetters) /\ Distinct(deliveries)
      /\ deferred \subseteq Deferrals /\ deliveries \in Seq(Receipts) /\ DeliveryRetention \in Nat \ {0}
  BY FileParts, Parts DEF FileOK
<1>4. Valid(Range(spool), Range(deadLetters), deferred, Range(deliveries), nextSequence)
  BY RowsAre, Parts
<1>5. c \in Receipts /\ c.id = id
  BY DEF Receipts
<1>6. \A r, q \in Range(deliveries) : r.id = q.id => r = q
  BY <1>4, Zenon DEF Valid
<1>7. /\ deliveries' \in Seq(Receipts) /\ Len(deliveries') <= DeliveryRetention
      /\ Range(deliveries') \subseteq R /\ Distinct(deliveries')
  <2>1. CASE ~HasId(deliveries, id)
    <3>1. \A r \in Range(deliveries) : r.id # id
      BY <2>1, HasIdIs
    <3>2. /\ Append(deliveries, c) \in Seq(Receipts) /\ Distinct(Append(deliveries, c))
          /\ Range(Append(deliveries, c)) = Range(deliveries) \cup {c}
      <4>1. c \notin Range(deliveries)
        BY <1>5, <3>1
      <4> HIDE DEF c
      <4> QED
        BY <1>3, <1>5, <4>1, AppendedRows
    <3>3. Range(Append(deliveries, c)) \subseteq R
      BY <3>1, <3>2
    <3> HIDE DEF c, R
    <3> QED
      BY <1>1, <1>3, <2>1, <3>2, <3>3, TrimmedRows
  <2>2. CASE HasId(deliveries, id)
    <3>1. /\ deliveries' = m /\ DOMAIN deliveries = 1..Len(deliveries) /\ Len(deliveries) \in Nat
          /\ \A k \in 1..Len(deliveries) : deliveries[k] \in Receipts
          /\ Len(deliveries) <= DeliveryRetention
      BY <1>1, <1>3, <2>2, LenProperties DEF FileTypes
    <3> HIDE DEF c
    <3>2. m \in Seq(Receipts) /\ Len(m) = Len(deliveries)
      BY <1>5, <3>1
    <3>3. DOMAIN m = DOMAIN deliveries
      OBVIOUS
    <3>4. \A k \in DOMAIN deliveries : m[k] = IF deliveries[k].id = id THEN c ELSE deliveries[k]
      OBVIOUS
    <3> HIDE DEF m
    <3>5. Range(m) \subseteq R
      BY <3>3, <3>4 DEF Range
    <3>6. Distinct(m)
      <4> SUFFICES ASSUME NEW i \in DOMAIN deliveries, NEW j \in DOMAIN deliveries, m[i] = m[j] PROVE i = j
        BY <3>3 DEF Distinct
      <4>1. deliveries[i].id = deliveries[j].id
        BY <1>5, <3>4
      <4>2. deliveries[i] = deliveries[j]
        BY <1>6, <4>1 DEF Range
      <4> QED
        BY <1>3, <4>2 DEF Distinct
    <3> QED
      BY <3>1, <3>2, <3>5, <3>6
  <2> QED
    BY <2>1, <2>2
<1>8. Valid(Range(spool), Range(deadLetters), deferred', R, nextSequence)
  <2> HIDE DEF c
  <2>1. Valid(Range(spool), Range(deadLetters), {d \in deferred : d.id # c.id},
              {r \in Range(deliveries) : r.id # c.id} \cup {c}, nextSequence)
    BY <1>2, <1>4, <1>5, ConfirmedIsValid
  <2> QED
    BY <1>1, <1>5, <2>1
<1> HIDE DEF c, R, m
<1>9. Valid(Range(spool), Range(deadLetters), deferred', Range(deliveries'), nextSequence)
  BY <1>7, <1>8, FewerAreValid
<1>10. FileTypes'
  <2>1. deferred' \subseteq Deferrals
    BY <1>1, <1>3
  <2> QED
    BY <1>1, <1>2, <1>3, <1>7, <2>1 DEF FileTypes
<1>11. FileOK'
  BY <1>1, <1>2, <1>3, <1>7, <1>9, <1>10 DEF FileOK, Distinct
<1> QED
  BY <1>2, <1>11, StillKeeps
\* The sweep of a broker that opens: every row is reconciled, and one that is
\* of nobody in the roster and of no live attempt is given up.
LEMMA OpenKeeps ==
  ASSUME BrokerInv, NEW b \in Brokers, NEW known \in SUBSET Recipients, NEW blind, Open(b, known, blind)
  PROVE  BrokerInv'
<1> DEFINE Row(e) == Reconciled(b, e, blind)
           swept == [k \in DOMAIN spool |-> Row(spool[k])]
           undelivered == {k \in DOMAIN spool : ~HasId(deliveries, spool[k].id)}
           kept == {k \in undelivered : swept[k].claim # NoClaim \/ To_(spool[k]) \in known}
           gone == undelivered \ kept
           M == Range(swept)
           A == {swept[i] : i \in kept}
           B == {swept[i] : i \in gone}
<1>1. /\ pc' = [pc EXCEPT ![b] = "idle"] /\ directory' = [directory EXCEPT ![b] = known]
      /\ spool' = Subsequence(swept, kept)
      /\ deadLetters' = Trim(deadLetters \o Subsequence(swept, gone), DeadLetterRetention)
      /\ deliveries' = Trim(deliveries, DeliveryRetention)
      /\ UNCHANGED <<deferred, nextSequence, wakeCooldowns>>
      /\ UNCHANGED <<at, scope, entries, blocked, generation>>
      /\ UNCHANGED <<generation, incidents, air, landed, sent>>
  BY DEF Open, drainVars, world
<1>2. /\ spool \in Seq(Entries) /\ deadLetters \in Seq(Entries) /\ deliveries \in Seq(Receipts)
      /\ DeliveryRetention \in Nat \ {0} /\ DeadLetterRetention \in Nat \ {0}
      /\ Distinct(spool) /\ Distinct(deadLetters) /\ Distinct(deliveries) /\ FileTypes
  BY FileParts, Parts DEF FileOK
<1>3. /\ Valid(Range(spool), Range(deadLetters), deferred, Range(deliveries), nextSequence)
      /\ \A x \in Range(spool) : x \in Entries /\ ~(x.uncertain /\ x.claim # NoClaim)
      /\ \A x, y \in Range(spool) : x.id = y.id \/ x.sequence = y.sequence => x = y
  BY RowsAre, Parts
<1>4. \A x \in Range(spool) : /\ Row(x) \in Entries /\ Row(x).id = x.id /\ Row(x).sequence = x.sequence
                              /\ ~(Row(x).uncertain /\ Row(x).claim # NoClaim)
  BY <1>3, ReconciledIs
<1>5. /\ DOMAIN swept = DOMAIN spool
      /\ \A k \in DOMAIN spool : spool[k] \in Range(spool) /\ swept[k] = Row(spool[k])
  BY DEF Range
<1> HIDE DEF Row
<1>6. swept \in Seq(Entries) /\ DOMAIN swept = DOMAIN spool
  <2>1. DOMAIN spool = 1..Len(spool) /\ Len(spool) \in Nat
    BY <1>2, LenProperties
  <2>2. \A k \in 1..Len(spool) : Row(spool[k]) \in Entries
    BY <1>4, <1>5, <2>1
  <2>3. swept = [k \in 1..Len(spool) |-> Row(spool[k])]
    BY <2>1
  <2> HIDE DEF swept
  <2>4. swept \in Seq(Entries)
    BY <2>1, <2>2, <2>3
  <2> QED
    BY <1>5, <2>4
<1> HIDE DEF swept
<1>7. \A y \in M : \E x \in Range(spool) : y = Row(x)
  BY <1>5 DEF Range
<1>8. Alone(M)
  <2> SUFFICES ASSUME NEW y \in M, NEW z \in M, y.id = z.id \/ y.sequence = z.sequence PROVE y = z
    BY DEF Alone
  <2>1. PICK u \in Range(spool) : y = Row(u)
    BY <1>7
  <2>2. PICK v \in Range(spool) : z = Row(v)
    BY <1>7
  <2>3. u = v
    BY <1>3, <1>4, <2>1, <2>2
  <2> QED
    BY <2>1, <2>2, <2>3
<1>9. Distinct(swept)
  <2> SUFFICES ASSUME NEW i \in DOMAIN spool, NEW j \in DOMAIN spool, swept[i] = swept[j] PROVE i = j
    BY <1>6 DEF Distinct
  <2>1. spool[i] = spool[j]
    BY <1>3, <1>4, <1>5
  <2> QED
    BY <1>2, <2>1 DEF Distinct
<1>10. Valid(M, Range(deadLetters), deferred, Range(deliveries), nextSequence)
  <2>1. \A y \in M : \E x \in Range(spool) : y.id = x.id /\ y.sequence = x.sequence
    BY <1>4, <1>7
  <2>2. \A y \in M : ~(y.uncertain /\ y.claim # NoClaim)
    BY <1>4, <1>7
  <2> QED
    BY <1>3, <1>8, <2>1, <2>2, MappedIsValid
<1>11. /\ kept \in SUBSET DOMAIN swept /\ gone \in SUBSET DOMAIN swept /\ kept \cap gone = {}
  BY <1>6
<1>12. /\ spool' \in Seq(Entries) /\ Range(spool') = A /\ Distinct(spool')
  BY <1>1, <1>6, <1>9, <1>11, FilteredRows
<1>13. /\ Subsequence(swept, gone) \in Seq(Entries) /\ Range(Subsequence(swept, gone)) = B
       /\ Distinct(Subsequence(swept, gone))
  BY <1>6, <1>9, <1>11, FilteredRows
<1>14. A \in SUBSET M /\ B \in SUBSET M /\ A \cap B = {}
  BY <1>6, <1>9, <1>11 DEF Range, Distinct
<1> HIDE DEF kept, gone, A, B, M
<1>15. Valid(A, Range(deadLetters) \cup B, deferred, Range(deliveries), nextSequence)
  BY <1>10, <1>14, SplitIsValid
<1>16. /\ deadLetters' \in Seq(Entries) /\ Len(deadLetters') <= DeadLetterRetention
       /\ Range(deadLetters') \subseteq Range(deadLetters) \cup B /\ Distinct(deadLetters')
  <2>1. Range(deadLetters) \cap B = {}
    BY <1>10, <1>14 DEF Valid, Apart
  <2>2. /\ deadLetters \o Subsequence(swept, gone) \in Seq(Entries)
        /\ Range(deadLetters \o Subsequence(swept, gone)) = Range(deadLetters) \cup B
        /\ Distinct(deadLetters \o Subsequence(swept, gone))
    BY <1>2, <1>13, <2>1, JoinedRows
  <2> QED
    BY <1>1, <1>2, <2>2, TrimmedRows
<1>17. /\ deliveries' \in Seq(Receipts) /\ Len(deliveries') <= DeliveryRetention
       /\ Range(deliveries') \subseteq Range(deliveries) /\ Distinct(deliveries')
  BY <1>1, <1>2, TrimmedRows
<1>18. FileOK'
  <2>1. Valid(Range(spool'), Range(deadLetters'), deferred, Range(deliveries'), nextSequence)
    BY <1>12, <1>15, <1>16, <1>17, FewerAreValid
  <2>2. FileTypes'
    BY <1>1, <1>2, <1>12, <1>16, <1>17 DEF FileTypes
  <2> QED
    BY <1>1, <1>12, <1>16, <1>17, <2>1, <2>2 DEF FileOK
<1>19. Descends
  <2>1. \A y \in M : \E x \in Range(spool) : y.id = x.id /\ y.sequence = x.sequence
    BY <1>4, <1>7
  <2> QED
    BY <1>1, <1>12, <1>14, <2>1 DEF Descends
<1>20. Stands(b)
  <2> SUFFICES ASSUME NEW c \in Brokers \ {b}, pc[c] = "sending", NEW e \in Range(spool), Owned(c, e)
               PROVE  e \in A
    BY <1>12 DEF Stands
  <2>1. Row(e) = e /\ e.claim # NoClaim
    BY LiveClaimStays DEF Row
  <2>2. PICK k \in DOMAIN spool : spool[k] = e
    BY DEF Range
  <2>3. ~HasId(deliveries, e.id)
    <3>1. \A r \in Range(deliveries) : r.id # e.id
      BY <1>3 DEF Valid
    <3> QED
      BY <3>1, HasIdIs
  <2>4. swept[k] = e
    BY <1>5, <2>1, <2>2
  <2>5. k \in kept
    BY <2>1, <2>2, <2>3, <2>4 DEF kept
  <2> QED
    BY <2>4, <2>5 DEF A
<1>21. Walk(b) /\ pc'[b] = "idle"
  <2>1. directory' \in [Brokers -> SUBSET Recipients] /\ scope' \in [Brokers -> Recipients \cup {Nobody}]
    BY <1>1, Parts DEF BrokerTypes
  <2> QED
    BY <1>1, <2>1, Parts, MovesWalk DEF Busy
<1>22. WorldTypes' /\ Restarts'
  BY <1>1, WorldStays
<1>23. OwnedOne(b)'
  BY <1>21 DEF OwnedOne
<1> QED
  BY <1>18, <1>19, <1>20, <1>21, <1>22, <1>23, StepKeeps

-----------------------------------------------------------------------------
(* A process dies *)

LEMMA CrashKeeps ==
  ASSUME BrokerInv, NEW p \in Procs, Crash(p)
  PROVE  BrokerInv'
<1>1. /\ incidents < MaxIncidents /\ incidents' = incidents + 1
      /\ generation' = [generation EXCEPT ![p] = generation[p] + 1]
      /\ pc' = [b \in Brokers |-> IF at[b] = p THEN "closed" ELSE pc[b]]
      /\ directory' = [b \in Brokers |-> IF at[b] = p THEN {} ELSE directory[b]]
      /\ scope' = [b \in Brokers |-> IF at[b] = p THEN Nobody ELSE scope[b]]
      /\ entries' = [b \in Brokers |-> IF at[b] = p THEN <<>> ELSE entries[b]]
      /\ blocked' = [b \in Brokers |-> IF at[b] = p THEN {} ELSE blocked[b]]
      /\ UNCHANGED <<spool, deliveries, deadLetters, deferred, nextSequence, wakeCooldowns>>
      /\ UNCHANGED <<at, air, landed, sent>>
  <2> DEFINE dead == {b \in Brokers : at[b] = p}
  <2>1. \A b \in Brokers : b \in dead <=> at[b] = p
    OBVIOUS
  <2>2. /\ pc' = [b \in Brokers |-> IF b \in dead THEN "closed" ELSE pc[b]]
        /\ directory' = [b \in Brokers |-> IF b \in dead THEN {} ELSE directory[b]]
        /\ scope' = [b \in Brokers |-> IF b \in dead THEN Nobody ELSE scope[b]]
        /\ entries' = [b \in Brokers |-> IF b \in dead THEN <<>> ELSE entries[b]]
        /\ blocked' = [b \in Brokers |-> IF b \in dead THEN {} ELSE blocked[b]]
    BY DEF Crash
  <2> HIDE DEF dead
  <2>3. /\ pc' = [b \in Brokers |-> IF at[b] = p THEN "closed" ELSE pc[b]]
        /\ directory' = [b \in Brokers |-> IF at[b] = p THEN {} ELSE directory[b]]
        /\ scope' = [b \in Brokers |-> IF at[b] = p THEN Nobody ELSE scope[b]]
        /\ entries' = [b \in Brokers |-> IF at[b] = p THEN <<>> ELSE entries[b]]
        /\ blocked' = [b \in Brokers |-> IF at[b] = p THEN {} ELSE blocked[b]]
    BY <2>1, <2>2
  <2>4. /\ incidents < MaxIncidents /\ incidents' = incidents + 1
        /\ generation' = [generation EXCEPT ![p] = generation[p] + 1]
        /\ UNCHANGED <<spool, deliveries, deadLetters, deferred, nextSequence, wakeCooldowns>>
        /\ UNCHANGED <<at, air, landed, sent>>
    BY DEF Crash, file, world
  <2> QED
    BY <2>3, <2>4
<1>2. \A b \in Brokers : \/ pc'[b] = "closed" /\ entries'[b] = <<>>
                         \/ /\ pc'[b] = pc[b] /\ entries'[b] = entries[b]
                            /\ at[b] # p
  BY <1>1
<1>3. FileOK'
  <2>1. wakeCooldowns' \in SUBSET Recipients
    BY <1>1, Parts
  <2> QED
    BY <1>1, <2>1, FileUnchanged, Parts
<1>4. BrokerTypes'
  <2>1. BrokerTypes
    BY Parts
  <2>2. <<>> \in Seq(Snapshots) /\ {} \in SUBSET Recipients
    OBVIOUS
  <2>3. \A b \in Brokers :
          /\ entries[b] \in Seq(Snapshots) /\ blocked[b] \in SUBSET Recipients
          /\ directory[b] \in SUBSET Recipients /\ scope[b] \in Recipients \cup {Nobody}
          /\ pc[b] \in {"closed", "idle", "listing", "draining", "waking", "awake", "sending"}
    BY <2>1 DEF BrokerTypes
  <2>4. entries' \in [Brokers -> Seq(Snapshots)]
    BY <1>1, <2>2, <2>3
  <2>5. directory' \in [Brokers -> SUBSET Recipients] /\ blocked' \in [Brokers -> SUBSET Recipients]
    BY <1>1, <2>2, <2>3
  <2>6. /\ scope' \in [Brokers -> Recipients \cup {Nobody}]
        /\ pc' \in [Brokers -> {"closed", "idle", "listing", "draining", "waking", "awake", "sending"}]
    BY <1>1, <2>3
  <2>7. at' \in [Brokers -> Procs]
    BY <1>1, <2>1 DEF BrokerTypes
  <2> QED
    BY <2>4, <2>5, <2>6, <2>7 DEF BrokerTypes
<1>5. WorldTypes' /\ Restarts'
  <2>1. /\ \A q \in Procs : generation[q] \in Nat /\ generation[q] <= incidents
        /\ incidents \in Nat /\ MaxIncidents \in Nat /\ generation \in [Procs -> 0..MaxIncidents]
        /\ air \subseteq Sequences /\ landed \subseteq Sequences /\ sent \subseteq Ids
    BY Parts, BrokerAssumption DEF WorldTypes, Restarts
  <2>2. \A q \in Procs : generation'[q] \in Nat /\ generation'[q] <= incidents' /\ incidents' <= MaxIncidents
    BY <1>1, <2>1
  <2>3. generation' \in [Procs -> 0..MaxIncidents]
    BY <1>1, <2>1, <2>2
  <2>4. incidents' \in 0..MaxIncidents
    BY <1>1, <2>1
  <2> QED
    BY <1>1, <2>1, <2>2, <2>3, <2>4 DEF WorldTypes, Restarts
<1>6. Drains'
  <2>1. Drains
    BY Parts
  <2> QED
    BY <1>2, <2>1 DEF Drains, Busy
<1>7. SentOnce'
  <2>1. SentOnce /\ Range(<<>>) = {}
    BY Parts DEF Range
  <2>2. \A b \in Brokers : Range(entries'[b]) \subseteq Range(entries[b])
    BY <1>2, <2>1
  <2> QED
    BY <1>1, <2>1, <2>2 DEF SentOnce, Remembers
<1>8. ASSUME NEW b \in Brokers PROVE OwnedOne(b)'
  <2>1. OwnedOne(b) /\ at[b] \in Procs /\ generation \in [Procs -> 0..MaxIncidents]
    BY Parts DEF BrokerInv, BrokerTypes, WorldTypes
  <2>2. CASE pc'[b] = "closed"
    BY <2>2 DEF OwnedOne
  <2>3. CASE pc'[b] = pc[b] /\ entries'[b] = entries[b] /\ at[b] # p
    <3>1. generation'[at[b]] = generation[at[b]] /\ at'[b] = at[b]
      BY <1>1, <2>1, <2>3
    <3>2. ClaimOf(b)' = ClaimOf(b)
      BY <1>1, <3>1 DEF ClaimOf
    <3> QED
      BY <1>1, <2>1, <2>3, <3>2 DEF OwnedOne, Owned
  <2> QED
    BY <1>2, <2>2, <2>3
<1> QED
  BY <1>3, <1>4, <1>5, <1>6, <1>7, <1>8 DEF BrokerInv

-----------------------------------------------------------------------------
(* The invariant *)

LEMMA InitHolds == Init => BrokerInv
<1> SUFFICES ASSUME Init PROVE BrokerInv
  OBVIOUS
<1>1. Range(<<>>) = {}
  BY DEF Range
<1>2. FileOK
  <2>1. FileTypes
    BY BrokerAssumption, EmptySeq DEF Init, FileTypes
  <2>2. Distinct(<<>>)
    BY DEF Distinct
  <2>3. Valid({}, {}, {}, {}, nextSequence)
    BY DEF Valid, Alone, Apart
  <2> QED
    BY <1>1, <2>1, <2>2, <2>3 DEF Init, FileOK
<1>3. BrokerTypes
  <2>1. at \in [Brokers -> Procs]
    BY BrokerAssumption DEF Init
  <2>2. entries \in [Brokers -> Seq(Snapshots)]
    BY EmptySeq DEF Init
  <2> QED
    BY <2>1, <2>2 DEF Init, BrokerTypes
<1>4. WorldTypes /\ Restarts
  BY BrokerAssumption DEF Init, WorldTypes, Restarts
<1>5. Drains /\ \A b \in Brokers : OwnedOne(b)
  BY DEF Init, Drains, Busy, OwnedOne
<1>6. SentOnce
  <2>1. \A b \in Brokers : entries[b] = <<>>
    BY DEF Init
  <2> QED
    BY <1>1, <2>1 DEF Init, SentOnce, Remembers
<1> QED
  BY <1>2, <1>3, <1>4, <1>5, <1>6 DEF BrokerInv

LEMMA StepsOfOne ==
  ASSUME BrokerInv, NEW b \in Brokers, Step(b)
  PROVE  BrokerInv'
<1>1. CASE List(b)
  BY <1>1, ListsKeeps DEF List
<1>2. CASE Skip(b)
  BY <1>2, SkipKeeps
<1>3. CASE RequestWake(b)
  BY <1>3, RequestWakeKeeps
<1>4. CASE Reserve(b)
  BY <1>4, ReserveKeeps
<1>5. CASE ReserveFails(b)
  BY <1>5, MutationFailsKeeps DEF ReserveFails
<1>6. CASE \E executed \in BOOLEAN : WakeAnswered(b, executed)
  BY <1>6, WakeAnsweredKeeps
<1>7. CASE \E blind \in SUBSET Procs : ReserveRefused(b, blind)
  BY <1>7, ReserveRefusedKeeps
<1>8. CASE Delivered(b)
  BY <1>8, DeliveredKeeps
<1>9. CASE NotDelivered(b)
  BY <1>9, NotDeliveredKeeps
<1>10. CASE Unsure(b)
  BY <1>10, UnsureKeeps
<1>11. CASE RecordFails(b)
  BY <1>11, MutationFailsKeeps DEF RecordFails
<1> QED
  BY <1>1, <1>2, <1>3, <1>4, <1>5, <1>6, <1>7, <1>8, <1>9, <1>10, <1>11, Zenon DEF Step

LEMMA StutterHolds == BrokerInv /\ UNCHANGED vars => BrokerInv'
<1> SUFFICES ASSUME BrokerInv, UNCHANGED vars PROVE BrokerInv'
  OBVIOUS
<1>1. /\ UNCHANGED <<spool, pc, at, directory, drainVars, generation, sent>>
      /\ UNCHANGED <<spool, deliveries, deadLetters, deferred, nextSequence, wakeCooldowns>>
      /\ UNCHANGED <<generation, incidents, air, landed, sent>>
  BY DEF vars, file, world, drainVars
<1>2. wakeCooldowns' \in SUBSET Recipients
  BY <1>1, Parts
<1>3. FileOK' /\ WorldTypes' /\ Restarts'
  BY <1>1, <1>2, FileUnchanged, WorldStays, Parts
<1> QED
  BY <1>1, <1>3, StillKeeps

LEMMA NextHolds == BrokerInv /\ [Next]_vars => BrokerInv'
<1> SUFFICES ASSUME BrokerInv, Next PROVE BrokerInv'
  BY StutterHolds
<1>1. ASSUME NEW b \in Brokers, Step(b) \/ Drain(b) \/ Drop(b) PROVE BrokerInv'
  BY <1>1, StepsOfOne, ListsKeeps, DropKeeps DEF Drain
<1>2. ASSUME NEW b \in Brokers, NEW known \in Rosters[b], NEW blind, Open(b, known, blind) PROVE BrokerInv'
  <2>1. known \in SUBSET Recipients
    BY BrokerAssumption
  <2> QED
    BY <1>2, <2>1, OpenKeeps
<1>3. ASSUME NEW b \in Brokers, NEW id \in Ids,
             \/ Send(b, id) \/ DeadLetter(b, id)
             \/ DeferDelivery(b, id) \/ Acknowledge(b, id)
      PROVE  BrokerInv'
  BY <1>3, SendKeeps, DeadLetterKeeps, DeferDeliveryKeeps, AcknowledgeKeeps
<1>4. ASSUME NEW s, Lands(s) PROVE BrokerInv'
  BY <1>4, LandsKeeps
<1>5. ASSUME NEW to, CooldownEnds(to) PROVE BrokerInv'
  BY <1>5, CooldownEndsKeeps
<1>6. ASSUME NEW p \in Procs, Crash(p) PROVE BrokerInv'
  BY <1>6, CrashKeeps
<1> QED
  BY <1>1, <1>2, <1>3, <1>4, <1>5, <1>6, Zenon DEF Next

\* What the operations of the brokers, their crashes and failed mutations keep.
THEOREM Invariant == Spec => []BrokerInv
BY InitHolds, NextHolds, PTL DEF Spec
-----------------------------------------------------------------------------
(* Results *)

LEMMA InvGivesTypes == BrokerInv => TypeOK
<1> SUFFICES ASSUME BrokerInv PROVE TypeOK
  OBVIOUS
<1>1. FileTypes /\ BrokerTypes /\ WorldTypes
  BY DEF BrokerInv, FileOK
<1> QED
  BY <1>1 DEF TypeOK, FileTypes, BrokerTypes, WorldTypes, Receipts, Deferrals, Snapshots

\* A log whose rows differ pairwise in id and sequence, each there once.
LEMMA Differ ==
  ASSUME NEW log, Distinct(log), Alone(Range(log))
  PROVE  \A i, j \in DOMAIN log : log[i].id = log[j].id \/ log[i].sequence = log[j].sequence => i = j
<1> SUFFICES ASSUME NEW i \in DOMAIN log, NEW j \in DOMAIN log,
                    log[i].id = log[j].id \/ log[i].sequence = log[j].sequence
             PROVE  i = j
  OBVIOUS
<1>1. log[i] = log[j]
  BY DEF Alone, Range
<1> QED
  BY <1>1 DEF Distinct

LEMMA InvGivesValid == BrokerInv => StoredStateValid
<1> SUFFICES ASSUME BrokerInv PROVE StoredStateValid
  OBVIOUS
<1> DEFINE IdsOf(log) == {e.id : e \in Range(log)}
           SequencesOf(log) == {e.sequence : e \in Range(log)}
           later == {d.id : d \in deferred}
           laterSequences == {d.sequence : d \in deferred}
<1>1. /\ Distinct(spool) /\ Distinct(deadLetters) /\ Distinct(deliveries)
      /\ Valid(Range(spool), Range(deadLetters), deferred, Range(deliveries), nextSequence)
  BY DEF BrokerInv, FileOK
<1>2. /\ \A i, j \in DOMAIN spool :
           spool[i].id = spool[j].id \/ spool[i].sequence = spool[j].sequence => i = j
      /\ \A i, j \in DOMAIN deadLetters :
           deadLetters[i].id = deadLetters[j].id \/ deadLetters[i].sequence = deadLetters[j].sequence => i = j
  BY <1>1, Differ DEF Valid
<1>3. \A d, other \in deferred : d.id = other.id \/ d.sequence = other.sequence => d = other
  BY <1>1 DEF Valid, Alone
<1>4. /\ IdsOf(spool) \cap IdsOf(deadLetters) = {} /\ SequencesOf(spool) \cap SequencesOf(deadLetters) = {}
      /\ later \cap IdsOf(spool) = {} /\ laterSequences \cap SequencesOf(spool) = {}
      /\ later \cap IdsOf(deadLetters) = {} /\ laterSequences \cap SequencesOf(deadLetters) = {}
  <2>1. Apart(Range(spool), Range(deadLetters)) /\ Apart(deferred, Range(spool))
        /\ Apart(deferred, Range(deadLetters))
    BY <1>1 DEF Valid
  <2> QED
    BY <2>1 DEF Apart
<1>5. \A i, j \in DOMAIN deliveries : deliveries[i].id = deliveries[j].id => i = j
  <2> SUFFICES ASSUME NEW i \in DOMAIN deliveries, NEW j \in DOMAIN deliveries,
                      deliveries[i].id = deliveries[j].id
               PROVE  i = j
    OBVIOUS
  <2>1. deliveries[i] = deliveries[j]
    BY <1>1 DEF Valid, Range
  <2> QED
    BY <1>1, <2>1 DEF Distinct
<1>6. \A k \in DOMAIN deliveries : /\ deliveries[k].id \notin IdsOf(deadLetters)
                                   /\ deliveries[k].confirmed => deliveries[k].id \notin later
  <2> SUFFICES ASSUME NEW k \in DOMAIN deliveries
               PROVE  /\ deliveries[k].id \notin IdsOf(deadLetters)
                      /\ deliveries[k].confirmed => deliveries[k].id \notin later
    OBVIOUS
  <2>1. deliveries[k] \in Range(deliveries)
    BY DEF Range
  <2>2. /\ \A x \in Range(deadLetters) : deliveries[k].id # x.id
        /\ deliveries[k].confirmed => \A d \in deferred : deliveries[k].id # d.id
    BY <1>1, <2>1 DEF Valid
  <2> QED
    BY <2>2
<1>7. \A s \in SequencesOf(spool) \cup SequencesOf(deadLetters) \cup laterSequences : s < nextSequence
  BY <1>1 DEF Valid
<1>8. \A e \in Range(spool) \cup Range(deadLetters) : ~(e.uncertain /\ e.claim # NoClaim)
  BY <1>1 DEF Valid
<1> QED
  BY <1>2, <1>3, <1>4, <1>5, <1>6, <1>7, <1>8 DEF StoredStateValid

LEMMA InvGivesClaims == BrokerInv => OwnClaimKept
<1> SUFFICES ASSUME BrokerInv, NEW b \in Brokers, Sending(b) PROVE OwnsIt(b)
  BY DEF OwnClaimKept
<1>1. PICK e \in Range(spool) : Owned(b, e)
  BY DEF BrokerInv, OwnedOne, Sending
<1>2. HasId(spool, Head(entries[b]).id)
  BY <1>1, HasIdIs DEF Owned
<1>3. e = Current(b)
  BY <1>1, <1>2, EntryIs, Parts DEF Owned, Current
<1> QED
  BY <1>1, <1>2, <1>3 DEF OwnsIt, Owned

\* The variables keep their kinds, and no log outgrows its retention.
THEOREM Types == Spec => []TypeOK
BY Invariant, InvGivesTypes, PTL

\* Every state the brokers write can be read again by all of them, and nobody
\* takes the claim of an attempt whose broker is alive: whatever brokers open,
\* close, fail to write or die meanwhile (validateStoredState, broker.js:526;
\* reconcileDeliveryClaim, broker.js:1036).
THEOREM KeepsFile == Spec => []FileKept
<1>1. BrokerInv => FileKept
  BY InvGivesValid, InvGivesClaims DEF FileKept
<1> QED
  BY Invariant, <1>1, PTL
-----------------------------------------------------------------------------
(* The queues of the recipients *)

\* The queue of a recipient in a spool, as the refinement mapping has it, and
\* the sequences of the rows it is made of.
Listed(s, r) ==
  LET mine == Subsequence(s, {k \in DOMAIN s : To_(s[k]) = r})
  IN [k \in DOMAIN mine |-> mine[k].sequence]
Queues(s) == [r \in Recipients |-> Listed(s, r)]
SequencesFor(rows, r) == {e.sequence : e \in {x \in rows : To_(x) = r}}
HeldNow == {d.sequence : d \in deferred}

Rising(q) == \A i, j \in DOMAIN q : i < j => q[i].sequence < q[j].sequence

LEMMA ListedIs ==
  ASSUME NEW s \in Seq(Entries), Rising(s), NEW r
  PROVE  /\ Listed(s, r) = Sorted(SequencesFor(Range(s), r))
         /\ SequencesFor(Range(s), r) \in SUBSET Sequences
         /\ Sequences = 1 .. MaxSequence /\ MaxSequence \in Nat
<1> DEFINE P == {k \in DOMAIN s : To_(s[k]) = r}
           n == Cardinality(P)
           A == SequencesFor(Range(s), r)
<1>1. PICK mine : mine = Subsequence(s, P)
  OBVIOUS
<1>2. /\ mine \in Seq(Entries) /\ Len(mine) = n /\ n \in Nat /\ DOMAIN mine = 1 .. n
      /\ \A j \in 1 .. n : Nth(P, j) \in P /\ mine[j] = s[Nth(P, j)]
      /\ \A i \in P : \E j \in 1 .. n : Nth(P, j) = i
      /\ \A j, k \in 1 .. n : j < k => Nth(P, j) < Nth(P, k)
  <2>1. P \in SUBSET DOMAIN s
    OBVIOUS
  <2> HIDE DEF P
  <2> QED
    BY <1>1, <2>1, SubsequenceElements
<1>3. PICK l : l = [k \in DOMAIN mine |-> mine[k].sequence]
  OBVIOUS
<1>4. MaxSequence \in Nat /\ Sequences = 1 .. MaxSequence
  BY BrokerAssumption DEF Sequences
<1>5. \A k \in 1 .. n : mine[k] \in Entries /\ mine[k].sequence \in Sequences
  <2>1. mine \in Seq(Entries) /\ Len(mine) = n
    BY <1>2
  <2> HIDE DEF n
  <2>2. \A k \in 1 .. n : mine[k] \in Entries
    BY <2>1
  <2> QED
    BY <2>2 DEF Entries
<1>6. l \in Seq(1 .. MaxSequence) /\ DOMAIN l = 1 .. n /\ \A k \in 1 .. n : l[k] = mine[k].sequence
  <2>1. DOMAIN mine = 1 .. n /\ n \in Nat
    BY <1>2
  <2> HIDE DEF n
  <2>2. l = [k \in 1 .. n |-> mine[k].sequence] /\ \A k \in 1 .. n : mine[k].sequence \in 1 .. MaxSequence
    BY <1>3, <1>4, <1>5, <2>1
  <2> QED
    BY <2>1, <2>2
<1>7. Ascending(l)
  <2> SUFFICES ASSUME NEW i \in 1 .. n, NEW j \in 1 .. n, i < j PROVE l[i] < l[j]
    BY <1>6 DEF Ascending
  <2>1. Nth(P, i) \in DOMAIN s /\ Nth(P, j) \in DOMAIN s /\ Nth(P, i) < Nth(P, j)
    BY <1>2
  <2> QED
    BY <1>2, <1>6, <2>1 DEF Rising
<1>8. \A k \in 1 .. n : l[k] \in A
  <2> SUFFICES ASSUME NEW k \in 1 .. n PROVE l[k] \in A
    OBVIOUS
  <2>1. Nth(P, k) \in P /\ l[k] = s[Nth(P, k)].sequence
    BY <1>2, <1>6
  <2>2. s[Nth(P, k)] \in Range(s) /\ To_(s[Nth(P, k)]) = r
    BY <2>1 DEF Range
  <2> QED
    BY <2>1, <2>2 DEF SequencesFor
<1>9. ASSUME NEW a \in A PROVE \E k \in 1 .. n : l[k] = a
  <2>1. PICK e \in Range(s) : To_(e) = r /\ a = e.sequence
    BY DEF SequencesFor
  <2>2. PICK i \in DOMAIN s : s[i] = e
    BY DEF Range
  <2>3. i \in P
    BY <2>1, <2>2
  <2> HIDE DEF P
  <2>4. PICK j \in 1 .. n : Nth(P, j) = i
    BY <1>2, <2>3
  <2>5. mine[j] = e
    BY <1>2, <2>2, <2>4
  <2> QED
    BY <1>6, <2>1, <2>5
<1> HIDE DEF P, A
<1>10. Members(l) = A
  BY <1>6, <1>8, <1>9 DEF Members
<1>11. l = Sorted(A)
  BY <1>4, <1>6, <1>7, <1>10, AscendingIsSorted
<1>12. A \in SUBSET Sequences
  <2>1. \A k \in 1 .. n : l[k] \in Sequences
    BY <1>5, <1>6
  <2> QED
    BY <1>9, <2>1
<1> QED
  BY <1>1, <1>3, <1>4, <1>11, <1>12 DEF Listed, P, A

\* What a step of the mailboxes is, in terms of the state file.
Said == <<Queues(spool), air, landed, HeldNow>>

LEMMA RefinedOperators ==
  /\ \A f : Mailboxes!Range(f) = Range(f)
  /\ \A q, p : Mailboxes!Subsequence(q, p) = Subsequence(q, p)
  /\ Mailboxes!vars = Said
<1>1. \A f : Mailboxes!Range(f) = Range(f)
  BY DEF Mailboxes!Range, Range
<1>2. \A p, i : Mailboxes!Rank(p, i) = Rank(p, i)
  <2>1. \A S : Mailboxes!Cardinality(S) = Cardinality(S)
    BY DEF Mailboxes!Cardinality, Cardinality
  <2> QED
    BY <2>1, Zenon DEF Mailboxes!Rank, Rank
<1>3. \A p, j : Mailboxes!Nth(p, j) = Nth(p, j)
  BY <1>2, Zenon DEF Mailboxes!Nth, Nth
<1>4. \A q, p : Mailboxes!Subsequence(q, p) = Subsequence(q, p)
  <2>1. \A S : Mailboxes!Cardinality(S) = Cardinality(S)
    BY DEF Mailboxes!Cardinality, Cardinality
  <2> QED
    BY <1>3, <2>1 DEF Mailboxes!Subsequence, Subsequence
<1>5. Mailboxes!vars = Said
  BY DEF Mailboxes!vars, Said, Queues, Listed, HeldNow
<1> QED
  BY <1>1, <1>4, <1>5

LEMMA QueuedIs == Mailboxes!Queued = UNION {Range(Queues(spool)[r]) : r \in Recipients}
BY RefinedOperators, Zenon DEF Mailboxes!Queued, Queues, Listed

LEMMA AcceptIs ==
  ASSUME NEW r \in Recipients, NEW s \in Sequences,
         s \notin Mailboxes!Queued \cup air \cup landed \cup HeldNow,
         Queues(spool') = [Queues(spool) EXCEPT ![r] = Append(@, s)],
         UNCHANGED <<air, landed, deferred>>
  PROVE  Mailboxes!Next
<1>1. Mailboxes!Accept(r, s)
  BY Zenon DEF Mailboxes!Accept, Queues, Listed, HeldNow
<1> QED
  BY <1>1, Zenon DEF Mailboxes!Next

LEMMA OfferIs ==
  ASSUME NEW r \in Recipients, Queues(spool)[r] # <<>>, Head(Queues(spool)[r]) \notin air \cup landed,
         air' = air \cup {Head(Queues(spool)[r])}, Queues(spool') = Queues(spool),
         UNCHANGED <<landed, deferred>>
  PROVE  Mailboxes!Next
<1>1. Mailboxes!Offer(r)
  BY Zenon DEF Mailboxes!Offer, Queues, Listed, HeldNow
<1> QED
  BY <1>1, Zenon DEF Mailboxes!Next

LEMMA LandIs ==
  ASSUME NEW s \in Sequences, s \in air, air' = air \ {s}, landed' = landed \cup {s},
         UNCHANGED <<spool, deferred>>
  PROVE  Mailboxes!Next
<1>1. Mailboxes!Land(s)
  BY Zenon DEF Mailboxes!Land, HeldNow
<1> QED
  BY <1>1, Zenon DEF Mailboxes!Next

LEMMA RefuseIs ==
  ASSUME NEW s \in Sequences, s \in air, air' = air \ {s}, Queues(spool') = Queues(spool),
         UNCHANGED <<landed, deferred>>
  PROVE  Mailboxes!Next
<1>1. Mailboxes!Refuse(s)
  BY Zenon DEF Mailboxes!Refuse, Queues, Listed, HeldNow
<1> QED
  BY <1>1, Zenon DEF Mailboxes!Next

LEMMA DeliverIs ==
  ASSUME NEW r \in Recipients, Queues(spool)[r] # <<>>, Head(Queues(spool)[r]) \in landed,
         Queues(spool') = [Queues(spool) EXCEPT ![r] = Tail(@)],
         HeldNow' \in {HeldNow, HeldNow \cup {Head(Queues(spool)[r])}},
         UNCHANGED <<air, landed>>
  PROVE  Mailboxes!Next
<1>1. Mailboxes!Deliver(r)
  BY Zenon DEF Mailboxes!Deliver, Queues, Listed, HeldNow
<1> QED
  BY <1>1, Zenon DEF Mailboxes!Next

LEMMA DiscardIs ==
  ASSUME NEW gone \in SUBSET Sequences,
         Queues(spool') =
           [r \in Recipients |->
             Subsequence(Queues(spool)[r], {k \in DOMAIN Queues(spool)[r] : Queues(spool)[r][k] \notin gone})],
         UNCHANGED <<air, landed, deferred>>
  PROVE  Mailboxes!Next
<1>1. Queues(spool') =
           [r \in Recipients |->
             Mailboxes!Subsequence(Queues(spool)[r],
                                   {k \in DOMAIN Queues(spool)[r] : Queues(spool)[r][k] \notin gone})]
  BY RefinedOperators, Zenon
<1>2. Mailboxes!Discard(gone)
  BY <1>1, Zenon DEF Mailboxes!Discard, Queues, Listed, HeldNow
<1> QED
  BY <1>2, Zenon DEF Mailboxes!Next

LEMMA HoldIs ==
  ASSUME NEW s \in Sequences, s \notin Mailboxes!Queued \cup air \cup landed \cup HeldNow,
         HeldNow' = HeldNow \cup {s}, UNCHANGED <<spool, air, landed>>
  PROVE  Mailboxes!Next
<1>1. Mailboxes!Hold(s)
  <2>1. Queues(spool') = Queues(spool)
    OBVIOUS
  <2> QED
    BY <2>1, Zenon DEF Mailboxes!Hold, Queues, Listed, HeldNow
<1> QED
  BY <1>1, Zenon DEF Mailboxes!Next

LEMMA SettleIs ==
  ASSUME NEW s \in Sequences, s \in HeldNow, HeldNow' = HeldNow \ {s}, UNCHANGED <<spool, air, landed>>
  PROVE  Mailboxes!Next
<1>1. Mailboxes!Settle(s)
  BY Zenon DEF Mailboxes!Settle, HeldNow
<1> QED
  BY <1>1, Zenon DEF Mailboxes!Next
-----------------------------------------------------------------------------
(* The order of deliveries.  The spool is in the order of its sequences; a   *)
(* drain remembers, in that order, every entry that is ahead of one it may   *)
(* still try; and an entry that may have been handed over is claimed or      *)
(* uncertain.                                                                *)

Ahead(b) ==
  \A x \in Range(entries[b]) : To_(x) \notin blocked[b] =>
    \A e \in Range(spool) : To_(e) = To_(x) /\ e.sequence < x.sequence =>
      \E y \in Range(entries[b]) : y.id = e.id
Unblocked(b) == pc[b] \in {"waking", "awake", "sending"} => To_(Head(entries[b])) \notin blocked[b]
Attempted == \A e \in Range(spool) : e.sequence \in air \cup landed => e.uncertain \/ e.claim # NoClaim
Fresh ==
  /\ \A s \in air \cup landed : s < nextSequence
  /\ \A b \in Brokers : \A x \in Range(entries[b]) : x.sequence < nextSequence

OrderInv ==
  /\ Rising(spool) /\ Fresh /\ Attempted
  /\ \A b \in Brokers : Rising(entries[b]) /\ Ahead(b) /\ Unblocked(b)

Younger ==
  /\ nextSequence <= nextSequence'
  /\ \A y \in Range(spool') :
       \/ \E x \in Range(spool) : y.id = x.id /\ y.sequence = x.sequence
       \/ y.sequence = nextSequence
OrderWalk(c) ==
  /\ \A b \in Brokers \ {c} : pc'[b] = pc[b] /\ entries'[b] = entries[b] /\ blocked'[b] = blocked[b]
  /\ Rising(entries'[c]) /\ Ahead(c)' /\ Unblocked(c)'
  /\ \A x \in Range(entries'[c]) : x.sequence < nextSequence

LEMMA ToIs == \A x, y : x.id = y.id => To_(x) = To_(y)
BY DEF To_

LEMMA Numbered ==
  ASSUME NEW q \in Seq(Snapshots)
  PROVE  \A x \in Range(q) : x.sequence \in Nat
<1>1. Range(q) \subseteq Snapshots
  BY RowsOf
<1> QED
  BY <1>1 DEF Snapshots, Sequences

\* What a drain knows that keeps its entries, and those of the recipients it
\* has not given up on, is still known.
LEMMA AheadKept ==
  ASSUME BrokerInv, OrderInv, Younger, NEW b \in Brokers,
         NEW kept \in SUBSET Range(entries[b]), NEW given, blocked[b] \subseteq given,
         \A x, y \in Range(entries[b]) :
           x \in kept /\ y \notin kept /\ To_(y) = To_(x) /\ To_(x) \notin given =>
             \A e \in Range(spool') : e.id # y.id
  PROVE  \A x \in kept : To_(x) \notin given =>
           \A e \in Range(spool') : To_(e) = To_(x) /\ e.sequence < x.sequence =>
             \E y \in kept : y.id = e.id
<1> SUFFICES ASSUME NEW x \in kept, To_(x) \notin given, NEW e \in Range(spool'),
                    To_(e) = To_(x), e.sequence < x.sequence
             PROVE  \E y \in kept : y.id = e.id
  OBVIOUS
<1>1. x \in Range(entries[b]) /\ To_(x) \notin blocked[b]
  OBVIOUS
<1>2. PICK o \in Range(spool) : e.id = o.id /\ e.sequence = o.sequence
  <2>1. x.sequence < nextSequence
    BY <1>1, Zenon DEF OrderInv, Fresh
  <2>2. nextSequence \in Nat /\ entries[b] \in Seq(Snapshots)
    BY DEF BrokerInv, FileOK, FileTypes, BrokerTypes
  <2>3. x.sequence \in Nat
    BY <1>1, <2>2, Numbered
  <2>4. e.sequence # nextSequence
    BY <2>1, <2>2, <2>3
  <2> QED
    BY <2>4, Zenon DEF Younger
<1>3. To_(o) = To_(x) /\ o.sequence < x.sequence
  BY <1>2, ToIs
<1>4. PICK y \in Range(entries[b]) : y.id = o.id
  BY <1>1, <1>3, ZenonT(60) DEF OrderInv, Ahead
<1>5. To_(y) = To_(x) /\ y.id = e.id
  BY <1>2, <1>4, ToIs
<1> QED
  BY <1>5

LEMMA OrderKeeps ==
  ASSUME BrokerInv, OrderInv, BrokerInv', NEW c \in Brokers, OrderWalk(c), Younger,
         Rising(spool'), Attempted', \A s \in air' \cup landed' : s < nextSequence'
  PROVE  OrderInv'
<1>1. nextSequence \in Nat /\ nextSequence' \in Nat
  BY DEF BrokerInv, FileOK, FileTypes
<1>2. \A b \in Brokers : \A x \in Range(entries[b]) : x.sequence \in Nat /\ x.sequence < nextSequence
  <2>1. \A b \in Brokers : \A x \in Range(entries[b]) : x.sequence \in Nat
    BY Numbered DEF BrokerInv, BrokerTypes
  <2> QED
    BY <2>1, Zenon DEF OrderInv, Fresh
<1>3. \A x \in Range(entries'[c]) : x.sequence \in Nat
  BY Numbered DEF BrokerInv, BrokerTypes
<1>4. Fresh'
  <2>1. ASSUME NEW b \in Brokers, NEW x \in Range(entries'[b]) PROVE x.sequence < nextSequence'
    <3>1. x.sequence \in Nat /\ x.sequence < nextSequence
      <4>1. CASE b = c
        BY <1>3, <2>1, <4>1, Zenon DEF OrderWalk
      <4>2. CASE b # c
        BY <1>2, <2>1, <4>2, Zenon DEF OrderWalk
      <4> QED
        BY <4>1, <4>2
    <3>2. nextSequence <= nextSequence'
      BY DEF Younger
    <3> QED
      BY <1>1, <3>1, <3>2
  <2> QED
    BY <2>1, Zenon DEF Fresh
<1>5. ASSUME NEW b \in Brokers PROVE Rising(entries'[b]) /\ Ahead(b)' /\ Unblocked(b)'
  <2>1. CASE b = c
    BY <2>1 DEF OrderWalk
  <2>2. CASE b # c
    <3>1. pc'[b] = pc[b] /\ entries'[b] = entries[b] /\ blocked'[b] = blocked[b]
      BY <2>2 DEF OrderWalk
    <3>2. Rising(entries[b]) /\ Unblocked(b)
      BY DEF OrderInv
    <3>3. Ahead(b)'
      <4>1. \A x \in Range(entries[b]) : To_(x) \notin blocked[b] =>
              \A e \in Range(spool') : To_(e) = To_(x) /\ e.sequence < x.sequence =>
                \E y \in Range(entries[b]) : y.id = e.id
        BY AheadKept
      <4> QED
        BY <3>1, <4>1, Zenon DEF Ahead, To_
    <3> QED
      BY <3>1, <3>2, <3>3 DEF Unblocked, To_
  <2> QED
    BY <2>1, <2>2
<1> QED
  BY <1>4, <1>5 DEF OrderInv

\* Nothing happens to the brokers.
LEMMA OrderStill ==
  ASSUME BrokerInv, OrderInv, BrokerInv', UNCHANGED <<pc, drainVars>>, Younger,
         Rising(spool'), Attempted', \A s \in air' \cup landed' : s < nextSequence'
  PROVE  OrderInv'
<1>1. UNCHANGED <<pc, scope, entries, blocked>>
  BY DEF drainVars
<1>2. ASSUME NEW c \in Brokers PROVE OrderWalk(c)
  <2>1. Ahead(c)'
    <3>1. \A x \in Range(entries[c]) : To_(x) \notin blocked[c] =>
            \A e \in Range(spool') : To_(e) = To_(x) /\ e.sequence < x.sequence =>
              \E y \in Range(entries[c]) : y.id = e.id
      BY AheadKept
    <3> QED
      BY <1>1, <3>1, Zenon DEF Ahead, To_
  <2>2. Rising(entries[c]) /\ Unblocked(c) /\ \A x \in Range(entries[c]) : x.sequence < nextSequence
    BY Zenon DEF OrderInv, Fresh
  <2> QED
    BY <1>1, <2>1, <2>2 DEF OrderWalk, Unblocked, To_
<1>3. CASE Brokers = {}
  BY <1>3 DEF OrderInv, Fresh
<1>4. CASE Brokers # {}
  <2>1. PICK c \in Brokers : TRUE
    BY <1>4
  <2> QED
    BY <1>2, OrderKeeps
<1> QED
  BY <1>3, <1>4

LEMMA EndsOrder ==
  ASSUME BrokerInv, OrderInv, NEW b \in Brokers, Ends(b)
  PROVE  OrderWalk(b)
<1>1. /\ pc'[b] = "idle" /\ entries'[b] = <<>>
      /\ \A c \in Brokers \ {b} : pc'[c] = pc[c] /\ entries'[c] = entries[c] /\ blocked'[c] = blocked[c]
  BY DEF Ends, BrokerInv, BrokerTypes
<1>2. Range(entries'[b]) = {} /\ DOMAIN entries'[b] = {}
  BY <1>1 DEF Range
<1> QED
  BY <1>1, <1>2 DEF OrderWalk, Rising, Ahead, Unblocked

LEMMA MovesOrder ==
  ASSUME BrokerInv, OrderInv, Younger, NEW b \in Brokers, NEW s,
         pc' = [pc EXCEPT ![b] = s], entries' = entries, blocked' = blocked,
         s \in {"waking", "awake", "sending"} => To_(Head(entries[b])) \notin blocked[b]
  PROVE  OrderWalk(b)
<1>1. pc'[b] = s /\ \A c \in Brokers \ {b} : pc'[c] = pc[c]
  BY DEF BrokerInv, BrokerTypes
<1>2. Ahead(b)'
  <2>1. \A x \in Range(entries[b]) : To_(x) \notin blocked[b] =>
          \A e \in Range(spool') : To_(e) = To_(x) /\ e.sequence < x.sequence =>
            \E y \in Range(entries[b]) : y.id = e.id
    BY AheadKept
  <2> QED
    BY <2>1, Zenon DEF Ahead, To_
<1>3. Rising(entries[b]) /\ \A x \in Range(entries[b]) : x.sequence < nextSequence
  BY Zenon DEF OrderInv, Fresh
<1> QED
  BY <1>1, <1>2, <1>3 DEF OrderWalk, Unblocked, To_

LEMMA RisingTail ==
  ASSUME NEW S, NEW q \in Seq(S), q # <<>>, Rising(q)
  PROVE  /\ Rising(Tail(q)) /\ Range(q) = Range(Tail(q)) \cup {Head(q)}
         /\ \A x \in Range(Tail(q)) : Head(q).sequence < x.sequence
<1>1. Len(q) \in Nat /\ Len(q) > 0 /\ DOMAIN q = 1..Len(q) /\ Head(q) = q[1]
  BY LenProperties, EmptySeq
<1>2. /\ Tail(q) \in Seq(S) /\ DOMAIN Tail(q) = 1..(Len(q) - 1)
      /\ \A i \in 1..(Len(q) - 1) : Tail(q)[i] = q[i + 1]
  <2>1. /\ Tail(q) \in Seq(S) /\ Len(Tail(q)) = Len(q) - 1
        /\ \A i \in 1..Len(Tail(q)) : Tail(q)[i] = q[i + 1]
    BY HeadTailProperties
  <2> QED
    BY <2>1, LenProperties
<1>3. \A i \in 1..(Len(q) - 1) : i + 1 \in 1..Len(q) /\ 1 < i + 1
  BY <1>1
<1>4. Rising(Tail(q))
  <2> SUFFICES ASSUME NEW i \in 1..(Len(q) - 1), NEW j \in 1..(Len(q) - 1), i < j
               PROVE  Tail(q)[i].sequence < Tail(q)[j].sequence
    BY <1>2 DEF Rising
  <2>1. i + 1 < j + 1
    BY <1>1
  <2> QED
    BY <1>1, <1>2, <1>3, <2>1 DEF Rising
<1>5. \A x \in Range(Tail(q)) : Head(q).sequence < x.sequence
  <2> SUFFICES ASSUME NEW i \in 1..(Len(q) - 1) PROVE q[1].sequence < Tail(q)[i].sequence
    BY <1>1, <1>2 DEF Range
  <2>1. 1 \in DOMAIN q /\ i + 1 \in DOMAIN q /\ 1 < i + 1
    BY <1>1, <1>3
  <2> QED
    BY <1>2, <2>1 DEF Rising
<1>6. Range(q) = Range(Tail(q)) \cup {Head(q)}
  <2>1. \A i \in 1..Len(q) : i = 1 \/ (i - 1 \in 1..(Len(q) - 1) /\ Tail(q)[i - 1] = q[i])
    <3> SUFFICES ASSUME NEW i \in 1..Len(q), i # 1
                 PROVE  i - 1 \in 1..(Len(q) - 1) /\ Tail(q)[i - 1] = q[i]
      OBVIOUS
    <3>1. i - 1 \in 1..(Len(q) - 1) /\ (i - 1) + 1 = i
      BY <1>1
    <3> QED
      BY <1>2, <3>1
  <2>2. Range(q) \subseteq Range(Tail(q)) \cup {Head(q)}
    <3> SUFFICES ASSUME NEW i \in 1..Len(q) PROVE q[i] \in Range(Tail(q)) \cup {q[1]}
      BY <1>1 DEF Range
    <3>1. CASE i = 1
      BY <3>1
    <3>2. CASE i - 1 \in 1..(Len(q) - 1) /\ Tail(q)[i - 1] = q[i]
      <4>1. Tail(q)[i - 1] \in Range(Tail(q))
        BY <1>2, <3>2 DEF Range
      <4> QED
        BY <3>2, <4>1
    <3> QED
      BY <2>1, <3>1, <3>2
  <2>3. Range(Tail(q)) \subseteq Range(q) /\ Head(q) \in Range(q)
    BY HeadsAndTails
  <2> QED
    BY <2>2, <2>3
<1> QED
  BY <1>4, <1>5, <1>6

LEMMA GoesOnOrder ==
  ASSUME BrokerInv, OrderInv, Younger, NEW b \in Brokers, pc[b] \in Busy, NEW delivered \in BOOLEAN,
         GoesOn(b, delivered), delivered => \A e \in Range(spool') : e.id # Head(entries[b]).id
  PROVE  OrderWalk(b)
<1>1. CASE Len(entries[b]) = 1
  BY <1>1, EndsOrder DEF GoesOn
<1>2. CASE Len(entries[b]) # 1
  <2> DEFINE h == Head(entries[b])
             kept == Range(Tail(entries[b]))
             given == blocked'[b]
  <2>1. /\ pc' = [pc EXCEPT ![b] = "draining"]
        /\ entries' = [entries EXCEPT ![b] = Tail(entries[b])]
        /\ blocked' = IF delivered THEN blocked ELSE [blocked EXCEPT ![b] = blocked[b] \cup {To_(h)}]
    BY <1>2 DEF GoesOn
  <2>2. entries[b] \in Seq(Snapshots) /\ entries[b] # <<>> /\ Rising(entries[b])
    BY Parts DEF OrderInv
  <2>3. /\ pc'[b] = "draining" /\ entries'[b] = Tail(entries[b])
        /\ blocked'[b] = IF delivered THEN blocked[b] ELSE blocked[b] \cup {To_(h)}
        /\ \A c \in Brokers \ {b} : pc'[c] = pc[c] /\ entries'[c] = entries[c] /\ blocked'[c] = blocked[c]
    BY <2>1 DEF BrokerInv, BrokerTypes
  <2>4. /\ Rising(Tail(entries[b])) /\ Range(entries[b]) = kept \cup {h}
    BY <2>2, RisingTail
  <2>5. \A x \in kept : x.sequence < nextSequence
    BY <2>4, Zenon DEF OrderInv, Fresh
  <2>6. \A x, y \in Range(entries[b]) :
           x \in kept /\ y \notin kept /\ To_(y) = To_(x) /\ To_(x) \notin given =>
             \A e \in Range(spool') : e.id # y.id
    BY <2>3, <2>4
  <2>7. blocked[b] \subseteq given /\ kept \in SUBSET Range(entries[b])
    BY <2>3, <2>4
  <2>8. \A x \in kept : To_(x) \notin given =>
           \A e \in Range(spool') : To_(e) = To_(x) /\ e.sequence < x.sequence =>
             \E y \in kept : y.id = e.id
    <3> HIDE DEF kept, given
    <3> QED
      BY <2>6, <2>7, AheadKept
  <2>9. Ahead(b)'
    BY <2>3, <2>8, Zenon DEF Ahead, To_
  <2> QED
    BY <2>3, <2>4, <2>5, <2>9 DEF OrderWalk, Unblocked
<1> QED
  BY <1>1, <1>2
LEMMA ListsOrder ==
  ASSUME BrokerInv, OrderInv, NEW b \in Brokers, NEW drained, Lists(b, drained)
  PROVE  OrderWalk(b)
<1> DEFINE P == {k \in DOMAIN spool : To_(spool[k]) \in drained}
           found == Subsequence(spool, P)
           n == Cardinality(P)
<1>0. UNCHANGED <<spool, nextSequence>>
  BY DEF Lists, file
<1>1. CASE found = <<>>
  <2>1. Ends(b)
    BY <1>1 DEF Lists
  <2> QED
    BY <2>1, EndsOrder
<1>2. CASE found # <<>>
  <2>1. /\ pc' = [pc EXCEPT ![b] = "draining"] /\ blocked' = blocked
        /\ entries' = [entries EXCEPT ![b] = [k \in DOMAIN found |-> Seen(found[k])]]
    BY <1>2 DEF Lists
  <2>2. spool \in Seq(Entries) /\ Rising(spool) /\ P \in SUBSET DOMAIN spool
    BY Parts DEF OrderInv
  <2>3. /\ found \in Seq(Entries) /\ n \in Nat /\ DOMAIN found = 1..n
        /\ \A j \in 1..n : Nth(P, j) \in P /\ found[j] = spool[Nth(P, j)]
        /\ \A i \in P : \E j \in 1..n : Nth(P, j) = i
        /\ \A j, k \in 1..n : j < k => Nth(P, j) < Nth(P, k)
    <3> HIDE DEF P
    <3> QED
      BY <2>2, SubsequenceElements
  <2> DEFINE listed == [k \in DOMAIN found |-> Seen(found[k])]
  <2> HIDE DEF found, n
  <2>4. /\ DOMAIN listed = 1..n
        /\ \A k \in 1..n : listed[k].id = found[k].id /\ listed[k].sequence = found[k].sequence
    BY <2>3 DEF Seen
  <2> HIDE DEF listed
  <2>5. /\ pc'[b] = "draining" /\ entries'[b] = listed
        /\ \A c \in Brokers \ {b} : pc'[c] = pc[c] /\ entries'[c] = entries[c] /\ blocked'[c] = blocked[c]
    BY <2>1 DEF BrokerInv, BrokerTypes, listed
  <2>6. Rising(listed)
    <3> SUFFICES ASSUME NEW i \in 1..n, NEW j \in 1..n, i < j PROVE listed[i].sequence < listed[j].sequence
      BY <2>4 DEF Rising
    <3>1. Nth(P, i) \in DOMAIN spool /\ Nth(P, j) \in DOMAIN spool /\ Nth(P, i) < Nth(P, j)
      BY <2>3
    <3>2. spool[Nth(P, i)].sequence < spool[Nth(P, j)].sequence
      BY <2>2, <3>1 DEF Rising
    <3> QED
      BY <2>3, <2>4, <3>2
  <2>7. \A x \in Range(listed) :
          \E e \in Range(spool) : To_(x) \in drained /\ x.id = e.id /\ x.sequence = e.sequence
    <3> SUFFICES ASSUME NEW k \in 1..n
                 PROVE  \E e \in Range(spool) : /\ To_(listed[k]) \in drained
                                                /\ listed[k].id = e.id /\ listed[k].sequence = e.sequence
      BY <2>4 DEF Range
    <3>1. Nth(P, k) \in P /\ found[k] = spool[Nth(P, k)]
      BY <2>3
    <3>2. found[k] \in Range(spool) /\ To_(found[k]) \in drained
      BY <3>1 DEF Range
    <3> QED
      BY <2>4, <3>2, ToIs
  <2>8. \A x \in Range(listed) : x.sequence < nextSequence
    <3>1. \A e \in Range(spool) : e.sequence < nextSequence
      BY RowsAre, Parts DEF Valid
    <3> QED
      BY <2>7, <3>1
  <2>9. \A e \in Range(spool) : To_(e) \in drained => \E y \in Range(listed) : y.id = e.id
    <3> SUFFICES ASSUME NEW i \in DOMAIN spool, To_(spool[i]) \in drained
                 PROVE  \E y \in Range(listed) : y.id = spool[i].id
      BY DEF Range
    <3>1. i \in P
      OBVIOUS
    <3> HIDE DEF P
    <3>2. PICK j \in 1..n : Nth(P, j) = i
      BY <2>3, <3>1
    <3>3. listed[j].id = spool[i].id
      BY <2>3, <2>4, <3>2
    <3>4. listed[j] \in Range(listed)
      BY <2>4 DEF Range
    <3> QED
      BY <3>3, <3>4
  <2>10. \A x \in Range(listed) : \A e \in Range(spool) :
           To_(e) = To_(x) => \E y \in Range(listed) : y.id = e.id
    BY <2>7, <2>9
  <2>11. Ahead(b)'
    BY <1>0, <2>5, <2>10, Zenon DEF Ahead, To_
  <2> QED
    BY <2>5, <2>6, <2>8, <2>11 DEF OrderWalk, Unblocked
<1> QED
  BY <1>1, <1>2

\* An entry the drain may try is the first in the queue of its recipient.
LEMMA HeadOfQueue ==
  ASSUME BrokerInv, OrderInv, NEW b \in Brokers, pc[b] \in Busy,
         To_(Head(entries[b])) \notin blocked[b],
         NEW e \in Range(spool), e.id = Head(entries[b]).id
  PROVE  LET q == Queues(spool)[To_(e)]
         IN To_(e) \in Recipients /\ q # <<>> /\ Head(q) = e.sequence
<1> DEFINE h == Head(entries[b])
           r == To_(e)
           A == SequencesFor(Range(spool), r)
<1>1. /\ entries[b] \in Seq(Snapshots) /\ entries[b] # <<>> /\ Rising(entries[b])
      /\ To_(h) \in Recipients /\ To_(h) = r
  BY Parts, ToIs DEF OrderInv
<1>2. h \in Range(entries[b])
  BY <1>1, HeadsAndTails
<1>3. h.sequence = e.sequence
  BY <1>2, Zenon DEF BrokerInv, SentOnce, Remembers
<1>4. spool \in Seq(Entries) /\ Rising(spool)
  BY Parts DEF OrderInv
<1>5. /\ Listed(spool, r) = Sorted(A) /\ A \in SUBSET Sequences /\ Sequences = 1 .. MaxSequence
      /\ MaxSequence \in Nat
  BY <1>4, ListedIs
<1>6. e.sequence \in A
  BY DEF SequencesFor
<1>7. /\ Sorted(A) # <<>> /\ Head(Sorted(A)) \in A /\ Head(Sorted(A)) <= e.sequence
  BY <1>5, <1>6, SortedIs
<1>8. \A o \in Range(spool) : To_(o) = r => ~(o.sequence < e.sequence)
  <2> SUFFICES ASSUME NEW o \in Range(spool), To_(o) = r, o.sequence < e.sequence PROVE FALSE
    OBVIOUS
  <2>1. PICK y \in Range(entries[b]) : y.id = o.id
    <3>1. Ahead(b) /\ To_(o) = To_(h) /\ o.sequence < h.sequence
      BY <1>1, <1>3 DEF OrderInv
    <3> QED
      BY <1>2, <3>1, Zenon DEF Ahead
  <2>2. o.sequence = y.sequence
    BY <2>1, Zenon DEF BrokerInv, SentOnce, Remembers
  <2>3. y = h \/ h.sequence < y.sequence
    BY <1>1, RisingTail
  <2>4. y.sequence \in Nat /\ h.sequence \in Nat
    BY <1>1, <1>2, Numbered
  <2> QED
    BY <1>3, <2>2, <2>3, <2>4
<1>9. \A a \in A : ~(a < e.sequence)
  BY <1>8 DEF SequencesFor
<1>10. Head(Sorted(A)) = e.sequence
  <2>1. Head(Sorted(A)) \in Nat /\ e.sequence \in Nat /\ ~(Head(Sorted(A)) < e.sequence)
    BY <1>5, <1>6, <1>7, <1>9
  <2> QED
    BY <1>7, <2>1
<1> QED
  BY <1>1, <1>5, <1>7, <1>10 DEF Queues

-----------------------------------------------------------------------------
(* The steps of the broker are steps of the mailboxes *)

Follows == OrderInv' /\ (Mailboxes!Next \/ Said' = Said)

\* A step that leaves the mailboxes and the spool alone.
LEMMA QuietFollows ==
  ASSUME BrokerInv, OrderInv, BrokerInv',
         UNCHANGED <<spool, deferred, nextSequence, air, landed>>,
         UNCHANGED <<pc, drainVars>> \/ \E b \in Brokers : OrderWalk(b)
  PROVE  Follows
<1>1. Said' = Said
  BY DEF Said, Queues, Listed, HeldNow
<1>2. nextSequence \in Nat
  BY FileParts, Parts
<1>3. Younger
  BY <1>2 DEF Younger
<1>4. Rising(spool') /\ Attempted' /\ \A s \in air' \cup landed' : s < nextSequence'
  BY DEF OrderInv, Attempted, Fresh
<1>5. OrderInv'
  BY <1>3, <1>4, OrderStill, OrderKeeps
<1> QED
  BY <1>1, <1>5 DEF Follows

LEMMA FailureFollows ==
  ASSUME BrokerInv, OrderInv, BrokerInv', NEW b \in Brokers, MutationFails(b), UNCHANGED world
  PROVE  Follows
<1>1. OrderWalk(b)
  BY EndsOrder DEF MutationFails
<1> QED
  BY <1>1, QuietFollows DEF MutationFails, file, world

\* A step that moves b, with the entries of its drain, and leaves the rest alone.
LEMMA MoveFollows ==
  ASSUME BrokerInv, OrderInv, BrokerInv', NEW b \in Brokers, NEW s,
         UNCHANGED <<spool, deferred, nextSequence, air, landed>>,
         pc' = [pc EXCEPT ![b] = s], entries' = entries, blocked' = blocked,
         s \in {"waking", "awake", "sending"} => To_(Head(entries[b])) \notin blocked[b]
  PROVE  Follows
<1>1. Younger
  BY FileParts, Parts DEF Younger
<1>2. OrderWalk(b)
  BY <1>1, MovesOrder
<1> QED
  BY <1>2, QuietFollows

\* A step that leaves the file alone and goes on in the drain.
LEMMA GoesOnFollows ==
  ASSUME BrokerInv, OrderInv, BrokerInv', NEW b \in Brokers, pc[b] \in Busy,
         UNCHANGED <<spool, deferred, nextSequence, air, landed>>, GoesOn(b, FALSE)
  PROVE  Follows
<1>1. Younger
  BY FileParts, Parts DEF Younger
<1>2. OrderWalk(b)
  BY <1>1, GoesOnOrder
<1> QED
  BY <1>2, QuietFollows
LEMMA SameQueues ==
  ASSUME NEW s \in Seq(Entries), NEW t \in Seq(Entries), Rising(s), Rising(t),
         \A y \in Range(t) : \E x \in Range(s) : y.id = x.id /\ y.sequence = x.sequence,
         \A x \in Range(s) : \E y \in Range(t) : y.id = x.id /\ y.sequence = x.sequence
  PROVE  Queues(t) = Queues(s)
<1>1. ASSUME NEW r PROVE Listed(t, r) = Listed(s, r)
  <2>1. SequencesFor(Range(t), r) \subseteq SequencesFor(Range(s), r)
    <3> SUFFICES ASSUME NEW y \in Range(t), To_(y) = r PROVE y.sequence \in SequencesFor(Range(s), r)
      BY DEF SequencesFor
    <3>1. PICK x \in Range(s) : y.id = x.id /\ y.sequence = x.sequence
      OBVIOUS
    <3> QED
      BY <3>1, ToIs DEF SequencesFor
  <2>2. SequencesFor(Range(s), r) \subseteq SequencesFor(Range(t), r)
    <3> SUFFICES ASSUME NEW x \in Range(s), To_(x) = r PROVE x.sequence \in SequencesFor(Range(t), r)
      BY DEF SequencesFor
    <3>1. PICK y \in Range(t) : y.id = x.id /\ y.sequence = x.sequence
      OBVIOUS
    <3> QED
      BY <3>1, ToIs DEF SequencesFor
  <2>3. SequencesFor(Range(s), r) = SequencesFor(Range(t), r)
    BY <2>1, <2>2
  <2> QED
    BY <2>3, ListedIs
<1> QED
  BY <1>1 DEF Queues

\* A row with the id and the sequence of the one whose place it takes.
LEMMA ReplacedOrder ==
  ASSUME BrokerInv, OrderInv, NEW old \in Range(spool), NEW x \in Entries, x.id = old.id,
         x.sequence = old.sequence, spool' = WithEntry(x), nextSequence' = nextSequence
  PROVE  /\ Rising(spool') /\ Queues(spool') = Queues(spool) /\ Younger
         /\ Range(spool') = (Range(spool) \ {old}) \cup {x}
<1>1. /\ spool' \in Seq(Entries) /\ Range(spool') = (Range(spool) \ {old}) \cup {x}
      /\ spool \in Seq(Entries) /\ Rising(spool) /\ nextSequence \in Nat
  BY ReplacedRows, FileParts, Parts DEF OrderInv
<1>2. Rising(spool')
  <2>1. \A k \in DOMAIN spool : k \in DOMAIN spool' /\ spool'[k].sequence = spool[k].sequence
    <3> SUFFICES ASSUME NEW k \in DOMAIN spool
                 PROVE  k \in DOMAIN spool' /\ spool'[k].sequence = spool[k].sequence
      OBVIOUS
    <3>1. spool'[k] = (IF spool[k].id = x.id THEN x ELSE spool[k]) /\ k \in DOMAIN spool'
      BY DEF WithEntry
    <3>2. spool[k] \in Range(spool)
      BY DEF Range
    <3>3. spool[k].id = x.id => spool[k] = old
      BY <3>2, RowsAre, Parts
    <3> QED
      BY <3>1, <3>3
  <2>2. DOMAIN spool' = DOMAIN spool
    BY DEF WithEntry
  <2> QED
    BY <1>1, <2>1, <2>2 DEF Rising
<1>3. \A y \in Range(spool') : \E o \in Range(spool) : y.id = o.id /\ y.sequence = o.sequence
  BY <1>1
<1>4. \A o \in Range(spool) : \E y \in Range(spool') : y.id = o.id /\ y.sequence = o.sequence
  BY <1>1
<1>5. Queues(spool') = Queues(spool)
  BY <1>1, <1>2, <1>3, <1>4, SameQueues
<1>6. Younger
  BY <1>1, <1>3 DEF Younger
<1> QED
  BY <1>1, <1>2, <1>5, <1>6

\* The row of b's transport goes back into the spool.
LEMMA ReplacingFollows ==
  ASSUME BrokerInv, OrderInv, BrokerInv', NEW b \in Brokers,
         NEW old \in Range(spool), NEW x \in Entries, x.id = old.id, x.sequence = old.sequence,
         spool' = WithEntry(x), nextSequence' = nextSequence, UNCHANGED <<deferred, landed>>,
         \/ air' = air
         \/ air' = air \ {old.sequence},
         x.sequence \in air' \cup landed => x.uncertain \/ x.claim # NoClaim,
         pc[b] \in Busy, GoesOn(b, FALSE)
  PROVE  Follows
<1>1. /\ Rising(spool') /\ Queues(spool') = Queues(spool) /\ Younger
      /\ Range(spool') = (Range(spool) \ {old}) \cup {x}
  BY ReplacedOrder
<1>2. Attempted'
  BY <1>1 DEF OrderInv, Attempted
<1>3. \A s \in air' \cup landed' : s < nextSequence'
  BY DEF OrderInv, Fresh
<1>4. OrderWalk(b)
  BY <1>1, GoesOnOrder
<1>5. OrderInv'
  BY <1>1, <1>2, <1>3, <1>4, OrderKeeps
<1>6. Mailboxes!Next \/ Said' = Said
  <2>1. HeldNow' = HeldNow
    BY DEF HeldNow
  <2>2. CASE air' = air
    BY <1>1, <2>1, <2>2 DEF Said
  <2>3. CASE air' = air \ {old.sequence} /\ old.sequence \in air
    <3>1. old.sequence \in Sequences
      BY FileParts, Parts DEF Entries
    <3> QED
      BY <1>1, <2>3, <3>1, RefuseIs
  <2>4. CASE air' = air \ {old.sequence} /\ old.sequence \notin air
    BY <1>1, <2>1, <2>4 DEF Said
  <2> QED
    BY <2>2, <2>3, <2>4
<1> QED
  BY <1>5, <1>6 DEF Follows

LEMMA AttemptsAhead ==
  ASSUME BrokerInv, OrderInv, NEW b \in Brokers, Attempting(b)
  PROVE  pc[b] \in Busy /\ To_(Head(entries[b])) \notin blocked[b]
BY DEF Attempting, OrderInv, Unblocked, Excluded, Busy

LEMMA ReserveFollows ==
  ASSUME BrokerInv, OrderInv, BrokerInv', NEW b \in Brokers, Reserve(b)
  PROVE  Follows
<1> DEFINE id == Head(entries[b]).id
           e == EntryOf(id)
           x == [e EXCEPT !.claim = ClaimOf(b)]
<1>1. /\ Attempting(b) /\ HasId(spool, id) /\ ~e.uncertain /\ e.claim = NoClaim
      /\ spool' = WithEntry(x) /\ pc' = [pc EXCEPT ![b] = "sending"] /\ air' = air \cup {e.sequence}
      /\ UNCHANGED <<deferred, nextSequence, landed, entries, blocked>>
  BY DEF Reserve, drainVars
<1>2. e \in Range(spool) /\ e \in Entries /\ e.id = id
  BY <1>1, EntryIs, Parts
<1> HIDE DEF e
<1>3. ClaimOf(b) \in Claims /\ ClaimOf(b) # NoClaim
  BY ClaimsAre, Parts
<1>4. x \in Entries /\ x.id = e.id /\ x.sequence = e.sequence /\ x.claim # NoClaim
  BY <1>2, <1>3 DEF Entries
<1> HIDE DEF x
<1>5. /\ Rising(spool') /\ Queues(spool') = Queues(spool) /\ Younger
      /\ Range(spool') = (Range(spool) \ {e}) \cup {x}
  BY <1>1, <1>2, <1>4, ReplacedOrder
<1>6. pc[b] \in Busy /\ To_(Head(entries[b])) \notin blocked[b]
  BY <1>1, AttemptsAhead
<1>7. OrderWalk(b)
  BY <1>1, <1>5, <1>6, MovesOrder
<1>8. Attempted'
  <2> SUFFICES ASSUME NEW y \in Range(spool'), y.sequence \in air' \cup landed'
               PROVE  y.uncertain \/ y.claim # NoClaim
    BY DEF Attempted
  <2>1. CASE y = x
    BY <1>4, <2>1
  <2>2. CASE y \in Range(spool) \ {e}
    <3>1. y.sequence # e.sequence
      BY <1>2, <2>2, RowsAre, Parts
    <3>2. y.sequence \in air \cup landed
      BY <1>1, <3>1
    <3> QED
      BY <2>2, <3>2 DEF OrderInv, Attempted
  <2> QED
    BY <1>5, <2>1, <2>2
<1>9. \A s \in air' \cup landed' : s < nextSequence'
  <2>1. e.sequence < nextSequence
    BY <1>2, RowsAre, Parts DEF Valid
  <2> QED
    BY <1>1, <2>1 DEF OrderInv, Fresh
<1>10. OrderInv'
  BY <1>5, <1>7, <1>8, <1>9, OrderKeeps
<1>11. Mailboxes!Next
  <2>1. /\ To_(e) \in Recipients /\ Queues(spool)[To_(e)] # <<>>
        /\ Head(Queues(spool)[To_(e)]) = e.sequence
    BY <1>2, <1>6, HeadOfQueue
  <2>2. e.sequence \notin air \cup landed
    BY <1>1, <1>2 DEF OrderInv, Attempted
  <2> QED
    BY <1>1, <1>5, <2>1, <2>2, OfferIs
<1> QED
  BY <1>10, <1>11 DEF Follows

LEMMA ReserveRefusedFollows ==
  ASSUME BrokerInv, OrderInv, BrokerInv', NEW b \in Brokers, NEW blind, ReserveRefused(b, blind)
  PROVE  Follows
<1> DEFINE id == Head(entries[b]).id
           e == EntryOf(id)
           x == Reconciled(b, e, blind)
<1>1. /\ Attempting(b)
      /\ spool' = IF HasId(spool, id) THEN WithEntry(x) ELSE spool
      /\ GoesOn(b, ~HasId(spool, id) /\ HasId(deliveries, id))
      /\ UNCHANGED <<deferred, nextSequence, air, landed>>
  BY DEF ReserveRefused, world
<1>2. pc[b] \in Busy
  BY <1>1, AttemptsAhead
<1>3. CASE ~HasId(spool, id)
  <2>1. Younger /\ spool' = spool
    BY <1>1, <1>3, FileParts, Parts DEF Younger
  <2>2. \A y \in Range(spool) : y.id # id
    BY <1>3, HasIdIs
  <2> DEFINE known == ~HasId(spool, id) /\ HasId(deliveries, id)
  <2>3. known \in BOOLEAN
    OBVIOUS
  <2>4. GoesOn(b, known)
    BY <1>1
  <2> HIDE DEF known
  <2>5. OrderWalk(b)
    BY <1>2, <2>1, <2>2, <2>3, <2>4, GoesOnOrder
  <2> QED
    BY <1>1, <2>1, <2>5, QuietFollows
<1>4. CASE HasId(spool, id)
  <2>1. e \in Range(spool) /\ e \in Entries
    BY <1>4, EntryIs, Parts
  <2>2. ~(e.uncertain /\ e.claim # NoClaim)
    BY <2>1, RowsAre, Parts
  <2> HIDE DEF e
  <2>3. x \in Entries /\ x.id = e.id /\ x.sequence = e.sequence
    BY <2>1, <2>2, ReconciledIs
  <2>4. e.sequence \in air \cup landed => x.uncertain \/ x.claim # NoClaim
    <3>1. e.sequence \in air \cup landed => e.uncertain \/ e.claim # NoClaim
      BY <2>1 DEF OrderInv, Attempted
    <3>2. x = e \/ x.uncertain
      BY <2>1 DEF Reconciled, Abandoned, Entries
    <3> QED
      BY <3>1, <3>2
  <2>5. spool' = WithEntry(x) /\ GoesOn(b, FALSE)
    BY <1>1, <1>4
  <2> HIDE DEF x
  <2> QED
    BY <1>1, <1>2, <2>1, <2>3, <2>4, <2>5, ReplacingFollows
<1> QED
  BY <1>3, <1>4

LEMMA NotDeliveredFollows ==
  ASSUME BrokerInv, OrderInv, BrokerInv', NEW b \in Brokers, NotDelivered(b)
  PROVE  Follows
<1> DEFINE x == [Current(b) EXCEPT !.claim = NoClaim]
<1>1. /\ Sending(b) /\ OwnsIt(b) /\ air' = air \ {Current(b).sequence} /\ spool' = WithEntry(x)
      /\ Current(b).sequence \notin landed
      /\ GoesOn(b, FALSE) /\ UNCHANGED <<deferred, nextSequence, landed>>
  BY DEF NotDelivered
<1>2. Current(b) \in Range(spool) /\ Current(b) \in Entries /\ pc[b] \in Busy
  BY <1>1, CurrentIs
<1>3. x \in Entries /\ x.id = Current(b).id /\ x.sequence = Current(b).sequence
  BY <1>2 DEF Entries
<1> HIDE DEF x
<1>4. x.sequence \notin air' \cup landed
  BY <1>1, <1>3
<1> QED
  BY <1>1, <1>2, <1>3, <1>4, ReplacingFollows

LEMMA UnsureFollows ==
  ASSUME BrokerInv, OrderInv, BrokerInv', NEW b \in Brokers, Unsure(b)
  PROVE  Follows
<1> DEFINE x == Abandoned(Current(b))
<1>1. /\ Sending(b) /\ OwnsIt(b) /\ spool' = WithEntry(x) /\ GoesOn(b, FALSE)
      /\ UNCHANGED <<deferred, nextSequence, air, landed>>
  BY DEF Unsure, world
<1>2. Current(b) \in Range(spool) /\ Current(b) \in Entries /\ pc[b] \in Busy
  BY <1>1, CurrentIs
<1>3. x \in Entries /\ x.id = Current(b).id /\ x.sequence = Current(b).sequence /\ x.uncertain
  BY <1>2 DEF Abandoned, Entries
<1> HIDE DEF x
<1> QED
  BY <1>1, <1>2, <1>3, ReplacingFollows
LEMMA SkipFollows ==
  ASSUME BrokerInv, OrderInv, BrokerInv', NEW b \in Brokers, Skip(b)
  PROVE  Follows
BY GoesOnFollows DEF Skip, Busy, file, world

LEMMA WakeAnsweredFollows ==
  ASSUME BrokerInv, OrderInv, BrokerInv', NEW b \in Brokers, NEW executed \in BOOLEAN,
         WakeAnswered(b, executed)
  PROVE  Follows
<1>1. /\ pc[b] = "waking" /\ UNCHANGED <<spool, deferred, nextSequence, air, landed>>
  BY DEF WakeAnswered, file, world
<1>2. To_(Head(entries[b])) \notin blocked[b]
  BY <1>1 DEF OrderInv, Unblocked
<1>3. CASE executed
  <2>1. pc' = [pc EXCEPT ![b] = "awake"] /\ entries' = entries /\ blocked' = blocked
    BY <1>3 DEF WakeAnswered, drainVars
  <2> QED
    BY <1>1, <1>2, <2>1, MoveFollows
<1>4. CASE ~executed
  <2>1. GoesOn(b, FALSE) /\ pc[b] \in Busy
    BY <1>1, <1>4 DEF WakeAnswered, Busy
  <2> QED
    BY <1>1, <2>1, GoesOnFollows
<1> QED
  BY <1>3, <1>4

LEMMA RequestWakeFollows ==
  ASSUME BrokerInv, OrderInv, BrokerInv', NEW b \in Brokers, RequestWake(b)
  PROVE  Follows
<1>1. To_(Head(entries[b])) \notin blocked[b] /\ UNCHANGED world
  BY DEF RequestWake, Excluded
<1>2. CASE MutationFails(b)
  BY <1>1, <1>2, FailureFollows
<1>3. CASE ~MutationFails(b)
  <2>1. /\ pc' = [pc EXCEPT ![b] = "waking"] /\ entries' = entries /\ blocked' = blocked
        /\ UNCHANGED <<spool, deferred, nextSequence, air, landed>>
    BY <1>3 DEF RequestWake, drainVars, world
  <2> QED
    BY <1>1, <2>1, MoveFollows
<1> QED
  BY <1>2, <1>3

LEMMA ListsFollows ==
  ASSUME BrokerInv, OrderInv, BrokerInv', NEW b \in Brokers, List(b) \/ Drain(b)
  PROVE  Follows
<1>1. PICK drained : Lists(b, drained)
  BY DEF List, Drain
<1>2. UNCHANGED <<spool, deferred, nextSequence, air, landed>>
  BY <1>1 DEF Lists, file, world
<1> QED
  BY <1>1, <1>2, ListsOrder, QuietFollows

LEMMA DropFollows ==
  ASSUME BrokerInv, OrderInv, BrokerInv', NEW b \in Brokers, Drop(b)
  PROVE  Follows
<1>1. /\ UNCHANGED <<spool, deferred, nextSequence, air, landed>> /\ pc' = [pc EXCEPT ![b] = "closed"]
      /\ entries' = entries /\ blocked' = blocked
  BY DEF Drop, file, world, drainVars
<1> QED
  BY <1>1, MoveFollows

LEMMA FailsFollows ==
  ASSUME BrokerInv, OrderInv, BrokerInv', NEW b \in Brokers, ReserveFails(b) \/ RecordFails(b)
  PROVE  Follows
BY FailureFollows DEF ReserveFails, RecordFails

LEMMA CooldownEndsFollows ==
  ASSUME BrokerInv, OrderInv, BrokerInv', NEW to, CooldownEnds(to)
  PROVE  Follows
BY QuietFollows DEF CooldownEnds, world

LEMMA LandsFollows ==
  ASSUME BrokerInv, OrderInv, BrokerInv', NEW s \in Sequences, Lands(s)
  PROVE  Follows
<1>1. /\ s \in air /\ air' = air \ {s} /\ landed' = landed \cup {s}
      /\ UNCHANGED <<spool, deferred, nextSequence, pc, drainVars>>
  BY DEF Lands, file
<1>2. Mailboxes!Next
  BY <1>1, LandIs
<1>3. air' \cup landed' = air \cup landed
  BY <1>1
<1>4. Younger
  BY <1>1, FileParts, Parts DEF Younger
<1>5. Rising(spool') /\ Attempted' /\ \A t \in air' \cup landed' : t < nextSequence'
  BY <1>1, <1>3 DEF OrderInv, Attempted, Fresh
<1>6. OrderInv'
  BY <1>1, <1>4, <1>5, OrderStill
<1> QED
  BY <1>2, <1>6 DEF Follows

\* The drains of a process that dies are gone; those of the others go on.
LEMMA CrashFollows ==
  ASSUME BrokerInv, OrderInv, BrokerInv', NEW p \in Procs, Crash(p)
  PROVE  Follows
<1>1. UNCHANGED <<spool, deferred, nextSequence, air, landed>>
  BY DEF Crash, file, world
<1>2. \A b \in Brokers : \/ pc'[b] = "closed" /\ entries'[b] = <<>> /\ blocked'[b] = {}
                         \/ pc'[b] = pc[b] /\ entries'[b] = entries[b] /\ blocked'[b] = blocked[b]
  BY DEF Crash
<1>3. Rising(<<>>) /\ Range(<<>>) = {}
  BY DEF Rising, Range
<1>4. ASSUME NEW b \in Brokers
      PROVE  /\ Rising(entries'[b]) /\ Ahead(b)' /\ Unblocked(b)'
             /\ \A x \in Range(entries'[b]) : x.sequence < nextSequence'
  <2>1. CASE pc'[b] = "closed" /\ entries'[b] = <<>> /\ blocked'[b] = {}
    BY <1>3, <2>1 DEF Ahead, Unblocked
  <2>2. CASE pc'[b] = pc[b] /\ entries'[b] = entries[b] /\ blocked'[b] = blocked[b]
    <3>1. /\ Rising(entries[b]) /\ Ahead(b) /\ Unblocked(b)
          /\ \A x \in Range(entries[b]) : x.sequence < nextSequence
      BY Zenon DEF OrderInv, Fresh
    <3> QED
      BY <1>1, <2>2, <3>1 DEF Ahead, Unblocked, To_
  <2> QED
    BY <1>2, <2>1, <2>2
<1>5. OrderInv'
  BY <1>1, <1>4 DEF OrderInv, Fresh, Attempted
<1>6. Said' = Said
  BY <1>1 DEF Said, Queues, Listed, HeldNow
<1> QED
  BY <1>5, <1>6 DEF Follows
\* The next sequence is that of no letter.
LEMMA NextIsNew ==
  ASSUME BrokerInv, OrderInv
  PROVE  nextSequence \notin Mailboxes!Queued \cup air \cup landed \cup HeldNow
<1>1. /\ Valid(Range(spool), Range(deadLetters), deferred, Range(deliveries), nextSequence)
      /\ nextSequence \in Nat /\ spool \in Seq(Entries) /\ Rising(spool)
  BY RowsAre, FileParts, Parts DEF OrderInv
<1>2. \A x \in Range(spool) \cup deferred : x.sequence < nextSequence
  BY <1>1, Zenon DEF Valid
<1>3. ~(nextSequence < nextSequence)
  BY <1>1
<1>4. nextSequence \notin air \cup landed
  BY <1>3, Zenon DEF OrderInv, Fresh
<1>5. nextSequence \notin HeldNow
  BY <1>2, <1>3, Zenon DEF HeldNow
<1>6. ASSUME NEW r \in Recipients, nextSequence \in Range(Queues(spool)[r]) PROVE FALSE
  <2> DEFINE A == SequencesFor(Range(spool), r)
  <2>1. Queues(spool)[r] = Sorted(A)
    BY <1>1, ListedIs DEF Queues
  <2>2. A \in SUBSET (1 .. MaxSequence) /\ MaxSequence \in Nat
    BY <1>1, ListedIs
  <2> HIDE DEF A
  <2>3. Members(Sorted(A)) = A
    BY <2>2, SortedIs
  <2>4. nextSequence \in A
    BY <1>6, <2>1, <2>3 DEF Range, Members
  <2>5. PICK e \in Range(spool) : e.sequence = nextSequence
    BY <2>4 DEF A, SequencesFor
  <2> QED
    BY <1>2, <1>3, <2>5
<1> QED
  BY <1>4, <1>5, <1>6, QueuedIs

\* An operation of the host on hand-offs.
LEMMA HostFollows ==
  ASSUME BrokerInv, OrderInv, BrokerInv', NEW b, NEW id, HostCall(b, id),
         nextSequence' \in {nextSequence, nextSequence + 1},
         Mailboxes!Next \/ HeldNow' = HeldNow
  PROVE  Follows
<1>1. UNCHANGED <<spool, pc, drainVars, air, landed>>
  BY DEF HostCall, world
<1>2. nextSequence \in Nat /\ nextSequence <= nextSequence'
  BY FileParts, Parts
<1>3. Younger
  BY <1>1, <1>2 DEF Younger
<1>4. \A s \in air \cup landed : s < nextSequence'
  <2>1. \A s \in air \cup landed : s \in Nat /\ s < nextSequence
    BY Parts DEF OrderInv, Fresh, WorldTypes, Sequences
  <2> QED
    BY <1>2, <2>1
<1>5. Rising(spool') /\ Attempted' /\ \A s \in air' \cup landed' : s < nextSequence'
  BY <1>1, <1>4 DEF OrderInv, Attempted
<1>6. OrderInv'
  BY <1>1, <1>3, <1>5, OrderStill
<1>7. Queues(spool') = Queues(spool)
  BY <1>1
<1> QED
  BY <1>1, <1>6, <1>7 DEF Follows, Said

\* The hand-off of a message is settled, if there is one.
LEMMA SettlesIt ==
  ASSUME BrokerInv, NEW id, deferred' = deferred \ Pending(id), UNCHANGED <<spool, air, landed>>
  PROVE  Mailboxes!Next \/ HeldNow' = HeldNow
<1>1. Alone(deferred) /\ deferred \subseteq Deferrals
  BY FileParts, RowsAre, Parts, Zenon DEF Valid
<1>2. CASE Pending(id) = {}
  BY <1>2 DEF HeldNow
<1>3. CASE Pending(id) # {}
  <2>1. PICK d \in deferred : d.id = id
    BY <1>3 DEF Pending
  <2>2. \A x \in deferred : x.id = id \/ x.sequence = d.sequence => x = d
    BY <1>1, <2>1 DEF Alone
  <2>3. deferred' = deferred \ {d}
    BY <2>1, <2>2 DEF Pending
  <2>4. d.sequence \in HeldNow /\ d.sequence \in Sequences
    BY <1>1, <2>1 DEF HeldNow, Deferrals
  <2>5. HeldNow' = HeldNow \ {d.sequence}
    <3>1. HeldNow' = {x.sequence : x \in deferred \ {d}}
      BY <2>3 DEF HeldNow
    <3> QED
      BY <2>1, <2>2, <3>1 DEF HeldNow
  <2> QED
    BY <2>4, <2>5, SettleIs
<1> QED
  BY <1>2, <1>3

LEMMA DeadLetterFollows ==
  ASSUME BrokerInv, OrderInv, BrokerInv', NEW b, NEW id \in Ids, DeadLetter(b, id)
  PROVE  Follows
<1>1. /\ HostCall(b, id) /\ deferred' = deferred \ Pending(id) /\ nextSequence' = nextSequence + 1
  BY DEF DeadLetter
<1>2. UNCHANGED <<spool, air, landed>>
  BY <1>1 DEF HostCall, world
<1> QED
  BY <1>1, <1>2, SettlesIt, HostFollows

LEMMA AcknowledgeFollows ==
  ASSUME BrokerInv, OrderInv, BrokerInv', NEW b, NEW id \in Ids, Acknowledge(b, id)
  PROVE  Follows
<1>1. /\ HostCall(b, id) /\ deferred' = deferred \ Pending(id) /\ nextSequence' = nextSequence
  BY DEF Acknowledge
<1>2. UNCHANGED <<spool, air, landed>>
  BY <1>1 DEF HostCall, world
<1> QED
  BY <1>1, <1>2, SettlesIt, HostFollows

LEMMA DeferDeliveryFollows ==
  ASSUME BrokerInv, OrderInv, BrokerInv', NEW b, NEW id \in Ids, DeferDelivery(b, id)
  PROVE  Follows
<1> DEFINE P == Pending(id)
           redone == {[d EXCEPT !.waiting = FALSE] : d \in P}
           n == [sequence |-> nextSequence, id |-> id, waiting |-> FALSE]
<1>1. /\ HostCall(b, id)
      /\ \/ P # {} /\ deferred' = (deferred \ P) \cup redone /\ nextSequence' = nextSequence
         \/ /\ nextSequence <= MaxSequence
            /\ deferred' = deferred \cup {n} /\ nextSequence' = nextSequence + 1
  BY DEF DeferDelivery
<1>2. UNCHANGED <<spool, air, landed>>
  BY <1>1 DEF HostCall, world
<1>3. CASE deferred' = (deferred \ P) \cup redone /\ nextSequence' = nextSequence
  <2>1. \A d \in deferred : [d EXCEPT !.waiting = FALSE].sequence = d.sequence
    BY FileParts, Parts DEF Deferrals
  <2>2. P \subseteq deferred
    BY DEF Pending
  <2> HIDE DEF P
  <2>3. {x.sequence : x \in redone} = {d.sequence : d \in P}
    BY <2>1, <2>2
  <2>4. HeldNow' = {x.sequence : x \in deferred \ P} \cup {x.sequence : x \in redone}
    BY <1>3 DEF HeldNow
  <2>5. HeldNow' = HeldNow
    BY <2>2, <2>3, <2>4 DEF HeldNow
  <2> QED
    BY <1>1, <1>3, <2>5, HostFollows
<1>4. CASE /\ nextSequence <= MaxSequence
           /\ deferred' = deferred \cup {n} /\ nextSequence' = nextSequence + 1
  <2>1. nextSequence \in Sequences
    BY <1>4, FileParts, Parts DEF Sequences
  <2>2. HeldNow' = HeldNow \cup {nextSequence}
    <3>1. n.sequence = nextSequence
      OBVIOUS
    <3> HIDE DEF n
    <3>2. HeldNow' = {x.sequence : x \in deferred \cup {n}}
      BY <1>4 DEF HeldNow
    <3> QED
      BY <3>1, <3>2 DEF HeldNow
  <2>3. Mailboxes!Next
    BY <1>2, <2>1, <2>2, NextIsNew, HoldIs
  <2> QED
    BY <1>1, <1>4, <2>3, HostFollows
<1> QED
  BY <1>1, <1>3, <1>4
LEMMA RisingFilter ==
  ASSUME NEW S, NEW q \in Seq(S), NEW P \in SUBSET DOMAIN q, Rising(q)
  PROVE  Rising(Subsequence(q, P))
<1> DEFINE t == Subsequence(q, P)
           n == Cardinality(P)
<1>1. /\ n \in Nat /\ DOMAIN t = 1..n
      /\ \A j \in 1..n : Nth(P, j) \in P /\ t[j] = q[Nth(P, j)]
      /\ \A j, k \in 1..n : j < k => Nth(P, j) < Nth(P, k)
  BY SubsequenceElements
<1> HIDE DEF t, n
<1>2. ASSUME NEW i \in 1..n, NEW j \in 1..n, i < j PROVE t[i].sequence < t[j].sequence
  BY <1>1, <1>2 DEF Rising
<1> QED
  BY <1>1, <1>2 DEF Rising, t

\* Fewer rows, with the ids and sequences of rows that were there.
LEMMA FewerOrder ==
  ASSUME BrokerInv, OrderInv, Rising(spool'), nextSequence' = nextSequence,
         \A y \in Range(spool') : \E x \in Range(spool) :
           /\ y.id = x.id /\ y.sequence = x.sequence
           /\ (x.uncertain \/ x.claim # NoClaim) => (y.uncertain \/ y.claim # NoClaim),
         UNCHANGED <<air, landed>>
  PROVE  Younger /\ Attempted' /\ \A s \in air' \cup landed' : s < nextSequence'
<1>1. nextSequence \in Nat
  BY FileParts, Parts
<1>2. Younger
  BY <1>1 DEF Younger
<1>3. Attempted'
  BY DEF OrderInv, Attempted
<1> QED
  BY <1>2, <1>3 DEF OrderInv, Fresh

LEMMA DeliveredFollows ==
  ASSUME BrokerInv, OrderInv, BrokerInv', NEW b \in Brokers, Delivered(b)
  PROVE  Follows
<1> DEFINE e == Current(b)
           d == [sequence |-> e.sequence, id |-> e.id, waiting |-> TRUE]
           to == To_(e)
<1>1. /\ Sending(b) /\ OwnsIt(b) /\ spool' = Without(spool, e.id) /\ e.sequence \in landed
      /\ deferred' \in {deferred, deferred \cup {d}} /\ GoesOn(b, TRUE)
      /\ UNCHANGED <<nextSequence, air, landed>>
  BY DEF Delivered, world
<1>2. e \in Range(spool) /\ e \in Entries /\ pc[b] \in Busy /\ e.id = Head(entries[b]).id
  BY <1>1, CurrentIs
<1>3. HeldNow' \in {HeldNow, HeldNow \cup {e.sequence}}
  <2>1. d.sequence = e.sequence
    OBVIOUS
  <2> HIDE DEF d
  <2>2. CASE deferred' = deferred
    BY <2>2 DEF HeldNow
  <2>3. CASE deferred' = deferred \cup {d}
    <3>1. HeldNow' = {x.sequence : x \in deferred \cup {d}}
      BY <2>3 DEF HeldNow
    <3> QED
      BY <2>1, <3>1 DEF HeldNow
  <2> QED
    BY <1>1, <2>2, <2>3
<1> HIDE DEF e
<1>4. spool \in Seq(Entries) /\ Rising(spool)
  BY Parts DEF OrderInv
<1>5. /\ spool' \in Seq(Entries) /\ Range(spool') = {x \in Range(spool) : x.id # e.id}
      /\ Rising(spool')
  <2> DEFINE P == {k \in DOMAIN spool : spool[k].id # e.id}
  <2>1. spool' = Subsequence(spool, P)
    BY <1>1 DEF Without
  <2>2. P \in SUBSET DOMAIN spool
    OBVIOUS
  <2> HIDE DEF P
  <2>3. Rising(spool')
    BY <1>4, <2>1, <2>2, RisingFilter
  <2> QED
    BY <1>1, <1>4, <2>3, WithoutRows
<1>6. Younger /\ Attempted' /\ \A s \in air' \cup landed' : s < nextSequence'
  BY <1>1, <1>5, FewerOrder
<1>7. OrderWalk(b)
  BY <1>1, <1>2, <1>5, <1>6, GoesOnOrder
<1>8. OrderInv'
  BY <1>5, <1>6, <1>7, OrderKeeps
<1>9. To_(Head(entries[b])) \notin blocked[b]
  BY <1>1 DEF OrderInv, Unblocked, Sending
<1>10. /\ to \in Recipients /\ Queues(spool)[to] # <<>>
       /\ Head(Queues(spool)[to]) = e.sequence
  BY <1>2, <1>9, HeadOfQueue
<1>11. ASSUME NEW r \in Recipients
       PROVE  Queues(spool')[r] = IF r = to THEN Tail(Queues(spool)[r]) ELSE Queues(spool)[r]
  <2> DEFINE A == SequencesFor(Range(spool), r)
             B == SequencesFor(Range(spool'), r)
  <2>1. /\ Queues(spool)[r] = Sorted(A) /\ A \in SUBSET (1 .. MaxSequence) /\ MaxSequence \in Nat
        /\ Queues(spool')[r] = Sorted(B)
    BY <1>4, <1>5, ListedIs DEF Queues
  <2>2. \A x, y \in Range(spool) : x.id = y.id \/ x.sequence = y.sequence => x = y
    BY RowsAre, Parts
  <2>3. CASE r = to
    <3>1. B = A \ {e.sequence}
      BY <1>2, <1>5, <2>2, <2>3 DEF SequencesFor
    <3>2. A # {} /\ Head(Sorted(A)) = e.sequence
      <4>1. e.sequence \in A
        BY <1>2, <2>3 DEF SequencesFor
      <4> QED
        BY <1>10, <2>1, <2>3, <4>1
    <3> HIDE DEF A, B
    <3>3. Tail(Sorted(A)) = Sorted(A \ {Head(Sorted(A))})
      BY <2>1, <3>2, SortedChanges
    <3> QED
      BY <2>1, <2>3, <3>1, <3>2, <3>3
  <2>4. CASE r # to
    <3>1. \A x \in Range(spool) : x.id = e.id => To_(x) = to
      BY ToIs
    <3>2. B = A
      BY <1>5, <2>4, <3>1 DEF SequencesFor
    <3> QED
      BY <2>1, <2>4, <3>2
  <2> QED
    BY <2>3, <2>4
<1>12. Queues(spool') = [Queues(spool) EXCEPT ![to] = Tail(@)]
  <2> DEFINE q == Queues(spool)
             t == Queues(spool')
  <2>1. DOMAIN q = Recipients /\ t = [r \in Recipients |-> t[r]] /\ q = [r \in Recipients |-> q[r]]
    BY DEF Queues
  <2> HIDE DEF q, t
  <2>2. \A r \in Recipients : t[r] = IF r = to THEN Tail(q[r]) ELSE q[r]
    BY <1>11 DEF q, t
  <2>3. t = [q EXCEPT ![to] = Tail(@)]
    BY <2>1, <2>2
  <2> QED
    BY <2>3 DEF q, t
<1>13. Mailboxes!Next
  BY <1>1, <1>3, <1>10, <1>12, DeliverIs
<1> QED
  BY <1>8, <1>13 DEF Follows
LEMMA SendFollows ==
  ASSUME BrokerInv, OrderInv, BrokerInv', NEW b \in Brokers, NEW id \in Ids, Send(b, id)
  PROVE  Follows
<1> DEFINE x == [sequence |-> nextSequence, id |-> id, uncertain |-> FALSE, claim |-> NoClaim]
           to == To[id]
<1>1. /\ pc' = [pc EXCEPT ![b] = "listing"] /\ entries' = entries /\ blocked' = blocked
      /\ UNCHANGED <<deferred, air, landed>>
      /\ \/ UNCHANGED <<spool, nextSequence>>
         \/ /\ nextSequence <= MaxSequence /\ spool' = Append(spool, x)
            /\ nextSequence' = nextSequence + 1
  BY DEF Send, Enqueue
<1>2. CASE UNCHANGED <<spool, nextSequence>>
  BY <1>1, <1>2, MoveFollows
<1>3. CASE /\ nextSequence <= MaxSequence /\ spool' = Append(spool, x)
           /\ nextSequence' = nextSequence + 1
  <2>1. /\ nextSequence \in 1 .. MaxSequence /\ nextSequence \in Nat /\ MaxSequence \in Nat
        /\ spool \in Seq(Entries) /\ Rising(spool)
        /\ \A y \in Range(spool) : y.sequence < nextSequence
    BY <1>3, FileParts, RowsAre, Parts DEF Valid, OrderInv
  <2>2. x \in Entries /\ To_(x) = to /\ x.sequence = nextSequence /\ to \in Recipients
    BY <2>1, RecipientsOf DEF Entries, Sequences, To_
  <2> HIDE DEF x
  <2>3. spool' \in Seq(Entries) /\ Range(spool') = Range(spool) \cup {x}
    BY <1>3, <2>1, <2>2, AppendedRows
  <2>4. Rising(spool')
    <3>1. /\ Len(spool) \in Nat /\ DOMAIN spool = 1..Len(spool) /\ DOMAIN spool' = 1..(Len(spool) + 1)
          /\ \A i \in 1..Len(spool) : spool'[i] = spool[i]
          /\ spool'[Len(spool) + 1] = x
      BY <1>3, <2>1, <2>2, AppendProperties, LenProperties
    <3> SUFFICES ASSUME NEW i \in 1..(Len(spool) + 1), NEW j \in 1..(Len(spool) + 1), i < j
                 PROVE  spool'[i].sequence < spool'[j].sequence
      BY <3>1 DEF Rising
    <3>2. i \in 1..Len(spool) /\ spool'[i] = spool[i] /\ spool[i] \in Range(spool)
      BY <3>1 DEF Range
    <3>3. CASE j \in 1..Len(spool)
      BY <2>1, <3>1, <3>2, <3>3 DEF Rising
    <3>4. CASE j \notin 1..Len(spool)
      <4>1. j = Len(spool) + 1
        BY <3>1, <3>4
      <4> QED
        BY <2>1, <2>2, <3>1, <3>2, <4>1
    <3> QED
      BY <3>3, <3>4
  <2>5. Younger
    BY <1>3, <2>1, <2>2, <2>3 DEF Younger
  <2>6. OrderWalk(b)
    BY <1>1, <2>5, MovesOrder
  <2>7. Attempted' /\ \A s \in air' \cup landed' : s < nextSequence'
    <3>1. \A s \in air \cup landed : s \in Nat /\ s < nextSequence
      BY Parts DEF OrderInv, Fresh, WorldTypes, Sequences
    <3>2. nextSequence \notin air \cup landed
      BY NextIsNew
    <3>3. Attempted'
      BY <1>1, <2>2, <2>3, <3>2 DEF OrderInv, Attempted
    <3>4. \A s \in air \cup landed : s < nextSequence + 1
      BY <2>1, <3>1
    <3> QED
      BY <1>1, <1>3, <3>3, <3>4
  <2>8. OrderInv'
    BY <2>4, <2>5, <2>6, <2>7, OrderKeeps
  <2>9. ASSUME NEW r \in Recipients
        PROVE  Queues(spool')[r] = IF r = to THEN Append(Queues(spool)[r], nextSequence)
                                   ELSE Queues(spool)[r]
    <3> DEFINE A == SequencesFor(Range(spool), r)
               B == SequencesFor(Range(spool'), r)
    <3>1. /\ Queues(spool)[r] = Sorted(A) /\ A \in SUBSET (1 .. MaxSequence)
          /\ Queues(spool')[r] = Sorted(B)
      BY <2>1, <2>3, <2>4, ListedIs DEF Queues
    <3>2. CASE r = to
      <4>1. B = A \cup {nextSequence}
        BY <2>2, <2>3, <3>2 DEF SequencesFor
      <4>2. \A a \in A : a < nextSequence
        BY <2>1 DEF SequencesFor
      <4> HIDE DEF A, B
      <4>3. Append(Sorted(A), nextSequence) = Sorted(A \cup {nextSequence})
        BY <2>1, <3>1, <4>2, SortedChanges
      <4> QED
        BY <3>1, <3>2, <4>1, <4>3
    <3>3. CASE r # to
      <4>1. B = A
        BY <2>2, <2>3, <3>3 DEF SequencesFor
      <4> QED
        BY <3>1, <3>3, <4>1
    <3> QED
      BY <3>2, <3>3
  <2>10. Queues(spool') = [Queues(spool) EXCEPT ![to] = Append(@, nextSequence)]
    <3> DEFINE q == Queues(spool)
               t == Queues(spool')
    <3>1. DOMAIN q = Recipients /\ t = [r \in Recipients |-> t[r]] /\ q = [r \in Recipients |-> q[r]]
      BY DEF Queues
    <3> HIDE DEF q, t
    <3>2. \A r \in Recipients : t[r] = IF r = to THEN Append(q[r], nextSequence) ELSE q[r]
      BY <2>9 DEF q, t
    <3>3. t = [q EXCEPT ![to] = Append(@, nextSequence)]
      BY <3>1, <3>2
    <3> QED
      BY <3>3 DEF q, t
  <2>11. nextSequence \in Sequences
    BY <2>1 DEF Sequences
  <2>12. Mailboxes!Next
    BY <1>1, <2>2, <2>10, <2>11, NextIsNew, AcceptIs
  <2> QED
    BY <2>8, <2>12 DEF Follows
<1> QED
  BY <1>1, <1>2, <1>3

\* The queues without the rows a broker that opens drops.
LEMMA OpenFollows ==
  ASSUME BrokerInv, OrderInv, BrokerInv', NEW b \in Brokers, NEW known, NEW blind,
         Open(b, known, blind)
  PROVE  Follows
<1> DEFINE rec(e) == Reconciled(b, e, blind)
           swept == [k \in DOMAIN spool |-> rec(spool[k])]
           undelivered == {k \in DOMAIN spool : ~HasId(deliveries, spool[k].id)}
<1>0. PICK kept : kept = {k \in undelivered : swept[k].claim # NoClaim \/ To_(spool[k]) \in known}
  OBVIOUS
<1>1. /\ pc' = [pc EXCEPT ![b] = "idle"] /\ spool' = Subsequence(swept, kept)
      /\ UNCHANGED <<deferred, nextSequence, air, landed, entries, blocked>>
  BY <1>0 DEF Open, world, drainVars
<1>2. spool \in Seq(Entries) /\ Rising(spool) /\ kept \in SUBSET DOMAIN spool
  BY <1>0, Parts DEF OrderInv
<1>3. \A e \in Range(spool) : /\ rec(e) \in Entries /\ rec(e).id = e.id /\ rec(e).sequence = e.sequence
                              /\ (e.uncertain \/ e.claim # NoClaim)
                                   => (rec(e).uncertain \/ rec(e).claim # NoClaim)
  <2> SUFFICES ASSUME NEW e \in Range(spool)
               PROVE  /\ rec(e) \in Entries /\ rec(e).id = e.id /\ rec(e).sequence = e.sequence
                      /\ (e.uncertain \/ e.claim # NoClaim) => (rec(e).uncertain \/ rec(e).claim # NoClaim)
    OBVIOUS
  <2>1. e \in Entries /\ ~(e.uncertain /\ e.claim # NoClaim)
    BY RowsAre, Parts
  <2>2. rec(e) = e \/ rec(e).uncertain
    BY <2>1 DEF Reconciled, Abandoned, Entries
  <2> QED
    BY <2>1, <2>2, ReconciledIs
<1> HIDE DEF undelivered
<1>4. /\ DOMAIN swept = DOMAIN spool
      /\ \A k \in DOMAIN spool : spool[k] \in Range(spool) /\ swept[k] = rec(spool[k])
  BY DEF Range
<1>5. swept \in Seq(Entries) /\ Rising(swept)
  <2> HIDE DEF rec
  <2>1. DOMAIN spool = 1..Len(spool) /\ Len(spool) \in Nat
    BY <1>2, LenProperties
  <2>2. \A k \in 1..Len(spool) : rec(spool[k]) \in Entries
    BY <1>3, <1>4, <2>1
  <2>3. swept = [k \in 1..Len(spool) |-> rec(spool[k])]
    BY <2>1
  <2>4. swept \in Seq(Entries)
    BY <2>1, <2>2, <2>3
  <2>5. Rising(swept)
    BY <1>2, <1>3, <1>4 DEF Rising
  <2> QED
    BY <2>4, <2>5
<1> HIDE DEF swept
<1>6. /\ spool' \in Seq(Entries) /\ Rising(spool')
      /\ Range(spool') = {swept[k] : k \in kept}
  BY <1>1, <1>2, <1>4, <1>5, FilteredRows, RisingFilter
<1> HIDE DEF rec
<1>7. \A y \in Range(spool') : \E x \in Range(spool) :
           /\ y.id = x.id /\ y.sequence = x.sequence
           /\ (x.uncertain \/ x.claim # NoClaim) => (y.uncertain \/ y.claim # NoClaim)
  BY <1>2, <1>3, <1>4, <1>6
<1>8. Younger /\ Attempted' /\ \A s \in air' \cup landed' : s < nextSequence'
  BY <1>1, <1>6, <1>7, FewerOrder
<1>9. OrderWalk(b)
  BY <1>1, <1>8, MovesOrder
<1>10. OrderInv'
  BY <1>6, <1>8, <1>9, OrderKeeps
<1> DEFINE gone == {spool[k].sequence : k \in DOMAIN spool \ kept}
<1>11. gone \in SUBSET Sequences
  <2>1. \A k \in DOMAIN spool : spool[k].sequence \in Sequences
    BY <1>4, RowsAre, Parts DEF Entries
  <2> QED
    BY <2>1
<1>12. ASSUME NEW r \in Recipients
       PROVE  Queues(spool')[r] =
                Subsequence(Queues(spool)[r], {k \in DOMAIN Queues(spool)[r] : Queues(spool)[r][k] \notin gone})
  <2> DEFINE A == SequencesFor(Range(spool), r)
             B == SequencesFor(Range(spool'), r)
  <2>1. /\ Queues(spool)[r] = Sorted(A) /\ A \in SUBSET (1 .. MaxSequence) /\ MaxSequence \in Nat
        /\ Queues(spool')[r] = Sorted(B)
    BY <1>2, <1>6, ListedIs DEF Queues
  <2>2. \A i, k \in DOMAIN spool : spool[i].sequence = spool[k].sequence => spool[i] = spool[k]
    BY <1>4, RowsAre, Parts
  <2>3. \A i, k \in DOMAIN spool : spool[i] = spool[k] => i = k
    BY Parts DEF FileOK, Distinct
  <2>4. B \subseteq A \ gone
    <3> SUFFICES ASSUME NEW k \in kept, To_(swept[k]) = r PROVE swept[k].sequence \in A \ gone
      BY <1>6 DEF SequencesFor
    <3>1. /\ k \in DOMAIN spool /\ spool[k] \in Range(spool) /\ swept[k].id = spool[k].id
          /\ swept[k].sequence = spool[k].sequence
      BY <1>2, <1>3, <1>4
    <3>2. To_(spool[k]) = r
      BY <3>1, ToIs
    <3>3. spool[k].sequence \in A
      BY <3>1, <3>2 DEF SequencesFor
    <3>4. spool[k].sequence \notin gone
      BY <2>2, <2>3, <3>1
    <3> QED
      BY <3>1, <3>3, <3>4
  <2>5. A \ gone \subseteq B
    <3> SUFFICES ASSUME NEW k \in DOMAIN spool, To_(spool[k]) = r, spool[k].sequence \notin gone
                 PROVE  spool[k].sequence \in B
      BY DEF SequencesFor, Range
    <3>1. k \in kept
      OBVIOUS
    <3>2. /\ swept[k] \in Range(spool') /\ swept[k].id = spool[k].id
          /\ swept[k].sequence = spool[k].sequence
      BY <1>3, <1>4, <1>6, <3>1
    <3>3. To_(swept[k]) = r
      BY <3>2, ToIs
    <3> QED
      BY <3>2, <3>3 DEF SequencesFor
  <2> HIDE DEF A, B, gone
  <2>6. B = A \ gone
    BY <2>4, <2>5
  <2>7. Subsequence(Sorted(A), {k \in DOMAIN Sorted(A) : Sorted(A)[k] \notin gone}) = Sorted(A \ gone)
    BY <2>1, SortedChanges
  <2> QED
    BY <2>1, <2>6, <2>7
<1> HIDE DEF gone
<1>13. Queues(spool') =
         [r \in Recipients |->
           Subsequence(Queues(spool)[r], {k \in DOMAIN Queues(spool)[r] : Queues(spool)[r][k] \notin gone})]
  <2> DEFINE q == Queues(spool)
             t == Queues(spool')
  <2>1. t = [r \in Recipients |-> t[r]]
    BY DEF Queues
  <2> HIDE DEF q, t
  <2>2. \A r \in Recipients : t[r] = Subsequence(q[r], {k \in DOMAIN q[r] : q[r][k] \notin gone})
    BY <1>12 DEF q, t
  <2>3. t = [r \in Recipients |-> Subsequence(q[r], {k \in DOMAIN q[r] : q[r][k] \notin gone})]
    BY <2>1, <2>2, Zenon
  <2> QED
    BY <2>3 DEF q, t
<1>14. Mailboxes!Next
  BY <1>1, <1>11, <1>13, DiscardIs
<1> QED
  BY <1>10, <1>14 DEF Follows
LEMMA InitOrdered == Init => OrderInv /\ Mailboxes!Init
<1> SUFFICES ASSUME Init PROVE OrderInv /\ Mailboxes!Init
  OBVIOUS
<1>1. /\ spool = <<>> /\ air = {} /\ landed = {} /\ deferred = {}
      /\ \A b \in Brokers : entries[b] = <<>> /\ pc[b] = "closed"
  BY DEF Init
<1>2. Range(<<>>) = {} /\ Rising(<<>>) /\ <<>> \in Seq(Entries)
  BY EmptySeq DEF Range, Rising
<1>3. OrderInv
  BY <1>1, <1>2 DEF OrderInv, Fresh, Attempted, Ahead, Unblocked
<1>4. \A r : Listed(spool, r) = <<>>
  <2>1. \A r : Listed(spool, r) = Sorted(SequencesFor({}, r))
    BY <1>1, <1>2, ListedIs
  <2>2. \A r : SequencesFor({}, r) = {}
    BY DEF SequencesFor
  <2>3. Sorted({}) = <<>>
    <3>1. Cardinality({}) = 0
      BY FS_EmptySet
    <3> QED
      BY <3>1 DEF Sorted
  <2> QED
    BY <2>1, <2>2, <2>3
<1>5. Queues(spool) = [r \in Recipients |-> <<>>]
  BY <1>4 DEF Queues
<1>6. HeldNow = {}
  BY <1>1 DEF HeldNow
<1> QED
  BY <1>1, <1>3, <1>5, <1>6, Zenon DEF Mailboxes!Init, Queues, Listed, HeldNow

LEMMA StepsOfOneFollow ==
  ASSUME BrokerInv, OrderInv, BrokerInv', NEW b \in Brokers, Step(b)
  PROVE  Follows
<1>1. CASE List(b)
  BY <1>1, ListsFollows
<1>2. CASE Skip(b)
  BY <1>2, SkipFollows
<1>3. CASE RequestWake(b)
  BY <1>3, RequestWakeFollows
<1>4. CASE Reserve(b)
  BY <1>4, ReserveFollows
<1>5. CASE ReserveFails(b)
  BY <1>5, FailsFollows
<1>6. CASE \E executed \in BOOLEAN : WakeAnswered(b, executed)
  BY <1>6, WakeAnsweredFollows
<1>7. CASE \E blind \in SUBSET Procs : ReserveRefused(b, blind)
  BY <1>7, ReserveRefusedFollows
<1>8. CASE Delivered(b)
  BY <1>8, DeliveredFollows
<1>9. CASE NotDelivered(b)
  BY <1>9, NotDeliveredFollows
<1>10. CASE Unsure(b)
  BY <1>10, UnsureFollows
<1>11. CASE RecordFails(b)
  BY <1>11, FailsFollows
<1> QED
  BY <1>1, <1>2, <1>3, <1>4, <1>5, <1>6, <1>7, <1>8, <1>9, <1>10, <1>11, Zenon DEF Step

LEMMA NextFollows == BrokerInv /\ OrderInv /\ BrokerInv' /\ [Next]_vars => Follows
<1> SUFFICES ASSUME BrokerInv, OrderInv, BrokerInv', [Next]_vars PROVE Follows
  OBVIOUS
<1>1. ASSUME NEW b \in Brokers, Step(b) \/ Drain(b) \/ Drop(b) PROVE Follows
  BY <1>1, StepsOfOneFollow, ListsFollows, DropFollows
<1>2. ASSUME NEW b \in Brokers, NEW known, NEW blind, Open(b, known, blind) PROVE Follows
  BY <1>2, OpenFollows
<1>3. ASSUME NEW b \in Brokers, NEW id \in Ids,
             \/ Send(b, id) \/ DeadLetter(b, id)
             \/ DeferDelivery(b, id) \/ Acknowledge(b, id)
      PROVE  Follows
  BY <1>3, SendFollows, DeadLetterFollows, DeferDeliveryFollows, AcknowledgeFollows
<1>4. ASSUME NEW s \in Sequences, Lands(s) PROVE Follows
  BY <1>4, LandsFollows
<1>5. ASSUME NEW to, CooldownEnds(to) PROVE Follows
  BY <1>5, CooldownEndsFollows
<1>6. ASSUME NEW p \in Procs, Crash(p) PROVE Follows
  BY <1>6, CrashFollows
<1>7. CASE UNCHANGED vars
  BY <1>7, QuietFollows DEF vars, file, world
<1> QED
  BY <1>1, <1>2, <1>3, <1>4, <1>5, <1>6, <1>7, Zenon DEF Next

\* Through crashes, lost claims and failed writes the broker implements the
\* queues its senders were promised: a message that may have reached its
\* recipient is never handed to the transport again, those of a recipient are
\* handed over in the order they were accepted, and a hand-off to the model is
\* held until it is confirmed or given up.
THEOREM Refinement == Spec => ImplementsMailboxes
<1>1. Init => OrderInv /\ Mailboxes!Init
  BY InitOrdered
<1>2. BrokerInv /\ OrderInv /\ BrokerInv' /\ [Next]_vars => OrderInv' /\ [Mailboxes!Next]_(Mailboxes!vars)
  <2> SUFFICES ASSUME BrokerInv, OrderInv, BrokerInv', [Next]_vars
               PROVE  OrderInv' /\ [Mailboxes!Next]_(Mailboxes!vars)
    OBVIOUS
  <2>1. OrderInv' /\ (Mailboxes!Next \/ Said' = Said)
    BY NextFollows DEF Follows
  <2>2. Said' = Said => UNCHANGED (Mailboxes!vars)
    BY DEF Mailboxes!vars, Said, Queues, Listed, HeldNow
  <2> QED
    BY <2>1, <2>2
<1>3. Spec => []BrokerInv
  BY Invariant
<1> QED
  BY <1>1, <1>2, <1>3, PTL DEF Spec, ImplementsMailboxes
=============================================================================
